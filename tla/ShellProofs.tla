----------------------------- MODULE ShellProofs -----------------------------
(***************************************************************************)
(* Proofs about the programs in user/ on the kernel, for any number of     *)
(* slots, any lines and any programs in the archive.  Of the kernel's      *)
(* limits they need MAX_OPEN_FILES >= 2, for the two files of ls, and      *)
(* MAX_OPEN_FILES >= MAX_ARG - 1, for cat, which keeps one descriptor more *)
(* for each argument that is the console.  That there is always a slot for *)
(* the next program needs NEST + 3 slots, and that no line is so long that *)
(* read_line would cut a command for a shell out of it.                    *)
(*                                                                         *)
(* The tree of tasks: a task with a child is a shell between fork and the end   *)
(* of wait, so it has only that one child, and the tasks form a chain from *)
(* init to the only task without a child.  A zombie is that task.  Hence   *)
(* only its parent can be the next to lower zombie_exists, which reaps it, *)
(* and a shell whose wait has returned has no child left.                  *)
(*                                                                         *)
(* The files of a program: a task that executes user code holds no more    *)
(* than its place in the program and its argument index account for.       *)
(*                                                                         *)
(* The memory of a program: between read_line and fork, buf holds the line *)
(* behind which there may be anything, and the words that tokenize has cut *)
(* off so far are the first words of the line.  exec copies them to a page *)
(* as strings and pointers that do not overlap, so main gets them.         *)
(*                                                                         *)
(* Shells in shells: each one that runs, each that is about to be started  *)
(* and each line for one that nobody has read yet was counted when it was  *)
(* typed, so there are at most NEST of them.                               *)
(***************************************************************************)
EXTENDS Shell, ContextProofs, SequenceTheorems

(* Registers of a shell that has just forked c. *)
Forked(regs, c) == regs.eip[1] = "sh" /\ regs.eip[2] = "forked" /\ regs.eax = c

(* No task has two children. *)
OneChild == \A c, d \in Tasks : parent[c] \in Tasks /\ parent[d] = parent[c] => d = c

(* A task with a child is alive and about to wait for it, or waits for it. *)
AwaitsChild ==
  \A c \in Tasks : parent[c] \in Tasks =>
    /\ parent[c] # scheduler_task /\ Live(parent[c])
    /\ \/ wpid[parent[c]] = c
       \/ wpid[parent[c]] = NULL /\ Forked(user[parent[c]], c)

(* Nobody lowers zombie_exists while there is a zombie. *)
ZombieAnnounced == \A z \in Tasks : state[z] = "ZOMBIE" => zombie_exists = 1

(* The shape of the tree of tasks. *)
Tree == OneChild /\ AwaitsChild /\ ZombieAnnounced

(* What the programs keep, inductively. *)
ShellInv ==
  /\ CtxInv /\ Inv /\ ParentIsTask /\ LiveParents /\ Ancestry
  /\ Tree

USE ProcAssumption, ContextAssumption
    DEF Tasks, scheduler_task, init_task, NULL, FILE, procstate

-----------------------------------------------------------------------------
(* What programs do.                                                       *)

(* The program that executes is not a shell between fork and wait. *)
Childless == ~(cpu.eip[1] = "sh" /\ cpu.eip[2] = "forked" /\ cpu.eax # 0)

(* The places where programs open files. *)
Opens(eip) == eip[2] = "main" \/ eip \in {<<"ls", "root">>, <<"cat", "open">>}

(* There is room for the file that the program is about to open. *)
Room == InUser /\ Opens(cpu.eip) => nopen[curr_task] < MAX_OPEN_FILES

(* A call of a program. *)
ShellCall ==
  \/ \E next :
       /\ next[1] = cpu.eip[1]
       /\ \/ /\ Childless
             /\ \/ \E ret : ctx_open(next, ret) /\ Opens(cpu.eip)
                \/ \E ret : ctx_other(next, ret)
                \/ ctx_close(next)
                \/ compute(next)
                \/ ctx_fork(next) /\ next[2] = "forked" /\ next[1] = "sh"
          \/ ctx_wait(next) \/ ctx_sleep(next)
  \/ Childless /\ \E p, esp : ctx_execv(p, esp)
  \/ Childless /\ ctx_exit

(* A step of the kernel or a call of a program. *)
ShellStep == ctx_schedule \/ ctx_timer \/ ctx_wait_return \/ ShellCall

(* print, puts, read and the like. *)
LEMMA OtherCall ==
  ASSUME NEW p, NEW l, NEW next, NEW ret, At(p, l), ctx_other(<<p, next>>, ret), Childless
  PROVE  ShellStep
<1>1. cpu.eip = <<p, l>> /\ <<p, next>>[1] = cpu.eip[1]
  BY DEF At
<1> QED
  BY <1>1 DEF ShellStep, ShellCall

(* open. *)
LEMMA OpenCall ==
  ASSUME NEW p, NEW l, NEW next, NEW ret, At(p, l), ctx_open(<<p, next>>, ret), Childless,
         Opens(<<p, l>>)
  PROVE  ShellStep
<1>1. cpu.eip = <<p, l>> /\ <<p, next>>[1] = cpu.eip[1]
  BY DEF At
<1> QED
  BY <1>1 DEF ShellStep, ShellCall

(* The steps of sh. *)
LEMMA ShIsStep == ASSUME sh PROVE ShellStep
<1> USE DEF Childless, Opens, At
<1>1. CASE sh_main
  BY <1>1, OpenCall DEF sh_main
<1>2. CASE sh_prompt \/ sh_read_nothing \/ sh_read \/ sh_read_last \/ call("sh", "failed", "exit")
  <2>1. CASE sh_prompt
    <3>1. At("sh", "prompt") /\ ctx_other(<<"sh", "read">>, 2)
      BY <2>1 DEF sh_prompt
    <3> QED
      BY <3>1, OtherCall
  <2>2. CASE sh_read_nothing \/ call("sh", "failed", "exit")
    <3>1. \/ At("sh", "read") /\ ctx_other(<<"sh", "read">>, 0)
          \/ At("sh", "failed") /\ ctx_other(<<"sh", "exit">>, 0)
      BY <2>2 DEF sh_read_nothing, call
    <3>2. CASE At("sh", "read") /\ ctx_other(<<"sh", "read">>, 0)
      BY <3>2, OtherCall
    <3>3. CASE At("sh", "failed") /\ ctx_other(<<"sh", "exit">>, 0)
      BY <3>3, OtherCall
    <3> QED
      BY <3>1, <3>2, <3>3
  <2>3. CASE sh_read
    <3>1. At("sh", "read") /\ ctx_other(<<"sh", "read">>, 1)
      BY <2>3 DEF sh_read
    <3> QED
      BY <3>1, OtherCall
  <2>4. CASE sh_read_last
    <3>1. At("sh", "read") /\ ctx_other(<<"sh", "token">>, 1)
      BY <2>4 DEF sh_read_last
    <3> QED
      BY <3>1, OtherCall
  <2> QED
    BY <1>2, <2>1, <2>2, <2>3, <2>4
<1>3. CASE sh_token \/ sh_token_end
  <2>1. PICK l \in {"prompt", "token", "fork"} : compute(<<"sh", l>>)
    BY <1>3 DEF sh_token, sh_token_end, goto
  <2>2. cpu.eip = <<"sh", "token">> /\ <<"sh", l>>[1] = cpu.eip[1]
    BY <1>3 DEF sh_token, sh_token_end
  <2>3. Childless
    BY <2>2
  <2> HIDE DEF Childless
  <2> QED
    BY <2>1, <2>2, <2>3 DEF ShellStep, ShellCall
<1>4. CASE sh_fork
  <2>1. cpu.eip = <<"sh", "fork">> /\ ctx_fork(<<"sh", "forked">>)
    BY <1>4 DEF sh_fork
  <2>2. <<"sh", "forked">>[1] = cpu.eip[1] /\ <<"sh", "forked">>[2] = "forked" /\ Childless
    BY <2>1
  <2> HIDE DEF Childless
  <2> QED
    BY <2>1, <2>2 DEF ShellStep, ShellCall
<1>5. CASE sh_execv
  <2>1. Childless
    BY <1>5 DEF sh_execv
  <2> QED
    BY <1>5, <2>1 DEF sh_execv, exec, ShellStep, ShellCall
<1>6. CASE sh_execv_fails
  BY <1>6, OtherCall DEF sh_execv_fails, ctx_execv_fails
<1>7. CASE sh_wait
  <2>1. cpu.eip = <<"sh", "forked">>
        /\ (ctx_wait(<<"sh", "prompt">>) \/ ctx_sleep(<<"sh", "prompt">>))
    BY <1>7 DEF sh_wait
  <2>2. <<"sh", "prompt">>[1] = cpu.eip[1]
    BY <2>1
  <2> QED
    BY <2>1, <2>2 DEF ShellStep, ShellCall
<1>8. CASE leave("sh")
  BY <1>8 DEF leave, ShellStep, ShellCall
<1> QED
  BY <1>1, <1>2, <1>3, <1>4, <1>5, <1>6, <1>7, <1>8 DEF sh

(* The steps of the other programs. *)
LEMMA ToolIsStep == ASSUME init \/ echo \/ hello \/ ls \/ cat PROVE ShellStep
<1> USE DEF Childless, Opens, At
<1>1. CASE init
  BY <1>1 DEF init, exec, ShellStep, ShellCall
<1>2. ASSUME NEW p \in {"echo", "hello"}, prints(p) PROVE ShellStep
  <2>1. CASE open_file(p, "main", "print")
    BY <2>1, OpenCall DEF open_file
  <2>2. CASE call(p, "print", "exit")
    BY <2>2, OtherCall DEF call
  <2>3. CASE leave(p)
    BY <2>3 DEF leave, ShellStep, ShellCall
  <2> QED
    BY <1>2, <2>1, <2>2, <2>3 DEF prints
<1>3. CASE ls
  <2>1. CASE open_file("ls", "main", "root") \/ open_file("ls", "root", "read")
    BY <2>1, OpenCall DEF open_file
  <2>2. CASE call("ls", "read", "print") \/ call("ls", "print", "exit")
    BY <2>2, OtherCall DEF call
  <2>3. CASE leave("ls")
    BY <2>3 DEF leave, ShellStep, ShellCall
  <2> QED
    BY <1>3, <2>1, <2>2, <2>3 DEF ls
<1>4. CASE cat
  <2>1. CASE cat_main
    <3>1. PICK l \in {"print", "open", "exit"} : \E ret : ctx_open(<<"cat", l>>, ret)
      BY <2>1 DEF cat_main, cat_next
    <3> QED
      BY <2>1, <3>1, OpenCall DEF cat_main
  <2>2. CASE cat_open
    <3>1. \/ \E ret : ctx_open(<<"cat", "read">>, ret)
          \/ \E ret : ctx_other(<<"cat", "print">>, ret)
      BY <2>2 DEF cat_open
    <3> QED
      BY <2>2, <3>1, OpenCall, OtherCall DEF cat_open
  <2>3. CASE cat_close
    <3>1. PICK l \in {"open", "exit"} :
            ctx_close(<<"cat", l>>) \/ \E ret : ctx_other(<<"cat", l>>, ret)
      BY <2>3 DEF cat_close, cat_next
    <3>2. cpu.eip = <<"cat", "close">> /\ <<"cat", l>>[1] = cpu.eip[1]
      BY <2>3 DEF cat_close
    <3>3. Childless
      BY <3>2
    <3> HIDE DEF Childless
    <3> QED
      BY <3>1, <3>2, <3>3 DEF ShellStep, ShellCall
  <2>6. CASE cat_read
    <3>1. PICK ret : At("cat", "read") /\ ctx_other(<<"cat", "write">>, ret)
      BY <2>6 DEF cat_read
    <3> QED
      BY <3>1, OtherCall
  <2>4. CASE call("cat", "write", "close") \/ call("cat", "print", "exit")
    BY <2>4, OtherCall DEF call
  <2>5. CASE leave("cat")
    BY <2>5 DEF leave, ShellStep, ShellCall
  <2> QED
    BY <1>4, <2>1, <2>2, <2>3, <2>4, <2>5, <2>6 DEF cat
<1> QED
  BY <1>1, <1>2, <1>3, <1>4 DEF echo, hello

(* Every step is one of these, or only a line that is typed. *)
LEMMA ShellNextIsStep ==
  [ShellNext]_shell_vars => ShellStep \/ UNCHANGED <<vars, ctx_vars>>
<1>1. kernel => ShellStep
  BY DEF kernel, ShellStep
<1>2. serial_irq => UNCHANGED <<vars, ctx_vars>>
  BY DEF serial_irq
<1>3. user_programs => ShellStep
  BY ShIsStep, ToolIsStep DEF user_programs
<1> QED
  BY <1>1, <1>2, <1>3 DEF ShellNext, shell_vars

-----------------------------------------------------------------------------
(* The chain of tasks.                                                     *)

(* All tasks but init have a parent and no two have the same, so there is  *)
(* only one task that is nobody's parent.                                  *)
LEMMA OneLeaf ==
  ASSUME Inv, ParentIsTask, OneChild, AwaitsChild, machine = "up",
         NEW u \in Tasks \ {scheduler_task}, NEW v \in Tasks \ {scheduler_task},
         state[u] # "UNUSED", state[v] # "UNUSED",
         \A c \in Tasks : parent[c] # u /\ parent[c] # v
  PROVE  u = v
<1> SUFFICES ASSUME u # v PROVE FALSE
  OBVIOUS
<1> DEFINE S == {t \in Tasks \ {scheduler_task} : state[t] # "UNUSED"}
           T == S \ {init_task}
           R == S \ {u}
           f == [t \in T |-> parent[t]]
<1>1. init_task \in S /\ u \in S /\ v \in S /\ v \in R
  BY DEF Inv, FixedSlots, Live
<1>2. \A t \in T : parent[t] \in R \ {v}
  BY DEF ParentIsTask, AwaitsChild, Live
<1>3. \A x, y \in T : f[x] = f[y] => x = y
  BY DEF ParentIsTask, OneChild
<1>4. IsFiniteSet(S) /\ Cardinality(S) \in Nat
  <2>1. IsFiniteSet(Tasks)
    BY FS_Interval
  <2>2. S \in SUBSET Tasks
    OBVIOUS
  <2>3. IsFiniteSet(S)
    BY <2>1, <2>2, FS_Subset, Zenon
  <2> QED
    BY <2>3, FS_CardinalityType
<1>5. f \in [T -> R \ {v}]
  BY <1>2
<1> HIDE DEF S, f
<1>6. IsFiniteSet(T) /\ Cardinality(T) = Cardinality(S) - 1
  BY <1>1, <1>4, FS_RemoveElement
<1>7. IsFiniteSet(R) /\ Cardinality(R) = Cardinality(S) - 1 /\ Cardinality(R) \in Nat
  BY <1>1, <1>4, FS_RemoveElement, FS_CardinalityType
<1> HIDE DEF T, R
<1>8. IsFiniteSet(R \ {v}) /\ Cardinality(R \ {v}) = Cardinality(R) - 1
  BY <1>1, <1>7, FS_RemoveElement
<1>9. Cardinality(R \ {v}) < Cardinality(T)
  BY <1>4, <1>6, <1>7, <1>8
<1> QED
  BY <1>3, <1>5, <1>6, <1>8, <1>9, FS_PigeonHole

(* A zombie has no child. *)
LEMMA ZombieIsLeaf ==
  ASSUME AwaitsChild, NEW z \in Tasks, state[z] = "ZOMBIE"
  PROVE  \A c \in Tasks : parent[c] # z
  BY DEF AwaitsChild, Live

(* The program that executes has no child unless it is a shell before wait. *)
LEMMA ChildlessIs ==
  ASSUME Inv, AwaitsChild, ResumesIntact, InUser, Childless
  PROVE  \A c \in Tasks : parent[c] # curr_task
<1> SUFFICES ASSUME NEW c \in Tasks, parent[c] = curr_task PROVE FALSE
  OBVIOUS
<1>1. curr_task \in Tasks /\ cpu = user[curr_task] /\ wpid[curr_task] = NULL
  BY DEF Inv, TypeOK, ResumesIntact, InUser
<1>2. Forked(user[curr_task], c)
  BY <1>1 DEF AwaitsChild
<1>3. c # 0
  BY <1>1 DEF Inv, FixedSlots
<1> QED
  BY <1>1, <1>2, <1>3 DEF Childless, Forked

(* While a task without a child executes there is no zombie. *)
LEMMA NoZombie ==
  ASSUME Inv, ParentIsTask, OneChild, AwaitsChild, machine = "up", curr_task # scheduler_task,
         \A c \in Tasks : parent[c] # curr_task
  PROVE  \A z \in Tasks : state[z] # "ZOMBIE"
<1> SUFFICES ASSUME NEW z \in Tasks, state[z] = "ZOMBIE" PROVE FALSE
  OBVIOUS
<1>1. curr_task \in Tasks /\ state[curr_task] = "RUNNING" /\ state[scheduler_task] # "ZOMBIE"
  BY DEF Inv, TypeOK, OneRunning, FixedSlots
<1>2. \A c \in Tasks : parent[c] # z
  BY ZombieIsLeaf
<1>3. z = curr_task
  BY <1>1, <1>2, OneLeaf
<1> QED
  BY <1>1, <1>3

(* A call that returns to a task all of whose children are zombies leaves  *)
(* no zombie behind, and the task without a child.                         *)
LEMMA ReturnTree ==
  ASSUME Inv, ParentIsTask, Tree, machine = "up", curr_task # scheduler_task,
         NEW nf, kill_off_zombies(state, parent, nf),
         \A c \in Tasks : parent[c] = curr_task => state[c] = "ZOMBIE",
         \A t \in Tasks : t # curr_task /\ Live(t) => user'[t] = user[t] /\ wpid'[t] = wpid[t]
  PROVE  Tree'
<1>0. /\ curr_task \in Tasks /\ state[curr_task] = "RUNNING"
      /\ OneChild /\ AwaitsChild /\ ZombieAnnounced /\ TypeOK
  BY DEF Inv, TypeOK, OneRunning, Tree
<1>1. \A z \in Tasks : state[z] = "ZOMBIE" => parent[z] = curr_task
  <2>1. CASE \A c \in Tasks : parent[c] # curr_task
    BY <1>0, <2>1, NoZombie
  <2>2. ASSUME NEW c \in Tasks, parent[c] = curr_task, NEW z \in Tasks, state[z] = "ZOMBIE"
        PROVE  z = c
    <3>1. state[c] = "ZOMBIE" /\ state[scheduler_task] # "ZOMBIE"
      BY <2>2 DEF Inv, FixedSlots
    <3>2. \A d \in Tasks : parent[d] # c /\ parent[d] # z
      BY <1>0, <2>2, <3>1, ZombieIsLeaf
    <3> QED
      BY <1>0, <2>2, <3>1, <3>2, OneLeaf
  <2> QED
    BY <2>1, <2>2
<1>2. \A z \in Tasks : state[z] = "ZOMBIE" => z \in Reaped(state, parent)
  BY <1>0, <1>1 DEF Reaped, ZombieAnnounced
<1>3. \A t \in Tasks : IF state[t] = "ZOMBIE" THEN state'[t] = "UNUSED" /\ parent'[t] = NULL
                       ELSE state'[t] = state[t] /\ parent'[t] = parent[t]
  BY <1>0, <1>2 DEF kill_off_zombies, destroy_task, Reaped
<1>4. ZombieAnnounced'
  BY <1>3 DEF ZombieAnnounced
<1>5. OneChild'
  BY <1>0, <1>3 DEF OneChild
<1>6. AwaitsChild'
  <2> SUFFICES ASSUME NEW c \in Tasks, parent'[c] \in Tasks
               PROVE  /\ parent'[c] # scheduler_task /\ Live(parent[c])'
                      /\ \/ wpid'[parent'[c]] = c
                         \/ wpid'[parent'[c]] = NULL /\ Forked(user'[parent'[c]], c)
    BY DEF AwaitsChild, Forked, Live
  <2>1. parent'[c] = parent[c] /\ state[c] # "ZOMBIE"
    BY <1>3
  <2>2. parent[c] # curr_task
    BY <2>1
  <2>3. /\ parent[c] # scheduler_task /\ Live(parent[c])
        /\ \/ wpid[parent[c]] = c
           \/ wpid[parent[c]] = NULL /\ Forked(user[parent[c]], c)
    BY <1>0, <2>1 DEF AwaitsChild
  <2> QED
    BY <1>3, <2>1, <2>2, <2>3 DEF Live
<1> QED
  BY <1>4, <1>5, <1>6 DEF Tree

(* A step that only switches tasks leaves the tree as it is, if it does    *)
(* not touch those who have a child.                                       *)
LEMMA SwitchTree ==
  ASSUME Tree, parent' = parent, parent \in [Tasks -> Tasks \cup {NULL, FILE}],
         zombie_exists' = 1 \/ (zombie_exists' = zombie_exists
                                /\ \A t \in Tasks : state'[t] = "ZOMBIE" => state[t] = "ZOMBIE"),
         \A c \in Tasks : parent[c] \in Tasks /\ Live(parent[c]) =>
           /\ Live(parent[c])'
           /\ \/ wpid'[parent[c]] = c
              \/ wpid'[parent[c]] = wpid[parent[c]] /\ user'[parent[c]] = user[parent[c]]
  PROVE  Tree'
<1>1. OneChild' /\ ZombieAnnounced'
  BY DEF Tree, OneChild, ZombieAnnounced
<1>2. AwaitsChild'
  BY DEF Tree, AwaitsChild, Forked, Live
<1> QED
  BY <1>1, <1>2 DEF Tree

-----------------------------------------------------------------------------
(* Every step keeps the invariant.                                         *)

(* Calls are made by the program that executes, from its own code. *)
LEMMA CallFrom ==
  ASSUME CtxInv, ShellCall
  PROVE  /\ InUser /\ machine = "up" /\ curr_task \in Tasks \ {scheduler_task}
         /\ wpid[curr_task] = NULL /\ state[curr_task] = "RUNNING"
         /\ cpu = user[curr_task] /\ cpu.eip[1] = image[curr_task]
<1>1. InUser
  BY DEF ShellCall, ctx_open, sys_open, ctx_other, sys_other, ctx_close, sys_close, compute,
     ctx_fork, sys_fork, ctx_wait, sys_wait, ctx_sleep, sleep, ctx_execv, sys_execv, ctx_exit,
     sys_exit
<1>2. /\ machine = "up" /\ curr_task \in Tasks \ {scheduler_task}
      /\ wpid[curr_task] = NULL /\ state[curr_task] = "RUNNING"
  BY <1>1 DEF InUser, CtxInv, Core, TypeOK, OneRunning
<1>3. cpu = user[curr_task]
  BY <1>1 DEF CtxInv, ResumesIntact
<1>4. user[curr_task].eip[1] = image[curr_task]
  BY <1>2 DEF CtxInv, OwnCode, Live
<1> QED
  BY <1>1, <1>2, <1>3, <1>4

(* The programs take the steps that Context and ProcProofs allow. *)
LEMMA ShellStepIsCtxStep == ASSUME CtxInv, ShellStep PROVE CtxStep
<1>1. CASE ShellCall
  <2>1. cpu.eip[1] = image[curr_task]
    BY <1>1, CallFrom
  <2>2. ProgramStep
    BY <1>1, <2>1 DEF ShellCall, ProgramStep
  <2> QED
    BY <2>2 DEF CtxStep
<1> QED
  BY <1>1 DEF ShellStep, CtxStep

(* They open no file too many if there is room for each, and no program    *)
(* exits before its child.                                                 *)
LEMMA ShellStepIsOrderly ==
  ASSUME ShellInv, ShellStep, Room
  PROVE  [OrderlyNext]_vars
<1>0. CtxInv /\ Inv /\ AwaitsChild /\ ResumesIntact
  BY DEF ShellInv, Tree, CtxInv
<1>1. CASE ctx_schedule \/ ctx_timer \/ ctx_wait_return
  BY <1>1 DEF ctx_schedule, ctx_timer, ctx_wait_return, OrderlyNext, OtherSteps
<1>2. CASE ShellCall
  <2>1. /\ InUser /\ curr_task \in Tasks \ {scheduler_task} /\ state[curr_task] = "RUNNING"
        /\ cpu = user[curr_task]
    BY <1>0, <1>2, CallFrom
  <2>2. ASSUME NEW next, NEW ret, ctx_open(next, ret), Opens(cpu.eip) PROVE FittingOpen
    BY <2>1, <2>2 DEF Room, ctx_open, FittingOpen
  <2>3. ASSUME Childless, ctx_exit PROVE OrderlyExit
    <3>1. \A c \in Tasks : parent[c] # curr_task
      BY <1>0, <2>1, <2>3, ChildlessIs
    <3> QED
      BY <2>3, <3>1 DEF ctx_exit, OrderlyExit, Children
  <2>4. ASSUME NEW next, compute(next) PROVE UNCHANGED vars
    BY <2>4 DEF compute
  <2>5. ASSUME NEW next, \/ \E ret : ctx_other(next, ret)
                         \/ ctx_close(next) \/ ctx_fork(next) \/ ctx_wait(next) \/ ctx_sleep(next)
        PROVE OtherSteps
    BY <2>5 DEF ctx_other, ctx_close, ctx_fork, ctx_wait, ctx_sleep, OtherSteps
  <2>6. ASSUME NEW p, NEW esp, ctx_execv(p, esp) PROVE OtherSteps
    BY <2>6 DEF ctx_execv, OtherSteps
  <2> QED
    BY <1>2, <2>2, <2>3, <2>4, <2>5, <2>6 DEF ShellCall, OrderlyNext
<1> QED
  BY <1>1, <1>2 DEF ShellStep

(* What a call that returns does to registers. *)
LEMMA ReturnUser ==
  ASSUME CtxInv, NEW fr, NEW result, trampoline_returns(fr, result), curr_task \in Tasks,
         NEW nf, kill_off_zombies(state, parent, nf)
  PROVE  \A t \in Tasks : t # curr_task /\ Live(t) => user'[t] = user[t]
<1>1. user' = Surviving([user EXCEPT ![curr_task] = result], NoRegs)
  BY DEF trampoline_returns
<1>2. \A t \in Tasks : \/ state'[t] = state[t]
                       \/ state[t] = "ZOMBIE" /\ state'[t] = "UNUSED"
  BY DEF kill_off_zombies, destroy_task, Reaped
<1>3. user = [t \in Tasks |-> user[t]]
  BY DEF CtxInv, Tables
<1>4. \A t \in Tasks : state'[t] # "UNUSED" =>
        user'[t] = IF t = curr_task THEN result ELSE user[t]
  BY <1>1, <1>3 DEF Surviving
<1> QED
  BY <1>2, <1>4 DEF Live

(* A call that returns to a program without a child that is alive. *)
LEMMA PlainShell ==
  ASSUME ShellInv, InUser, UNCHANGED wpid,
         NEW fr, NEW result, trampoline_returns(fr, result),
         NEW nf, kill_off_zombies(state, parent, nf),
         \A c \in Tasks : parent[c] = curr_task => state[c] = "ZOMBIE"
  PROVE  Tree'
<1>0. /\ CtxInv /\ Inv /\ ParentIsTask /\ Tree
      /\ curr_task \in Tasks /\ machine = "up" /\ curr_task # scheduler_task
  BY DEF ShellInv, Inv, TypeOK, InUser
<1>1. \A t \in Tasks : t # curr_task /\ Live(t) => user'[t] = user[t]
  BY <1>0, ReturnUser
<1> QED
  BY <1>0, <1>1, ReturnTree

(* open, close, execv, wait and the calls that move no descriptor. *)
LEMMA CallStep ==
  ASSUME ShellInv, ShellCall, Room,
         \/ \E next : /\ Childless
                      /\ \/ \E ret : ctx_open(next, ret) /\ Opens(cpu.eip)
                         \/ \E ret : ctx_other(next, ret)
                         \/ ctx_close(next)
         \/ \E next : ctx_wait(next)
         \/ Childless /\ \E p, esp : ctx_execv(p, esp)
  PROVE  Tree'
<1>0. /\ CtxInv /\ Inv /\ AwaitsChild /\ OneChild /\ ResumesIntact /\ ParentPointers
  BY DEF ShellInv, Tree, CtxInv, Inv
<1>1. /\ InUser /\ curr_task \in Tasks \ {scheduler_task} /\ state[curr_task] = "RUNNING"
  BY <1>0, CallFrom
<1>2. Childless => \A c \in Tasks : parent[c] # curr_task
  BY <1>0, <1>1, ChildlessIs
<1>3. ASSUME NEW next, NEW ret, syscall_returns(next, ret), UNCHANGED wpid,
             NEW nf, kill_off_zombies(state, parent, nf),
             \A c \in Tasks : parent[c] = curr_task => state[c] = "ZOMBIE"
      PROVE  Tree'
  <2>1. trampoline_returns([int_common(next) EXCEPT ![esp0].eax = ret], Returned(next, ret))
    BY <1>3 DEF syscall_returns
  <2> QED
    BY <1>1, <1>3, <2>1, PlainShell
<1>4. ASSUME NEW next, NEW ret, Childless, ctx_open(next, ret), Opens(cpu.eip) PROVE Tree'
  <2>1. nopen[curr_task] < MAX_OPEN_FILES
    BY <1>1, <1>4 DEF Room
  <2>2. kill_off_zombies(state, parent, [nopen EXCEPT ![curr_task] = @ + 1]) /\ UNCHANGED wpid
    <3>1. nopen[curr_task] \in Nat
      BY <1>0, <1>1 DEF Inv, TypeOK
    <3> QED
      BY <1>4, <2>1, <3>1 DEF ctx_open, sys_open
  <2> QED
    BY <1>2, <1>3, <1>4, <2>2 DEF ctx_open
<1>5. ASSUME NEW next, NEW ret, Childless, ctx_other(next, ret) PROVE Tree'
  BY <1>2, <1>3, <1>5 DEF ctx_other, sys_other
<1>6. ASSUME NEW next, Childless, ctx_close(next) PROVE Tree'
  <2>1. kill_off_zombies(state, parent, [nopen EXCEPT ![curr_task] = @ - 1]) /\ UNCHANGED wpid
    BY <1>0, <1>1, <1>6 DEF ctx_close, sys_close, ParentPointers
  <2> QED
    BY <1>2, <1>3, <1>6, <2>1 DEF ctx_close
<1>7. ASSUME NEW next, ctx_wait(next) PROVE Tree'
  <2>1. \A c \in Tasks : parent[c] = curr_task => state[c] = "ZOMBIE"
    BY <1>0, <1>1, <1>7 DEF ctx_wait, sys_wait, FirstChild, Children, OneChild
  <2> QED
    BY <1>3, <1>7, <2>1 DEF ctx_wait, sys_wait
<1>8. ASSUME NEW p, NEW esp, Childless, ctx_execv(p, esp) PROVE Tree'
  <2>1. kill_off_zombies(state, parent, [nopen EXCEPT ![curr_task] = 0]) /\ UNCHANGED wpid
    BY <1>8 DEF ctx_execv, sys_execv
  <2>2. PICK fr, regs : trampoline_returns(fr, regs)
    BY <1>8 DEF ctx_execv
  <2> QED
    BY <1>1, <1>2, <1>8, <2>1, <2>2, PlainShell
<1> QED
  BY <1>4, <1>5, <1>6, <1>7, <1>8

(* wait returns after a sleep: the only child is the one that woke it. *)
LEMMA WaitReturnShell ==
  ASSUME ShellInv, ctx_wait_return
  PROVE  Tree'
<1>0. /\ CtxInv /\ Inv /\ ParentIsTask /\ Tree /\ OneChild
      /\ WokenByExit /\ wpid \in [Tasks -> Tasks \cup {NULL}]
  BY DEF ShellInv, Inv, TypeOK, Tree
<1>1. /\ machine = "up" /\ curr_task # scheduler_task /\ wpid[curr_task] # NULL
      /\ wpid' = [wpid EXCEPT ![curr_task] = NULL]
      /\ kill_off_zombies(state, parent, nopen)
      /\ user' = Surviving(user, NoRegs)
  BY DEF ctx_wait_return, sys_wait_return
<1>2. curr_task \in Tasks /\ state[curr_task] = "RUNNING"
  BY <1>0, <1>1 DEF Inv, TypeOK, OneRunning
<1>3. \A c \in Tasks : parent[c] = curr_task => state[c] = "ZOMBIE"
  <2>1. PICK z \in Tasks : parent[z] = curr_task /\ state[z] = "ZOMBIE"
    BY <1>0, <1>1, <1>2 DEF WokenByExit, Children
  <2> QED
    BY <1>0, <1>2, <2>1 DEF OneChild
<1>4. \A t \in Tasks : \/ state'[t] = state[t] /\ nopen'[t] = nopen[t]
                       \/ state[t] = "ZOMBIE" /\ state'[t] = "UNUSED"
  BY <1>1 DEF kill_off_zombies, destroy_task, Reaped
<1>5. \A t \in Tasks : state'[t] # "UNUSED" => user'[t] = user[t]
  BY <1>1 DEF Surviving
<1>6. \A t \in Tasks : t # curr_task /\ Live(t) => user'[t] = user[t] /\ wpid'[t] = wpid[t]
  BY <1>0, <1>1, <1>4, <1>5 DEF Live
<1>7. Tree'
  BY <1>0, <1>1, <1>3, <1>6, ReturnTree
<1> QED
  BY <1>7

(* The timer and the scheduler only move the CPU. *)
LEMMA SwitchShell ==
  ASSUME ShellInv, ctx_schedule \/ ctx_timer
  PROVE  Tree'
<1>0. Core /\ TypeOK /\ Tree /\ OneRunning
  BY DEF ShellInv, Inv, CtxInv
<1>1. /\ schedule \/ timer_irq
      /\ UNCHANGED <<parent, nopen, wpid, zombie_exists, user>>
  BY DEF ctx_schedule, ctx_timer, schedule, timer_irq
<1>2. \E j \in Tasks : state' = switch_to(state, j) /\ state[j] # "UNUSED" /\ state[j] # "ZOMBIE"
  <2>1. CASE schedule
    BY <2>1 DEF schedule
  <2>2. CASE timer_irq
    BY <1>0, <2>2 DEF timer_irq, Core
  <2> QED
    BY <1>1, <2>1, <2>2
<1>3. \A t \in Tasks : /\ state'[t] = "ZOMBIE" <=> state[t] = "ZOMBIE"
                       /\ state'[t] = "UNUSED" <=> state[t] = "UNUSED"
                       /\ state'[t] \in procstate
  BY <1>0, <1>2 DEF switch_to, TypeOK
<1>4. \A t \in Tasks : Live(t)' <=> Live(t)
  BY <1>0, <1>3 DEF Live, TypeOK
<1>5. Tree'
  <2>1. \A c \in Tasks : parent[c] \in Tasks /\ Live(parent[c]) => Live(parent[c])'
    BY <1>1, <1>4 DEF Live
  <2> QED
    BY <1>0, <1>1, <1>3, <2>1, SwitchTree DEF TypeOK
<1> QED
  BY <1>5

(* wait that sleeps names the only child. *)
LEMMA SleepShell ==
  ASSUME ShellInv, NEW next, ctx_sleep(next)
  PROVE  Tree'
<1>0. /\ Core /\ TypeOK /\ Tree /\ OneRunning /\ OneChild
      /\ CtxInv /\ ResumesIntact /\ Tables
  BY DEF ShellInv, Inv, CtxInv, Tree
<1>1. /\ InUser /\ UNCHANGED <<parent, nopen, zombie_exists>>
      /\ user' = [user EXCEPT ![curr_task] = Returned(next, wpid'[curr_task])]
      /\ state' = switch_to([state EXCEPT ![curr_task] = "SLEEPING"], scheduler_task)
  BY DEF ctx_sleep, sleep
<1>2. /\ curr_task \in Tasks /\ curr_task # scheduler_task /\ state[curr_task] = "RUNNING"
      /\ cpu = user[curr_task] /\ user = [t \in Tasks |-> user[t]]
  BY <1>0, <1>1 DEF InUser, TypeOK, OneRunning, ResumesIntact, Tables
<1>3. PICK c \in Tasks : parent[c] = curr_task /\ wpid' = [wpid EXCEPT ![curr_task] = c]
  BY DEF ctx_sleep, sleep, FirstChild
<1>4. \A t \in Tasks : /\ state'[t] = "ZOMBIE" <=> state[t] = "ZOMBIE"
                       /\ state'[t] = "UNUSED" <=> state[t] = "UNUSED"
                       /\ state'[t] \in procstate
  BY <1>0, <1>1, <1>2 DEF switch_to, TypeOK, Core
<1>5. \A t \in Tasks : Live(t)' <=> Live(t)
  BY <1>0, <1>4 DEF Live, TypeOK
<1>6. \A t \in Tasks : t # curr_task => user'[t] = user[t] /\ wpid'[t] = wpid[t]
  BY <1>0, <1>1, <1>2, <1>3 DEF TypeOK
<1>7. user'[curr_task].eip = next /\ wpid'[curr_task] = c
  BY <1>0, <1>1, <1>2, <1>3 DEF TypeOK, Returned
<1>8. Tree'
  <2>1. ASSUME NEW d \in Tasks, parent[d] \in Tasks, Live(parent[d])
        PROVE  /\ Live(parent[d])'
               /\ \/ wpid'[parent[d]] = d
                  \/ wpid'[parent[d]] = wpid[parent[d]] /\ user'[parent[d]] = user[parent[d]]
    <3>1. Live(parent[d])'
      BY <1>1, <1>5, <2>1 DEF Live
    <3>2. CASE parent[d] = curr_task
      BY <1>0, <1>2, <1>3, <1>7, <3>1, <3>2 DEF OneChild
    <3>3. CASE parent[d] # curr_task
      BY <1>6, <2>1, <3>1, <3>3
    <3> QED
      BY <3>2, <3>3
  <2> QED
    BY <1>0, <1>1, <1>4, <2>1, SwitchTree DEF TypeOK
<1> QED
  BY <1>8

(* A program without a child that exits. *)
LEMMA ExitShell ==
  ASSUME ShellInv, ctx_exit, Childless
  PROVE  Tree'
<1>0. /\ Core /\ Inv /\ TypeOK /\ Tree /\ OneRunning /\ AwaitsChild
      /\ CtxInv /\ ResumesIntact /\ Tables
  BY DEF ShellInv, Inv, CtxInv, Tree
<1>1. /\ InUser /\ UNCHANGED <<parent, nopen, wpid>> /\ zombie_exists' = 1
      /\ user' = [user EXCEPT ![curr_task] = NoRegs]
      /\ \/ state' = [state EXCEPT ![curr_task] = "ZOMBIE"]
         \/ state' = switch_to(wakeup_parent([state EXCEPT ![curr_task] = "ZOMBIE"]),
                               scheduler_task)
  BY DEF ctx_exit, sys_exit
<1>2. /\ curr_task \in Tasks /\ curr_task # scheduler_task /\ state[curr_task] = "RUNNING"
      /\ user = [t \in Tasks |-> user[t]]
  BY <1>0, <1>1 DEF InUser, TypeOK, OneRunning, Tables
<1>3. \A c \in Tasks : parent[c] # curr_task
  BY <1>0, <1>1, ChildlessIs
<1>4. /\ state'[curr_task] = "ZOMBIE"
      /\ \A t \in Tasks : t # curr_task => (Live(t)' <=> Live(t))
  <2> DEFINE st == [state EXCEPT ![curr_task] = "ZOMBIE"]
  <2>1. CASE state' = st
    BY <1>0, <1>2, <2>1 DEF Live, TypeOK
  <2>2. CASE state' = switch_to(wakeup_parent(st), scheduler_task)
    <3> DEFINE w == wakeup_parent(st)
    <3>1. /\ w \in [Tasks -> procstate] /\ w[curr_task] = "ZOMBIE"
          /\ w[scheduler_task] \in {"RUNNING", "RUNNABLE"}
          /\ \A t \in Tasks : t # curr_task =>
               (state[t] \in {"SLEEPING", "RUNNABLE", "RUNNING"}
                  <=> w[t] \in {"SLEEPING", "RUNNABLE", "RUNNING"})
      BY <1>0, <1>2 DEF wakeup_parent, TypeOK, Core
    <3>2. state' = switch_to(w, scheduler_task) /\ Live(scheduler_task)
      BY <1>0, <2>2 DEF Core, Live
    <3> HIDE DEF w
    <3>3. \A t \in Tasks : state'[t] = IF t = scheduler_task THEN "RUNNING"
                                       ELSE IF t = curr_task THEN "ZOMBIE" ELSE w[t]
      BY <1>2, <3>1, <3>2 DEF switch_to
    <3> QED
      BY <1>2, <3>1, <3>2, <3>3 DEF Live
  <2> QED
    BY <1>1, <2>1, <2>2
<1>5. \A t \in Tasks : t # curr_task => user'[t] = user[t]
  BY <1>1, <1>2
<1>6. Tree'
  <2>1. \A c \in Tasks : parent[c] \in Tasks /\ Live(parent[c]) =>
          Live(parent[c])' /\ wpid' = wpid /\ user'[parent[c]] = user[parent[c]]
    BY <1>1, <1>3, <1>4, <1>5 DEF Live
  <2> QED
    BY <1>0, <1>1, <2>1, SwitchTree DEF TypeOK
<1> QED
  BY <1>6

(* A program without a child that computes. *)
LEMMA ComputeShell ==
  ASSUME ShellInv, NEW next, compute(next), Childless
  PROVE  Tree'
<1>0. /\ Inv /\ TypeOK /\ Tree /\ OneRunning /\ AwaitsChild
      /\ CtxInv /\ ResumesIntact /\ Tables /\ IsRegs(cpu)
  BY DEF ShellInv, Inv, CtxInv, Tree
<1>1. /\ InUser /\ UNCHANGED vars
      /\ cpu' = [cpu EXCEPT !.eip = next] /\ user' = [user EXCEPT ![curr_task] = cpu']
  BY DEF compute
<1>2. /\ curr_task \in Tasks /\ curr_task # scheduler_task /\ state[curr_task] = "RUNNING"
      /\ user = [t \in Tasks |-> user[t]] /\ cpu = user[curr_task]
  BY <1>0, <1>1 DEF InUser, TypeOK, OneRunning, Tables, ResumesIntact
<1>3. \A c \in Tasks : parent[c] # curr_task
  BY <1>0, <1>1, ChildlessIs
<1>4. cpu'.eip = next
  BY <1>0, <1>1 DEF IsRegs
<1>5. /\ user'[curr_task].eip = next
      /\ \A t \in Tasks : t # curr_task => user'[t] = user[t]
  BY <1>1, <1>2, <1>4
<1>6. UNCHANGED <<state, parent, nopen, wpid, zombie_exists>>
  BY <1>1 DEF vars
<1>7. Tree'
  BY <1>0, <1>3, <1>5, <1>6, SwitchTree DEF TypeOK, Live
<1> QED
  BY <1>7

(* fork makes the child of a shell that had none. *)
LEMMA ForkShell ==
  ASSUME ShellInv, NEW next, ctx_fork(next), next[1] = "sh", next[2] = "forked", Childless
  PROVE  Tree'
<1>0. /\ Inv /\ TypeOK /\ Tree /\ OneRunning /\ AwaitsChild /\ OneChild
      /\ ParentIsTask /\ CtxInv /\ ResumesIntact /\ Tables
  BY DEF ShellInv, Inv, CtxInv, Tree
<1>1. InUser /\ sys_fork /\ wpid' = wpid
  BY DEF ctx_fork, sys_fork
<1>2. /\ curr_task \in Tasks /\ curr_task # scheduler_task /\ state[curr_task] = "RUNNING"
      /\ user = [t \in Tasks |-> user[t]] /\ cpu = user[curr_task] /\ machine = "up"
      /\ wpid[curr_task] = NULL
  BY <1>0, <1>1 DEF InUser, TypeOK, OneRunning, Tables, ResumesIntact
<1>3. \A c \in Tasks : parent[c] # curr_task
  BY <1>0, <1>1, ChildlessIs
<1>4. \A z \in Tasks : state[z] # "ZOMBIE"
  BY <1>0, <1>2, <1>3, NoZombie
<1>5. PICK tp \in Tasks :
        /\ alloc_task(tp)
        /\ user' = Surviving([user EXCEPT ![tp] = Returned(next, 0),
                                          ![curr_task] = Returned(next, tp)], NoRegs)
  BY DEF ctx_fork
<1>6. kill_off_zombies([state EXCEPT ![tp] = "RUNNABLE"], [parent EXCEPT ![tp] = curr_task],
                       [nopen EXCEPT ![tp] = nopen[curr_task]])
  <2>1. PICK tq \in Tasks :
          /\ alloc_task(tq)
          /\ kill_off_zombies([state EXCEPT ![tq] = "RUNNABLE"], [parent EXCEPT ![tq] = curr_task],
                              [nopen EXCEPT ![tq] = nopen[curr_task]])
    BY <1>1 DEF sys_fork
  <2>2. tq = tp
    BY <1>5, <2>1 DEF alloc_task
  <2> QED
    BY <2>1, <2>2
<1>7. state[tp] = "UNUSED" /\ tp # curr_task /\ tp # scheduler_task
  BY <1>0, <1>2, <1>5 DEF alloc_task, Inv, FixedSlots
<1>8. \A t \in Tasks : /\ state'[t] = IF t = tp THEN "RUNNABLE" ELSE state[t]
                       /\ parent'[t] = IF t = tp THEN curr_task ELSE parent[t]
                       /\ nopen'[t] = IF t = tp THEN nopen[curr_task] ELSE nopen[t]
  BY <1>0, <1>4, <1>6 DEF kill_off_zombies, destroy_task, Reaped, TypeOK
<1>9. \A t \in Tasks : state'[t] # "UNUSED" =>
        user'[t] = IF t = curr_task THEN Returned(next, tp)
                   ELSE IF t = tp THEN Returned(next, 0) ELSE user[t]
  BY <1>2, <1>5, <1>7 DEF Surviving
<1>10. Forked(user'[curr_task], tp)
  BY <1>2, <1>7, <1>8, <1>9 DEF Forked, Returned
<1>11. \A t \in Tasks : t # tp => (Live(t)' <=> Live(t))
  BY <1>8 DEF Live
<1>12. OneChild' /\ ZombieAnnounced'
  BY <1>0, <1>2, <1>3, <1>4, <1>8, SMTT(30) DEF OneChild, ZombieAnnounced
<1>13. AwaitsChild'
  <2> SUFFICES ASSUME NEW c \in Tasks, parent'[c] \in Tasks
               PROVE  /\ parent'[c] # scheduler_task /\ Live(parent[c])'
                      /\ \/ wpid'[parent'[c]] = c
                         \/ wpid'[parent'[c]] = NULL /\ Forked(user'[parent'[c]], c)
    BY DEF AwaitsChild, Forked, Live
  <2>1. CASE c = tp
    BY <1>1, <1>2, <1>7, <1>8, <1>10, <2>1 DEF Live
  <2>2. CASE c # tp
    <3>1. parent'[c] = parent[c] /\ parent[c] # curr_task
      BY <1>3, <1>8, <2>2
    <3>2. /\ parent[c] # scheduler_task /\ Live(parent[c])
          /\ \/ wpid[parent[c]] = c
             \/ wpid[parent[c]] = NULL /\ Forked(user[parent[c]], c)
      BY <1>0, <3>1 DEF AwaitsChild
    <3>3. parent[c] # tp
      BY <1>7, <3>2 DEF Live
    <3>4. state'[parent[c]] = state[parent[c]] /\ user'[parent[c]] = user[parent[c]]
      BY <1>8, <1>9, <3>1, <3>2, <3>3 DEF Live
    <3> QED
      BY <1>1, <3>1, <3>2, <3>4 DEF Live
  <2> QED
    BY <2>1, <2>2
<1> QED
  BY <1>12, <1>13 DEF Tree

(* A typed line changes nothing of the tasks. *)
LEMMA IdleShell ==
  ASSUME ShellInv, UNCHANGED <<vars, ctx_vars>>
  PROVE  Tree'
<1>1. UNCHANGED <<state, parent, nopen, wpid, zombie_exists, user>>
  BY DEF vars, ctx_vars
<1>2. Tree
  BY DEF ShellInv
<1>4. Tree'
  BY <1>1, <1>2 DEF Tree, OneChild, AwaitsChild, ZombieAnnounced, Forked, Live
<1> QED
  BY <1>4

(* The programs and the kernel keep the chain. *)
LEMMA ShellInvStep ==
  ASSUME ShellInv, Room, Core', [ShellNext]_shell_vars
  PROVE  ShellInv'
<1>1. CtxInv /\ Inv /\ ParentIsTask /\ LiveParents /\ Ancestry
  BY DEF ShellInv
<1>2. ShellStep \/ UNCHANGED <<vars, ctx_vars>>
  BY ShellNextIsStep
<1>3. [CtxStep]_<<vars, ctx_vars>> /\ [OrderlyNext]_vars
  BY <1>1, <1>2, ShellStepIsCtxStep, ShellStepIsOrderly
<1>4. [FittingNext]_vars
  BY <1>3 DEF OrderlyNext, FittingNext, OrderlyExit
<1>5. CtxInv'
  BY <1>1, <1>3, CtxInvStep
<1>6. Inv'
  <2>1. TypeOK'
    BY DEF Core
  <2> QED
    BY <1>1, <1>4, <2>1, InvStep
<1>7. ParentIsTask'
  BY <1>1, <1>4, ParentStep
<1>8. LiveParents' /\ Ancestry'
  BY <1>1, <1>3, <1>6, LineageStep
<1>9. Tree'
  <2>1. CASE UNCHANGED <<vars, ctx_vars>>
    BY <2>1, IdleShell
  <2>2. CASE ctx_schedule \/ ctx_timer
    BY <2>2, SwitchShell
  <2>3. CASE ctx_wait_return
    BY <2>3, WaitReturnShell
  <2>4. CASE ShellCall
    <3>1. ASSUME NEW next, compute(next), Childless
          PROVE  Tree'
      BY <3>1, ComputeShell
    <3>2. ASSUME NEW next, ctx_fork(next), next[2] = "forked", next[1] = "sh", Childless
          PROVE  Tree'
      BY <3>2, ForkShell
    <3>3. ASSUME NEW next, ctx_sleep(next)
          PROVE  Tree'
      BY <3>3, SleepShell
    <3>4. ASSUME Childless, ctx_exit PROVE Tree'
      BY <3>4, ExitShell
    <3> DEFINE Plain ==
          \/ \E next : /\ Childless
                       /\ \/ \E ret : ctx_open(next, ret) /\ Opens(cpu.eip)
                          \/ \E ret : ctx_other(next, ret)
                          \/ ctx_close(next)
          \/ \E next : ctx_wait(next)
          \/ Childless /\ \E p, esp : ctx_execv(p, esp)
    <3>5. CASE Plain
      BY <2>4, <3>5, CallStep
    <3>6. \/ Plain
          \/ \E next : compute(next) /\ Childless
          \/ \E next : ctx_fork(next) /\ next[2] = "forked" /\ next[1] = "sh" /\ Childless
                      
          \/ \E next : ctx_sleep(next)
          \/ Childless /\ ctx_exit
      BY <2>4, Zenon DEF ShellCall
    <3> HIDE DEF Plain
    <3> QED
      BY <3>1, <3>2, <3>3, <3>4, <3>5, <3>6
  <2> QED
    BY <1>2, <2>1, <2>2, <2>3, <2>4 DEF ShellStep
<1> QED
  BY <1>5, <1>6, <1>7, <1>8, <1>9 DEF ShellInv

(* init starts without a child and with no file open. *)
LEMMA ShellInitInv == ShellInit => ShellInv
<1> SUFFICES ASSUME ShellInit PROVE ShellInv
  OBVIOUS
<1>1. CtxInit /\ init_tasks
  BY DEF ShellInit, CtxInit
<1>2. CtxInv /\ Inv /\ LiveParents /\ Ancestry
  BY <1>1, CtxInitInv, InitInv, LineageInit
<1>3. ParentIsTask
  BY <1>1 DEF init_tasks, ParentIsTask
<1>4. Tree
  BY <1>1 DEF init_tasks, Tree, OneChild, AwaitsChild, ZombieAnnounced
<1> QED
  BY <1>2, <1>3, <1>4 DEF ShellInv

-----------------------------------------------------------------------------
(* The programs in user/ use the kernel in no other way than Proc allows:  *)
(* all that is proved of any program holds of them.                        *)
THEOREM ShellImplementsProc == ShellSpec => Spec
<1>1. ShellInit => init_tasks
  BY DEF ShellInit, CtxInit
<1>2. [ShellNext]_shell_vars => [Next]_vars
  <2> SUFFICES ASSUME [ShellNext]_shell_vars PROVE [Next]_vars
    OBVIOUS
  <2>1. CASE UNCHANGED <<vars, ctx_vars>>
    BY <2>1
  <2>2. CASE ShellStep
    BY <2>2 DEF ShellStep, ShellCall, ctx_schedule, ctx_timer, ctx_wait_return, compute, ctx_fork,
       ctx_wait, ctx_sleep, ctx_close, ctx_open, ctx_other, ctx_execv, ctx_exit, Next
  <2> QED
    BY <2>1, <2>2, ShellNextIsStep
<1> QED
  BY <1>1, <1>2, PTL DEF ShellSpec, Spec

-----------------------------------------------------------------------------
(* The words of a line.                                                    *)

(* Every set of natural numbers that is not empty has a least element. *)
LEMMA LeastExists ==
  ASSUME NEW S \in SUBSET Nat, S # {}
  PROVE  \E x \in S : \A y \in S : x <= y
<1> DEFINE R == OpToRel(<, Nat)
<1>1. IsWellFoundedOn(R, Nat)
  BY NatLessThanWellFounded
<1>2. \A x, y \in Nat : x < y => <<x, y>> \in R
  BY DEF OpToRel
<1> HIDE DEF R
<1>3. PICK x \in S : \A y \in S : ~ (<<y, x>> \in R)
  BY <1>1, WFMin
<1>4. ASSUME NEW y \in S PROVE x <= y
  <2>1. ~(y < x) /\ x \in Nat /\ y \in Nat
    BY <1>2, <1>3
  <2> QED
    BY <2>1
<1> QED
  BY <1>4

(* The minimum of a set of natural numbers is one of them and below all. *)
LEMMA MinIs ==
  ASSUME NEW S \in SUBSET Nat, S # {}
  PROVE  Min(S) \in S /\ \A y \in S : Min(S) <= y
BY LeastExists DEF Min

(* Induction on a set of natural numbers. *)
LEMMA SetInduction ==
  ASSUME NEW n \in Nat, NEW G \in SUBSET (0 .. n), 0 \in G,
         \A k \in 0 .. n - 1 : k \in G => k + 1 \in G
  PROVE  G = 0 .. n
<1> SUFFICES ASSUME (0 .. n) \ G # {} PROVE FALSE
  OBVIOUS
<1>0. (0 .. n) \ G \in SUBSET Nat
  OBVIOUS
<1>1. PICK x \in (0 .. n) \ G : \A y \in (0 .. n) \ G : x <= y
  BY <1>0, LeastExists
<1>2. x # 0 /\ x - 1 \in 0 .. n - 1
  BY <1>1
<1>3. x - 1 \in G
  BY <1>1, <1>2
<1> QED
  BY <1>1, <1>2, <1>3

(* What users type. *)
Line == Seq(Letters \cup {SPACE})

(* The starts of words are finitely many; no word has the rank of another. *)
LEMMA RankIs ==
  ASSUME NEW line \in Line
  PROVE  /\ IsFiniteSet(Starts(line)) /\ Cardinality(Starts(line)) \in Nat
         /\ \A i \in Nat : Rank(line, i) \in 0 .. Cardinality(Starts(line))
         /\ \A i, j \in Nat : i < j /\ j \in Starts(line) => Rank(line, i) < Rank(line, j)
<1>1. Starts(line) \in SUBSET (1 .. Len(line)) /\ Len(line) \in Nat
  BY DEF Starts, Line
<1>2. IsFiniteSet(Starts(line))
  <2>1. IsFiniteSet(1 .. Len(line))
    BY <1>1, FS_Interval
  <2> QED
    BY <1>1, <2>1, FS_Subset, Zenon
<1>3. \A i \in Nat : {j \in Starts(line) : j <= i} \in SUBSET Starts(line)
  OBVIOUS
<1>4. \A i \in Nat : /\ IsFiniteSet({j \in Starts(line) : j <= i})
                     /\ Rank(line, i) \in Nat /\ Rank(line, i) <= Cardinality(Starts(line))
  BY <1>2, <1>3, FS_Subset, FS_CardinalityType DEF Rank
<1>5. ASSUME NEW i \in Nat, NEW j \in Nat, i < j, j \in Starts(line)
      PROVE  Rank(line, i) < Rank(line, j)
  <2> DEFINE A == {x \in Starts(line) : x <= i}
             B == {x \in Starts(line) : x <= j}
  <2>1. A \in SUBSET B /\ A # B
    BY <1>1, <1>5
  <2>2. IsFiniteSet(B) /\ Rank(line, i) = Cardinality(A) /\ Rank(line, j) = Cardinality(B)
    BY <1>4 DEF Rank
  <2> HIDE DEF A, B
  <2>3. Cardinality(A) < Cardinality(B)
    <3>1. Cardinality(A) \in Nat /\ Cardinality(B) \in Nat
      BY <1>4, <1>5, <2>2
    <3>2. Cardinality(A) <= Cardinality(B) /\ Cardinality(A) # Cardinality(B)
      BY <2>1, <2>2, FS_Subset
    <3> QED
      BY <3>1, <3>2
  <2> QED
    BY <2>2, <2>3
<1>6. Cardinality(Starts(line)) \in Nat
  BY <1>2, FS_CardinalityType
<1>7. \A i \in Nat : Rank(line, i) \in 0 .. Cardinality(Starts(line))
  <2> TAKE i \in Nat
  <2>1. Rank(line, i) \in Nat /\ Rank(line, i) <= Cardinality(Starts(line))
    BY <1>4
  <2> QED
    BY <1>6, <2>1
<1> QED
  BY <1>2, <1>5, <1>6, <1>7

(* Beyond the line the rank is the number of words; the start of the next  *)
(* word adds one.                                                          *)
LEMMA RankNext ==
  ASSUME NEW line \in Line
  PROVE  /\ Rank(line, 0) = 0
         /\ \A i \in Nat : i >= Len(line) => Rank(line, i) = Cardinality(Starts(line))
         /\ \A i, j \in Nat : i <= j /\ (\A k \in Starts(line) : k <= i \/ k > j)
              => Rank(line, j) = Rank(line, i)
         /\ \A i \in Nat : i + 1 \in Starts(line) => Rank(line, i + 1) = Rank(line, i) + 1
<1>1. Starts(line) \in SUBSET (1 .. Len(line)) /\ Len(line) \in Nat
  BY DEF Starts, Line
<1>2. \A i \in Nat : IsFiniteSet({j \in Starts(line) : j <= i})
  <2>1. \A i \in Nat : {j \in Starts(line) : j <= i} \in SUBSET Starts(line)
    OBVIOUS
  <2> QED
    BY <2>1, RankIs, FS_Subset
<1>3. Rank(line, 0) = 0
  <2>1. {j \in Starts(line) : j <= 0} = {}
    BY <1>1
  <2> QED
    BY <2>1, FS_EmptySet DEF Rank
<1>4. \A i \in Nat : i >= Len(line) => Rank(line, i) = Cardinality(Starts(line))
  <2>1. ASSUME NEW i \in Nat, i >= Len(line) PROVE {j \in Starts(line) : j <= i} = Starts(line)
    BY <1>1, <2>1
  <2> QED
    BY <2>1 DEF Rank
<1>5. \A i, j \in Nat : i <= j /\ (\A k \in Starts(line) : k <= i \/ k > j)
              => Rank(line, j) = Rank(line, i)
  <2>1. ASSUME NEW i \in Nat, NEW j \in Nat, i <= j, \A k \in Starts(line) : k <= i \/ k > j
        PROVE {k \in Starts(line) : k <= i} = {k \in Starts(line) : k <= j}
    BY <1>1, <2>1
  <2> QED
    BY <2>1 DEF Rank
<1>6. ASSUME NEW i \in Nat, i + 1 \in Starts(line) PROVE Rank(line, i + 1) = Rank(line, i) + 1
  <2> DEFINE A == {k \in Starts(line) : k <= i}
             B == {k \in Starts(line) : k <= i + 1}
  <2>1. B = A \cup {i + 1} /\ i + 1 \notin A
    BY <1>1, <1>6
  <2>2. IsFiniteSet(A) /\ Rank(line, i) = Cardinality(A) /\ Rank(line, i + 1) = Cardinality(B)
    BY <1>2 DEF Rank
  <2> HIDE DEF A, B
  <2> QED
    BY <2>1, <2>2, FS_AddElement
<1> QED
  BY <1>3, <1>4, <1>5, <1>6

(* Where a word stops. *)
LEMMA StopIs ==
  ASSUME NEW line \in Line, NEW s \in Starts(line)
  PROVE  /\ Stop(line, s) \in s .. Len(line)
         /\ Stop(line, s) = Len(line) \/ line[Stop(line, s) + 1] = SPACE
         /\ \A j \in s .. Stop(line, s) : line[j] # SPACE
<1> DEFINE S == {j \in s .. Len(line) : j = Len(line) \/ line[j + 1] = SPACE}
<1>1. s \in 1 .. Len(line) /\ Len(line) \in Nat /\ line[s] # SPACE
  BY DEF Starts, Line
<1>2. S \in SUBSET Nat /\ Len(line) \in S
  <2>1. PICK n \in Nat : n = Len(line)
    BY <1>1
  <2>2. s .. n \in SUBSET Nat /\ n \in s .. n
    BY <1>1, <2>1
  <2> QED
    BY <2>1, <2>2
<1>3. Min(S) \in S /\ \A y \in S : Min(S) <= y
  BY <1>2, MinIs
<1>4. Stop(line, s) = Min(S)
  BY DEF Stop
<1>5. ASSUME NEW j \in s .. Min(S) PROVE line[j] # SPACE
  <2>1. CASE j = s
    BY <1>1, <2>1
  <2>2. CASE j # s
    <3>1. j - 1 \in s .. Len(line) /\ j - 1 < Min(S) /\ (j - 1) + 1 = j
      BY <1>1, <1>3, <2>2
    <3>2. j - 1 \notin S
      BY <1>1, <1>3, <3>1
    <3> QED
      BY <3>1, <3>2
  <2> QED
    BY <2>1, <2>2
<1> QED
  BY <1>3, <1>4, <1>5

(* The k-th word is the one whose start has rank k. *)
LEMMA WordsIs ==
  ASSUME NEW line \in Line
  PROVE  /\ DOMAIN Words(line) = 1 .. Cardinality(Starts(line))
         /\ Words(line) = [k \in 1 .. Cardinality(Starts(line)) |-> Words(line)[k]]
         /\ Len(Words(line)) = Cardinality(Starts(line))
         /\ \A s \in Starts(line) :
              /\ Rank(line, s) \in 1 .. Cardinality(Starts(line))
              /\ Words(line)[Rank(line, s)] = SubSeq(line, s, Stop(line, s))
<1> DEFINE nth(k) == CHOOSE i \in Starts(line) : Rank(line, i) = k
<1>1. Words(line) = [k \in 1 .. Cardinality(Starts(line)) |-> SubSeq(line, nth(k), Stop(line, nth(k)))]
  BY DEF Words
<1>2. Cardinality(Starts(line)) \in Nat /\ Starts(line) \in SUBSET (Nat \ {0})
  <2>1. Starts(line) \in SUBSET (Nat \ {0})
    BY DEF Starts
  <2> QED
    BY <2>1, RankIs
<1>3. ASSUME NEW s \in Starts(line)
      PROVE  Rank(line, s) \in 1 .. Cardinality(Starts(line)) /\ nth(Rank(line, s)) = s
  <2>1. Rank(line, 0) < Rank(line, s) /\ Rank(line, s) \in 0 .. Cardinality(Starts(line))
        /\ Rank(line, 0) \in Nat
    BY <1>2, RankIs
  <2>2. \A i \in Starts(line) : Rank(line, i) = Rank(line, s) => i = s
    <3> SUFFICES ASSUME NEW i \in Starts(line), Rank(line, i) = Rank(line, s), i # s PROVE FALSE
      OBVIOUS
    <3>1. i \in Nat /\ s \in Nat /\ (i < s \/ s < i) /\ Rank(line, s) \in Nat
      BY <1>2, <2>1
    <3> QED
      BY <3>1, RankIs
  <2> QED
    BY <1>2, <2>1, <2>2
<1> HIDE DEF nth
<1>4. /\ DOMAIN Words(line) = 1 .. Cardinality(Starts(line))
      /\ Words(line) = [k \in 1 .. Cardinality(Starts(line)) |-> Words(line)[k]]
      /\ Len(Words(line)) = Cardinality(Starts(line))
  <2> DEFINE g(k) == SubSeq(line, nth(k), Stop(line, nth(k)))
             n == Cardinality(Starts(line))
  <2>1. Words(line) = [k \in 1 .. n |-> g(k)] /\ n \in Nat
    BY <1>1, <1>2
  <2> HIDE DEF g, n
  <2>2. Words(line) = [k \in 1 .. n |-> Words(line)[k]] /\ DOMAIN Words(line) = 1 .. n
    BY <2>1
  <2>3. Len(Words(line)) = n
    BY <2>1
  <2> QED
    BY <2>2, <2>3 DEF n
<1> QED
  BY <1>1, <1>3, <1>4

-----------------------------------------------------------------------------
(* The scans of tokenize.                                                  *)

(* What buf may hold. *)
Buffer == [0 .. BUFSIZE - 1 -> Letters \cup {SPACE, NUL}]

(* The loop over spaces stops behind them. *)
LEMMA SkipIs ==
  ASSUME NEW buf, NEW k \in 0 .. BUFSIZE
  PROVE  /\ SkipSpaces(buf, k) \in k .. BUFSIZE
         /\ SkipSpaces(buf, k) = BUFSIZE \/ buf[SkipSpaces(buf, k)] # SPACE
         /\ \A j \in k .. SkipSpaces(buf, k) - 1 : buf[j] = SPACE
<1> DEFINE S == {j \in k .. BUFSIZE : j = BUFSIZE \/ buf[j] # SPACE}
<1>0. BUFSIZE \in Nat
  BY ShellAssumption
<1>1. S \in SUBSET Nat /\ BUFSIZE \in S
  BY <1>0
<1>2. Min(S) \in S /\ \A y \in S : Min(S) <= y
  BY <1>1, MinIs
<1>3. SkipSpaces(buf, k) = Min(S)
  BY DEF SkipSpaces
<1> QED
  BY <1>0, <1>2, <1>3

(* The loop over a word stops at the first space or NUL. *)
LEMMA WordEndIs ==
  ASSUME NEW buf, NEW k \in Nat, NEW e \in k .. BUFSIZE - 1, buf[e] \in {SPACE, NUL},
         \A j \in k .. e - 1 : buf[j] \notin {SPACE, NUL}
  PROVE  WordEnd(buf, k) = e
<1> DEFINE S == {j \in k .. BUFSIZE - 1 : buf[j] \in {SPACE, NUL}}
<1>0. BUFSIZE \in Nat
  BY ShellAssumption
<1>1. S \in SUBSET Nat /\ e \in S
  BY <1>0
<1>2. Min(S) \in S /\ \A y \in S : Min(S) <= y
  BY <1>1, MinIs
<1>3. WordEnd(buf, k) = Min(S)
  BY DEF WordEnd
<1>4. ~(Min(S) < e)
  BY <1>0, <1>2
<1> QED
  BY <1>0, <1>1, <1>2, <1>3, <1>4

(* A string ends before the first NUL. *)
LEMMA StringAtIs ==
  ASSUME NEW chars, DOMAIN chars \in SUBSET Nat, NEW a \in Nat, NEW e \in DOMAIN chars,
         a <= e, chars[e] = NUL, \A j \in a .. e - 1 : chars[j] # NUL
  PROVE  StringAt(chars, a) = [k \in 1 .. e - a |-> chars[a + k - 1]]
<1> DEFINE S == {x \in DOMAIN chars : x >= a /\ chars[x] = NUL}
<1>1. S \in SUBSET Nat /\ e \in S
  OBVIOUS
<1>2. Min(S) \in S /\ \A y \in S : Min(S) <= y
  BY <1>1, MinIs
<1>3. Min(S) = e
  BY <1>1, <1>2
<1> QED
  BY <1>1, <1>3 DEF StringAt

(* So does the length of a string. *)
LEMMA StrlenIs ==
  ASSUME NEW buf \in Buffer, NEW n \in 0 .. BUFSIZE - 1, buf[n] = NUL,
         \A j \in 0 .. n - 1 : buf[j] # NUL
  PROVE  strlen(buf) = n
<1> DEFINE S == {k \in DOMAIN buf : buf[k] = NUL}
<1>1. S \in SUBSET Nat /\ n \in S
  BY DEF Buffer
<1>2. Min(S) \in S /\ \A y \in S : Min(S) <= y
  BY <1>1, MinIs
<1>3. strlen(buf) = Min(S)
  BY DEF strlen
<1> QED
  BY <1>1, <1>2, <1>3

(* Word k of the line has been found: its pointer, its characters, its NUL *)
(* and where it stops, all before rp.                                      *)
Token(line, buf, toks, rp, k) ==
  /\ toks[k] \in Nat /\ toks[k] + 1 \in Starts(line) /\ Rank(line, toks[k] + 1) = k
  /\ Stop(line, toks[k] + 1) < rp
  /\ buf[Stop(line, toks[k] + 1)] = NUL
  /\ \A j \in toks[k] + 1 .. Stop(line, toks[k] + 1) : buf[j - 1] = line[j]

(* The loop of tokenize has come to rp: the words before are found, what   *)
(* is behind is as it was read, and a word starts at rp unless the line is *)
(* at its end.                                                             *)
Scanned(line, buf, toks, rp) ==
  /\ line \in Line /\ Len(line) <= BUFSIZE - 2 /\ buf \in Buffer /\ toks \in Seq(Nat)
  /\ rp \in 0 .. BUFSIZE
  /\ buf[Len(line)] = NUL
  /\ \A k \in 0 .. Len(line) - 1 : k >= rp => buf[k] = line[k + 1]
  /\ rp < Len(line) => rp + 1 \in Starts(line)
  /\ Rank(line, rp) = Len(toks)
  /\ \A k \in 1 .. Len(toks) : Token(line, buf, toks, rp, k)

(* A word starts where the spaces end. *)
LEMMA SkipToStart ==
  ASSUME NEW line \in Line, Len(line) <= BUFSIZE - 2, NEW buf \in Buffer, buf[Len(line)] = NUL,
         NEW k \in 0 .. BUFSIZE - 1,
         \A j \in 0 .. Len(line) - 1 : j >= k => buf[j] = line[j + 1],
         k = 0 \/ k = Len(line) + 1 \/ (k <= Len(line) /\ line[k] = SPACE)
  PROVE  LET r == SkipSpaces(buf, k) IN
         /\ r \in k .. BUFSIZE
         /\ r < Len(line) => r + 1 \in Starts(line)
         /\ \A s \in Starts(line) : s <= k \/ s > r
<1> DEFINE r == SkipSpaces(buf, k)
<1>1. /\ r \in k .. BUFSIZE /\ (r = BUFSIZE \/ buf[r] # SPACE)
      /\ \A j \in k .. r - 1 : buf[j] = SPACE
  BY SkipIs, ShellAssumption
<1>2. Len(line) \in Nat /\ BUFSIZE \in Nat /\ k \in Nat /\ r \in Nat
  BY <1>1, ShellAssumption DEF Line
<1> HIDE DEF r
<1>3. ASSUME r < Len(line) PROVE r + 1 \in Starts(line)
  <2>1. line[r + 1] # SPACE
    BY <1>1, <1>2, <1>3
  <2>2. r = 0 \/ line[r] = SPACE
    <3>1. CASE r = k
      BY <1>2, <1>3, <3>1
    <3>2. CASE r # k
      <4>1. r - 1 \in k .. r - 1 /\ r - 1 \in 0 .. Len(line) - 1 /\ (r - 1) + 1 = r
        BY <1>1, <1>2, <1>3, <3>2
      <4>2. buf[r - 1] = SPACE /\ r - 1 >= k
        BY <1>1, <1>2, <4>1
      <4>3. buf[r - 1] = line[(r - 1) + 1]
        BY <4>1, <4>2
      <4> QED
        BY <4>1, <4>2, <4>3
    <3> QED
      BY <3>1, <3>2
  <2> QED
    BY <1>2, <1>3, <2>1, <2>2 DEF Starts
<1>4. ASSUME NEW s \in Starts(line), s > k, s <= r PROVE FALSE
  <2>1. s \in 1 .. Len(line) /\ line[s] # SPACE
    BY DEF Starts
  <2>2. s - 1 \in k .. r - 1 /\ s - 1 \in 0 .. Len(line) - 1 /\ (s - 1) + 1 = s
    BY <1>2, <1>4, <2>1
  <2>3. buf[s - 1] = SPACE /\ s - 1 >= k
    BY <1>1, <1>2, <2>2
  <2>4. buf[s - 1] = line[(s - 1) + 1]
    BY <2>2, <2>3
  <2> QED
    BY <2>1, <2>2, <2>3, <2>4
<1>5. \A s \in Starts(line) : s \in Nat
  BY DEF Starts
<1> QED
  BY <1>1, <1>2, <1>3, <1>4, <1>5 DEF r

(* tokenize starts. *)
LEMMA ScanStarts ==
  ASSUME NEW line \in Line, Len(line) <= BUFSIZE - 2, NEW buf \in Buffer, buf[Len(line)] = NUL,
         \A j \in 0 .. Len(line) - 1 : buf[j] = line[j + 1]
  PROVE  Scanned(line, buf, <<>>, SkipSpaces(buf, 0))
<1> DEFINE r == SkipSpaces(buf, 0)
<1>0. BUFSIZE \in Nat /\ BUFSIZE >= 2 /\ Len(line) \in Nat
  BY ShellAssumption DEF Line
<1>1. /\ r \in 0 .. BUFSIZE
      /\ r < Len(line) => r + 1 \in Starts(line)
      /\ \A s \in Starts(line) : s <= 0 \/ s > r
  BY <1>0, SkipToStart
<1> HIDE DEF r
<1>2. Rank(line, r) = Rank(line, 0) /\ Rank(line, 0) = 0
  BY <1>0, <1>1, RankNext
<1>3. <<>> \in Seq(Nat) /\ Len(<<>>) = 0
  OBVIOUS
<1>4. Scanned(line, buf, <<>>, r)
  BY <1>0, <1>1, <1>2, <1>3 DEF Scanned
<1> QED
  BY <1>4 DEF r

(* The word at rp ends where the user's does. *)
LEMMA WordEndIsStop ==
  ASSUME NEW line, NEW buf, NEW toks, NEW rp, Scanned(line, buf, toks, rp), rp < Len(line)
  PROVE  WordEnd(buf, rp) = Stop(line, rp + 1) /\ Stop(line, rp + 1) \in rp + 1 .. Len(line)
<1> DEFINE e == Stop(line, rp + 1)
<1>0. /\ line \in Line /\ rp \in Nat /\ rp + 1 \in Starts(line) /\ Len(line) \in Nat
      /\ Len(line) <= BUFSIZE - 2 /\ BUFSIZE \in Nat
  BY ShellAssumption DEF Scanned, Line
<1>1. /\ e \in rp + 1 .. Len(line) /\ (e = Len(line) \/ line[e + 1] = SPACE)
      /\ \A j \in rp + 1 .. e : line[j] # SPACE
  BY <1>0, StopIs
<1> HIDE DEF e
<1>2. /\ buf[Len(line)] = NUL
      /\ \A j \in 0 .. Len(line) - 1 : j >= rp => buf[j] = line[j + 1]
  BY DEF Scanned
<1>3. buf[e] \in {SPACE, NUL}
  <2>1. CASE e = Len(line)
    BY <1>2, <2>1
  <2>2. CASE e # Len(line)
    <3>1. e \in 0 .. Len(line) - 1 /\ e >= rp
      <4>1. PICK n \in Nat : n = Len(line)
        BY <1>0
      <4>2. e \in rp + 1 .. n /\ e # n /\ rp \in Nat
        BY <1>0, <1>1, <2>2, <4>1
      <4>3. e \in 0 .. n - 1 /\ e >= rp
        BY <4>2
      <4> QED
        BY <4>1, <4>3
    <3> QED
      BY <1>1, <1>2, <2>2, <3>1
  <2> QED
    BY <2>1, <2>2
<1>4. \A j \in rp .. e - 1 : buf[j] \notin {SPACE, NUL}
  <2> TAKE j \in rp .. e - 1
  <2>1. j \in 0 .. Len(line) - 1 /\ j >= rp /\ j + 1 \in rp + 1 .. e /\ j + 1 \in 1 .. Len(line)
    BY <1>0, <1>1
  <2>2. buf[j] = line[j + 1] /\ line[j + 1] # SPACE
    BY <1>1, <1>2, <2>1
  <2>3. line[j + 1] \in Letters \cup {SPACE}
    BY <1>0, <2>1 DEF Line
  <2> QED
    BY <2>2, <2>3, ShellAssumption
<1>5. e \in rp .. BUFSIZE - 1
  BY <1>0, <1>1
<1>6. WordEnd(buf, rp) = e
  BY <1>0, <1>3, <1>4, <1>5, WordEndIs
<1> QED
  BY <1>1, <1>6 DEF e

(* One turn of the loop finds the next word. *)
LEMMA ScanStep ==
  ASSUME NEW line, NEW buf, NEW toks, NEW rp, Scanned(line, buf, toks, rp), rp < Len(line),
         NEW b2, b2 = [buf EXCEPT ![WordEnd(buf, rp)] = NUL]
  PROVE  Scanned(line, b2, Append(toks, rp), SkipSpaces(b2, WordEnd(buf, rp) + 1))
<1> DEFINE e == Stop(line, rp + 1)
           r == SkipSpaces(b2, e + 1)
           ts == Append(toks, rp)
<1>0. /\ line \in Line /\ rp \in Nat /\ rp + 1 \in Starts(line) /\ Len(line) \in Nat
      /\ Len(line) <= BUFSIZE - 2 /\ BUFSIZE \in Nat /\ toks \in Seq(Nat) /\ Len(toks) \in Nat
      /\ buf \in Buffer /\ Rank(line, rp) = Len(toks) /\ buf[Len(line)] = NUL
  BY ShellAssumption DEF Scanned, Line
<1>1. WordEnd(buf, rp) = e /\ e \in rp + 1 .. Len(line)
  BY WordEndIsStop
<1>2. /\ e = Len(line) \/ line[e + 1] = SPACE
      /\ \A j \in rp + 1 .. e : line[j] # SPACE
  BY <1>0, StopIs
<1> HIDE DEF e
<1>3. /\ b2 \in Buffer /\ b2[e] = NUL
      /\ \A j \in 0 .. BUFSIZE - 1 : j # e => b2[j] = buf[j]
  BY <1>0, <1>1 DEF Buffer
<1>4. b2[Len(line)] = NUL
  BY <1>0, <1>1, <1>3
<1>5. \A j \in 0 .. Len(line) - 1 : j >= e + 1 => b2[j] = line[j + 1]
  <2> SUFFICES ASSUME NEW j \in 0 .. Len(line) - 1, j >= e + 1 PROVE b2[j] = line[j + 1]
    OBVIOUS
  <2>1. j >= rp /\ j # e /\ j \in 0 .. BUFSIZE - 1
    BY <1>0, <1>1
  <2>2. buf[j] = line[j + 1]
    BY <2>1 DEF Scanned
  <2> QED
    BY <1>3, <2>1, <2>2
<1>6. /\ r \in e + 1 .. BUFSIZE
      /\ r < Len(line) => r + 1 \in Starts(line)
      /\ \A s \in Starts(line) : s <= e + 1 \/ s > r
  <2>1. e + 1 \in 0 .. BUFSIZE - 1
        /\ (e + 1 = Len(line) + 1 \/ (e + 1 <= Len(line) /\ line[e + 1] = SPACE))
    BY <1>0, <1>1, <1>2
  <2> QED
    BY <1>0, <1>3, <1>4, <1>5, <2>1, SkipToStart
<1> HIDE DEF r
<1>7. Rank(line, r) = Len(toks) + 1 /\ Rank(line, rp + 1) = Len(toks) + 1
  <2>1. \A s \in Starts(line) : s <= rp + 1 \/ s > r
    <3> SUFFICES ASSUME NEW s \in Starts(line), s > rp + 1, s <= e + 1 PROVE FALSE
      <4>1. \A s \in Starts(line) : s \in Nat
        BY DEF Starts
      <4> QED
        BY <1>0, <1>6, <4>1
    <3>1. s \in 1 .. Len(line) /\ line[s] # SPACE /\ (s = 1 \/ line[s - 1] = SPACE)
      BY DEF Starts
    <3>2. s - 1 \in rp + 1 .. e
      BY <1>0, <1>1, <3>1, SMTT(30)
    <3> QED
      BY <1>0, <1>2, <3>1, <3>2
  <2>2. rp + 1 <= r /\ r \in Nat /\ rp + 1 \in Nat
    BY <1>0, <1>1, <1>6
  <2>3. Rank(line, r) = Rank(line, rp + 1)
    BY <1>0, <2>1, <2>2, RankNext
  <2> QED
    BY <1>0, <2>3, RankNext, SMTT(30)
<1>8. /\ ts \in Seq(Nat) /\ Len(ts) = Len(toks) + 1 /\ ts[Len(toks) + 1] = rp
      /\ \A k \in 1 .. Len(toks) : ts[k] = toks[k]
  BY <1>0
<1> HIDE DEF ts
<1>9. ASSUME NEW k \in 1 .. Len(toks) PROVE Token(line, b2, ts, r, k)
  <2>1. Token(line, buf, toks, rp, k) /\ ts[k] = toks[k]
    BY <1>8 DEF Scanned
  <2> DEFINE a == toks[k]
             f == Stop(line, a + 1)
  <2>2. a \in Nat /\ f \in a + 1 .. Len(line) /\ f < rp
    <3>1. a \in Nat /\ a + 1 \in Starts(line) /\ f < rp
      BY <2>1 DEF Token
    <3> QED
      BY <1>0, <3>1, StopIs
  <2> HIDE DEF f
  <2>3. \A j \in 0 .. f : b2[j] = buf[j]
    BY <1>0, <1>1, <1>3, <2>2
  <2>4. buf[f] = NUL /\ \A j \in a + 1 .. f : buf[j - 1] = line[j]
    BY <2>1 DEF Token, f
  <2>5. b2[f] = NUL /\ \A j \in a + 1 .. f : b2[j - 1] = line[j]
    <3>1. f \in 0 .. f /\ \A j \in a + 1 .. f : j - 1 \in 0 .. f
      BY <2>2
    <3> QED
      BY <2>3, <2>4, <3>1
  <2>6. f < r
    BY <1>0, <1>1, <1>6, <2>2, SMTT(30)
  <2> QED
    BY <2>1, <2>5, <2>6 DEF Token, f
<1>10. Token(line, b2, ts, r, Len(toks) + 1)
  <2>1. \A j \in rp + 1 .. e : b2[j - 1] = line[j]
    <3> TAKE j \in rp + 1 .. e
    <3>1. j - 1 \in 0 .. Len(line) - 1 /\ j - 1 >= rp /\ j - 1 # e /\ (j - 1) + 1 = j
          /\ j - 1 \in 0 .. BUFSIZE - 1
      <4>1. j \in Nat /\ j >= rp + 1 /\ j <= e /\ e \in Nat /\ e <= Len(line)
        BY <1>0, <1>1
      <4> QED
        BY <1>0, <4>1, SMTT(30)
    <3>2. buf[j - 1] = line[(j - 1) + 1]
      BY <3>1 DEF Scanned
    <3> QED
      BY <1>3, <3>1, <3>2
  <2>2. e < r
    BY <1>0, <1>1, <1>6
  <2> QED
    BY <1>0, <1>3, <1>7, <1>8, <2>1, <2>2 DEF Token, e
<1>11. \A k \in 1 .. Len(ts) : Token(line, b2, ts, r, k)
  <2> TAKE k \in 1 .. Len(ts)
  <2>1. k \in 1 .. Len(toks) \/ k = Len(toks) + 1
    BY <1>0, <1>8
  <2> QED
    BY <1>9, <1>10, <2>1
<1>12. \A j \in 0 .. Len(line) - 1 : j >= r => b2[j] = line[j + 1]
  BY <1>0, <1>1, <1>5, <1>6
<1>13. r \in 0 .. BUFSIZE
  BY <1>0, <1>1, <1>6
<1>14. Scanned(line, b2, ts, r)
  BY <1>0, <1>3, <1>4, <1>6, <1>7, <1>8, <1>11, <1>12, <1>13 DEF Scanned
<1> QED
  BY <1>1, <1>14 DEF r, ts

(* When the line is at its end all words are found. *)
LEMMA ScanEnds ==
  ASSUME NEW line, NEW buf, NEW toks, NEW rp, Scanned(line, buf, toks, rp), ~(rp < Len(line))
  PROVE  Strings(buf, toks) = Words(line) /\ Len(toks) = Len(Words(line))
<1>0. /\ line \in Line /\ rp \in Nat /\ Len(line) \in Nat
      /\ Len(line) <= BUFSIZE - 2 /\ BUFSIZE \in Nat /\ toks \in Seq(Nat) /\ Len(toks) \in Nat
      /\ buf \in Buffer /\ Rank(line, rp) = Len(toks)
      /\ DOMAIN toks = 1 .. Len(toks)
  BY ShellAssumption DEF Scanned, Line
<1>1. Cardinality(Starts(line)) = Len(toks)
  BY <1>0, RankNext
<1>2. DOMAIN Words(line) = 1 .. Len(toks) /\ Len(Words(line)) = Len(toks)
  BY <1>0, <1>1, WordsIs
<1>3. ASSUME NEW k \in 1 .. Len(toks) PROVE StringAt(buf, toks[k]) = Words(line)[k]
  <2> DEFINE a == toks[k]
             f == Stop(line, a + 1)
  <2>1. /\ a \in Nat /\ a + 1 \in Starts(line) /\ Rank(line, a + 1) = k
        /\ buf[f] = NUL /\ \A j \in a + 1 .. f : buf[j - 1] = line[j]
    BY <1>3 DEF Scanned, Token
  <2>2. f \in a + 1 .. Len(line)
    BY <1>0, <2>1, StopIs
  <2>3. Words(line)[k] = SubSeq(line, a + 1, f)
    BY <1>0, <2>1, WordsIs
  <2> HIDE DEF a, f
  <2>4. \A j \in a .. f - 1 : buf[j] # NUL
    <3> TAKE j \in a .. f - 1
    <3>1. j + 1 \in a + 1 .. f /\ (j + 1) - 1 = j /\ j + 1 \in 1 .. Len(line)
      BY <1>0, <2>1, <2>2
    <3>2. buf[j] = line[j + 1]
      BY <2>1, <3>1
    <3>3. line[j + 1] \in Letters \cup {SPACE}
      BY <1>0, <3>1 DEF Line
    <3> QED
      BY <3>2, <3>3, ShellAssumption
  <2>5. DOMAIN buf \in SUBSET Nat /\ f \in DOMAIN buf /\ a <= f
    BY <1>0, <2>1, <2>2 DEF Buffer
  <2>6. StringAt(buf, a) = [i \in 1 .. f - a |-> buf[a + i - 1]]
    BY <2>1, <2>4, <2>5, StringAtIs
  <2>7. SubSeq(line, a + 1, f) = [i \in 1 .. f - a |-> line[a + i]]
    <3>1. SubSeq(line, a + 1, f) = [i \in 1 .. f - (a + 1) + 1 |-> line[(a + 1) + i - 1]]
      BY <1>0, <2>1, <2>2
    <3>2. f - (a + 1) + 1 = f - a /\ \A i \in 1 .. f - a : (a + 1) + i - 1 = a + i
      BY <2>1, <2>2
    <3> QED
      BY <3>1, <3>2
  <2>8. \A i \in 1 .. f - a : buf[a + i - 1] = line[a + i]
    <3> TAKE i \in 1 .. f - a
    <3>1. a + i \in a + 1 .. f
      BY <2>1, <2>2
    <3> QED
      BY <2>1, <3>1
  <2> QED
    BY <2>3, <2>6, <2>7, <2>8 DEF a
<1>4. Words(line) = [k \in 1 .. Len(toks) |-> Words(line)[k]]
  BY <1>0, <1>1, WordsIs
<1>5. Strings(buf, toks) = [k \in 1 .. Len(toks) |-> StringAt(buf, toks[k])]
  BY <1>0 DEF Strings
<1> QED
  BY <1>2, <1>3, <1>4, <1>5

(* Before that there are more. *)
LEMMA ScanGoesOn ==
  ASSUME NEW line, NEW buf, NEW toks, NEW rp, Scanned(line, buf, toks, rp), rp < Len(line)
  PROVE  Len(Words(line)) > Len(toks)
<1>0. /\ line \in Line /\ rp \in Nat /\ rp + 1 \in Starts(line) /\ rp + 1 \in Nat
      /\ Rank(line, rp) = Len(toks) /\ Len(toks) \in Nat
  BY DEF Scanned
<1>1. Rank(line, rp + 1) = Len(toks) + 1
  <2>1. Rank(line, rp + 1) = Rank(line, rp) + 1
    BY <1>0, RankNext
  <2> QED
    BY <1>0, <2>1
<1>2. Rank(line, rp + 1) \in 0 .. Cardinality(Starts(line)) /\ Cardinality(Starts(line)) \in Nat
  BY <1>0, RankIs
<1>3. Len(Words(line)) = Cardinality(Starts(line))
  BY <1>0, WordsIs
<1> QED
  BY <1>0, <1>1, <1>2, <1>3

-----------------------------------------------------------------------------
(* The stack of a new program.                                             *)

(* A cell holds what a copy put there if no later copy covers it. *)
LEMMA PageCell ==
  ASSUME NEW n \in Nat, NEW W, DOMAIN W = 1 .. n, NEW k \in 1 .. n, NEW a \in 0 .. PGSIZE - 1,
         a \in DOMAIN W[k], \A j \in k + 1 .. n : a \notin DOMAIN W[j]
  PROVE  Page(W)[a] = W[k][a]
<1> DEFINE C == {j \in DOMAIN W : a \in DOMAIN W[j]}
<1>1. k \in C /\ C \in SUBSET (1 .. n)
  OBVIOUS
<1>2. \A j \in C : j <= k
  <2> SUFFICES ASSUME NEW j \in C, ~(j <= k) PROVE FALSE
    OBVIOUS
  <2>1. j \in k + 1 .. n
    BY <1>1
  <2> QED
    BY <2>1
<1>3. Page(W)[a] = IF C = {} THEN <<0, 0>> ELSE W[Max(C)][a]
  BY DEF Page
<1> HIDE DEF C
<1>4. Max(C) = k
  <2>1. \A x \in C : (\A y \in C : x >= y) => x = k
    BY <1>1, <1>2
  <2>2. k \in C /\ \A y \in C : k >= y
    BY <1>1, <1>2
  <2>3. Max(C) = CHOOSE x \in C : \A y \in C : x >= y
    BY DEF Max
  <2> QED
    BY <2>1, <2>2, <2>3
<1> QED
  BY <1>1, <1>3, <1>4

(* A word reads back as it was stored. *)
LEMMA WordAtIs ==
  ASSUME NEW page, NEW a \in Nat, a + PTR <= PGSIZE, NEW v \in 0 .. PGSIZE - 1,
         \A k \in 1 .. PTR : page[a + k - 1] = <<v, k>>
  PROVE  WordAt(page, a) = v
<1>1. PTR \in Nat /\ PTR >= 1 /\ PGSIZE \in Nat
  BY UserStackAssumption
<1>2. a \in 0 .. PGSIZE - PTR /\ 1 \in 1 .. PTR /\ a + 1 - 1 = a
  BY <1>1
<1>3. page[a] = <<v, 1>>
  BY <1>2
<1>4. page[a][1] = v
  BY <1>3
<1> QED
  BY <1>2, <1>4 DEF WordAt

(* String i ends where string i - 1 starts. *)
Adjoins(P, args, i) == P[i] = P[i - 1] - (Len(args[i]) + 1)

(* The places of strings, one below the other. *)
LEMMA ArgvPsIs ==
  ASSUME NEW n \in Nat, NEW args, Len(args) = n, \A i \in 1 .. n : Len(args[i]) \in Nat,
         NEW esp \in Int
  PROVE  /\ ArgvPs(esp, args) \in [0 .. n -> Int] /\ ArgvPs(esp, args)[0] = esp
         /\ \A i \in 1 .. n : Adjoins(ArgvPs(esp, args), args, i)
<1> DEFINE Is(f, m) == \A i \in 0 .. m :
             f[i] = IF i = 0 THEN esp ELSE f[i - 1] - (Len(args[i]) + 1)
           G == {m \in 0 .. n : \E f \in [0 .. n -> Int] : Is(f, m)}
<1>1. 0 \in G
  <2> DEFINE z == [i \in 0 .. n |-> esp]
  <2>1. z \in [0 .. n -> Int] /\ Is(z, 0)
    OBVIOUS
  <2> HIDE DEF z, Is
  <2> QED
    BY <2>1
<1>2. ASSUME NEW m \in 0 .. n - 1, m \in G PROVE m + 1 \in G
  <2>1. PICK f \in [0 .. n -> Int] : Is(f, m)
    BY <1>2
  <2> DEFINE c == m + 1
             v == f[m] - (Len(args[c]) + 1)
             g == [f EXCEPT ![c] = v]
  <2>c. c \in 1 .. n /\ c \in 0 .. n /\ c # 0 /\ m = c - 1 /\ m \in 0 .. n
    OBVIOUS
  <2>2. v \in Int
    BY <2>c
  <2> HIDE DEF v
  <2>3. g \in [0 .. n -> Int]
    BY <2>2
  <2>4. ASSUME NEW i \in 0 .. c
        PROVE  g[i] = IF i = 0 THEN esp ELSE g[i - 1] - (Len(args[i]) + 1)
    <3>1. CASE i = c
      <4>1. g[i] = v /\ g[i - 1] = f[m] /\ i # 0
        BY <2>c, <3>1
      <4> QED
        BY <3>1, <4>1 DEF v
    <3>2. CASE i # c
      <4>1. i \in 0 .. m /\ g[i] = f[i] /\ (i # 0 => g[i - 1] = f[i - 1])
        BY <2>c, <3>2
      <4> QED
        BY <2>1, <4>1
    <3> QED
      BY <3>1, <3>2
  <2>5. Is(g, c)
    BY <2>4
  <2> HIDE DEF g, Is
  <2> QED
    BY <2>c, <2>3, <2>5
<1>3. G = 0 .. n
  <2> HIDE DEF G
  <2>1. G \in SUBSET (0 .. n)
    BY DEF G
  <2> QED
    BY <1>1, <1>2, <2>1, SetInduction
<1>4. PICK f \in [0 .. n -> Int] : Is(f, n)
  <2>0. n \in 0 .. n
    OBVIOUS
  <2> HIDE DEF G, Is
  <2>1. n \in G
    BY <1>3, <2>0
  <2> QED
    BY <2>1 DEF G
<1> DEFINE F(h) == h = [i \in 0 .. Len(args) |-> IF i = 0 THEN esp ELSE h[i - 1] - (Len(args[i]) + 1)]
<1>5. F(f)
  BY <1>4
<1>6. ArgvPs(esp, args) = CHOOSE h : F(h)
  BY DEF ArgvPs
<1>7. F(ArgvPs(esp, args))
  <2> HIDE DEF F
  <2> QED
    BY <1>5, <1>6
<1> DEFINE P == ArgvPs(esp, args)
<1>8. \A i \in 0 .. n : P[i] = IF i = 0 THEN esp ELSE P[i - 1] - (Len(args[i]) + 1)
  BY <1>7
<1>9. DOMAIN P = 0 .. n /\ P = [i \in 0 .. n |-> P[i]]
  BY <1>7
<1> HIDE DEF P, F
<1> DEFINE H == {m \in 0 .. n : P[m] \in Int}
<1>10. 0 \in H
  BY <1>8
<1>11. ASSUME NEW m \in 0 .. n - 1, m \in H PROVE m + 1 \in H
  <2>1. m + 1 \in 0 .. n /\ m + 1 \in 1 .. n /\ m + 1 # 0 /\ (m + 1) - 1 = m
    OBVIOUS
  <2>2. P[m + 1] = P[m] - (Len(args[m + 1]) + 1)
    BY <1>8, <2>1
  <2>3. P[m] \in Int /\ Len(args[m + 1]) \in Nat
    BY <1>11, <2>1
  <2> QED
    BY <2>1, <2>2, <2>3
<1>12. H = 0 .. n
  <2> HIDE DEF H
  <2>1. H \in SUBSET (0 .. n)
    BY DEF H
  <2> QED
    BY <1>10, <1>11, <2>1, SetInduction
<1>13. P \in [0 .. n -> Int]
  BY <1>9, <1>12
<1>14. P[0] = esp /\ \A i \in 1 .. n : Adjoins(P, args, i)
  <2>1. 0 \in 0 .. n /\ \A i \in 1 .. n : i \in 0 .. n /\ i # 0
    OBVIOUS
  <2>2. \A i \in 1 .. n : P[i] = P[i - 1] - (Len(args[i]) + 1)
    BY <1>8, <2>1
  <2> QED
    BY <1>8, <2>1, <2>2 DEF Adjoins
<1> QED
  BY <1>13, <1>14 DEF P

(* What goes down by at most L a step. *)
LEMMA Descending ==
  ASSUME NEW n \in Nat, NEW P \in [0 .. n -> Int], NEW L \in Nat,
         \A i \in 1 .. n : P[i] <= P[i - 1] /\ P[i] >= P[i - 1] - L
  PROVE  /\ \A i, j \in 0 .. n : i <= j => P[j] <= P[i]
         /\ P[n] >= P[0] - n * L
<1>1. ASSUME NEW m \in 0 .. n - 1
      PROVE  /\ m \in 0 .. n /\ m + 1 \in 0 .. n
             /\ P[m] \in Int /\ P[m + 1] \in Int /\ P[m + 1] <= P[m] /\ P[m + 1] >= P[m] - L
  <2>1. m \in 0 .. n /\ m + 1 \in 0 .. n /\ m + 1 \in 1 .. n /\ (m + 1) - 1 = m
    OBVIOUS
  <2>2. P[m + 1] <= P[m] /\ P[m + 1] >= P[m] - L
    BY <2>1
  <2> QED
    BY <2>1, <2>2
<1>2. \A i, j \in 0 .. n : i <= j => P[j] <= P[i]
  <2> TAKE i \in 0 .. n
  <2> DEFINE G == {j \in 0 .. n : i <= j => P[j] <= P[i]}
  <2>1. 0 \in G
    BY <1>1
  <2>2. ASSUME NEW m \in 0 .. n - 1, m \in G PROVE m + 1 \in G
    BY <1>1, <2>2
  <2>3. G = 0 .. n
    <3> HIDE DEF G
    <3>1. G \in SUBSET (0 .. n)
      BY DEF G
    <3> QED
      BY <2>1, <2>2, <3>1, SetInduction
  <2> QED
    BY <2>3
<1>3. P[n] >= P[0] - n * L
  <2> DEFINE G == {j \in 0 .. n : P[j] >= P[0] - j * L}
  <2>1. 0 \in G
    OBVIOUS
  <2>2. ASSUME NEW m \in 0 .. n - 1, m \in G PROVE m + 1 \in G
    <3>1. (m + 1) * L = m * L + L /\ m * L \in Nat
      OBVIOUS
    <3>2. PICK x \in Nat : x = m * L
      BY <3>1
    <3>3. P[m] >= P[0] - x /\ P[0] \in Int
      BY <2>2, <3>2
    <3>4. P[m + 1] >= P[0] - (x + L)
      BY <1>1, <3>3
    <3>5. P[m + 1] >= P[0] - (m + 1) * L
      BY <3>1, <3>2, <3>4
    <3> QED
      BY <1>1, <3>5
  <2>3. G = 0 .. n
    <3> HIDE DEF G
    <3>1. G \in SUBSET (0 .. n)
      BY DEF G
    <3> QED
      BY <2>1, <2>2, <3>1, SetInduction
  <2>4. n \in 0 .. n
    OBVIOUS
  <2> HIDE DEF G
  <2>5. n \in G
    BY <2>3, <2>4
  <2> QED
    BY <2>5 DEF G
<1> QED
  BY <1>2, <1>3

(* n strings below one another from P[0] on, words below them from base on. *)
Layout(n, args, P, base) ==
  /\ n \in Nat /\ args \in Seq(Line) /\ Len(args) = n
  /\ P \in [0 .. n -> Nat] /\ P[0] < PGSIZE
  /\ \A i \in 1 .. n : Adjoins(P, args, i)
  /\ base \in Nat /\ base >= PTR /\ base + n * PTR + PTR <= P[n]

(* What the word i above base is. *)
Entry(args, P, base, i) == IF i > 0 THEN P[i] ELSE IF i = 0 THEN base + PTR ELSE Len(args)

(* Words do not overlap. *)
LEMMA WordsApart ==
  ASSUME NEW i \in Int, NEW j \in Int, i < j
  PROVE  i * PTR \in Int /\ j * PTR \in Int /\ i * PTR + PTR <= j * PTR
<1>1. PTR \in Nat
  BY UserStackAssumption
<1>2. PICK d \in Nat : j = i + 1 + d
  <2>1. j - (i + 1) \in Nat /\ j = i + 1 + (j - (i + 1))
    OBVIOUS
  <2> QED
    BY <2>1
<1>3. j * PTR = i * PTR + PTR + d * PTR
  BY <1>1, <1>2
<1>4. i * PTR \in Int /\ d * PTR \in Nat
  BY <1>1
<1> QED
  BY <1>1, <1>3, <1>4

(* The cells of a string and of a word. *)
StringCells(arg, p) == [a \in p .. p + Len(arg) |-> Append(arg, NUL)[a - p + 1]]

(* The bytes of the word v at d. *)
WordCells(v, d) == [a \in d .. d + PTR - 1 |-> <<v, a - d + 1>>]

(* The copies, and where they go. *)
LEMMA CopiesAre ==
  ASSUME NEW n, NEW args, NEW P, NEW base, Layout(n, args, P, base)
  PROVE  /\ DOMAIN Copies(args, P, base) = 1 .. 2 * n + 2
         /\ \A k \in 1 .. n : Copies(args, P, base)[k] = StringCells(args[k], P[k])
         /\ \A i \in -1 .. n :
              Copies(args, P, base)[2 * n + 1 - i] = WordCells(Entry(args, P, base, i), base + i * PTR)
<1> DEFINE W == Copies(args, P, base)
<1>0. n \in Nat /\ args \in Seq(Line) /\ PTR \in Nat /\ PTR >= 1 /\ Len(args) = n /\ base \in Nat
  BY UserStackAssumption DEF Layout
<1>1. W = [k \in 1 .. 2 * n + 2 |->
             IF k <= n THEN memcpy_to_another_space(P[k], Append(args[k], NUL))
             ELSE memcpy_to_another_space(base + (2 * n + 1 - k) * PTR,
                                          WordBytes(Entry(args, P, base, 2 * n + 1 - k)))]
  BY <1>0 DEF Copies, Entry
<1> HIDE DEF W
<1>2. ASSUME NEW k \in 1 .. n PROVE W[k] = StringCells(args[k], P[k])
  <2>1. k \in 1 .. 2 * n + 2 /\ k <= n
    BY <1>0
  <2>2. W[k] = memcpy_to_another_space(P[k], Append(args[k], NUL))
    BY <1>1, <2>1
  <2>3. args[k] \in Line /\ P[k] \in Nat
    BY <1>0 DEF Layout
  <2>4. Len(Append(args[k], NUL)) = Len(args[k]) + 1 /\ Len(args[k]) \in Nat
    BY <2>3 DEF Line
  <2>5. P[k] + (Len(args[k]) + 1) - 1 = P[k] + Len(args[k])
    BY <2>3, <2>4
  <2> QED
    BY <2>2, <2>4, <2>5 DEF memcpy_to_another_space, StringCells
<1>3. ASSUME NEW i \in -1 .. n
      PROVE  W[2 * n + 1 - i] = WordCells(Entry(args, P, base, i), base + i * PTR)
  <2> DEFINE v == Entry(args, P, base, i)
             d == base + i * PTR
             k == 2 * n + 1 - i
  <2>1. k \in 1 .. 2 * n + 2 /\ ~(k <= n) /\ i \in Int /\ 2 * n + 1 - k = i
    BY <1>0, <1>3
  <2> HIDE DEF k
  <2>2. W[k] = memcpy_to_another_space(d, WordBytes(v))
    BY <1>1, <1>3, <2>1
  <2>3. d \in Int
    BY <1>0, <2>1
  <2> HIDE DEF v, d
  <2>4. WordBytes(v) = [j \in 1 .. PTR |-> <<v, j>>] /\ Len(WordBytes(v)) = PTR
    BY <1>0 DEF WordBytes
  <2>5. \A a \in d .. d + PTR - 1 : a - d + 1 \in 1 .. PTR
    BY <1>0, <2>3
  <2>6. \A a \in d .. d + PTR - 1 : WordBytes(v)[a - d + 1] = <<v, a - d + 1>>
    BY <2>4, <2>5
  <2>7. W[k] = WordCells(v, d)
    BY <2>2, <2>4, <2>6 DEF memcpy_to_another_space, WordCells
  <2> QED
    BY <2>7 DEF v, d, k
<1>4. DOMAIN W = 1 .. 2 * n + 2
  BY <1>1
<1> QED
  BY <1>2, <1>3, <1>4 DEF W

(* Strings lie above what is copied after them. *)
LEMMA LayoutIs ==
  ASSUME NEW n, NEW args, NEW P, NEW base, Layout(n, args, P, base)
  PROVE  /\ n \in Nat /\ PTR \in Nat /\ PTR >= 1 /\ PGSIZE \in Nat
         /\ \A i, j \in 0 .. n : i <= j => P[j] <= P[i]
         /\ \A i \in 0 .. n : P[i] \in Nat /\ P[i] < PGSIZE
         /\ \A i \in 1 .. n : /\ args[i] \in Line /\ Len(args[i]) \in Nat
                              /\ P[i] + Len(args[i]) = P[i - 1] - 1
         /\ base \in Nat /\ base >= PTR
         /\ \A i \in -1 .. n : /\ i * PTR \in Int /\ base + i * PTR \in Nat
                               /\ base + i * PTR + PTR <= P[n]
<1>1. n \in Nat /\ PTR \in Nat /\ PTR >= 1 /\ PGSIZE \in Nat /\ base \in Nat /\ base >= PTR
  BY UserStackAssumption DEF Layout
<1>2. \A i \in 1 .. n : args[i] \in Line /\ Len(args[i]) \in Nat
  BY DEF Layout, Line
<1>3. P \in [0 .. n -> Nat] /\ P[0] < PGSIZE /\ \A i \in 0 .. n : P[i] \in Nat
  BY DEF Layout
<1>4. \A i \in 1 .. n : P[i] + Len(args[i]) = P[i - 1] - 1
  <2> TAKE i \in 1 .. n
  <2>1. i \in 0 .. n /\ i - 1 \in 0 .. n
    BY <1>1
  <2>2. P[i] = P[i - 1] - (Len(args[i]) + 1)
    BY DEF Layout, Adjoins
  <2> QED
    BY <1>2, <1>3, <2>1, <2>2
<1>5. ASSUME NEW m \in 0 .. n - 1
      PROVE  m \in 0 .. n /\ m + 1 \in 0 .. n /\ P[m + 1] <= P[m] /\ P[m] \in Nat /\ P[m + 1] \in Nat
  <2>1. m \in 0 .. n /\ m + 1 \in 0 .. n /\ m + 1 \in 1 .. n /\ (m + 1) - 1 = m
    BY <1>1
  <2>2. P[m + 1] + Len(args[m + 1]) = P[m] - 1 /\ Len(args[m + 1]) \in Nat
    BY <1>2, <1>4, <2>1
  <2>3. P[m] \in Nat /\ P[m + 1] \in Nat
    BY <1>3, <2>1
  <2> QED
    BY <2>1, <2>2, <2>3
<1>6. \A i, j \in 0 .. n : i <= j => P[j] <= P[i]
  <2> TAKE i \in 0 .. n
  <2> DEFINE G == {j \in 0 .. n : i <= j => P[j] <= P[i]}
  <2>1. 0 \in G
    BY <1>1, <1>3
  <2>2. ASSUME NEW m \in 0 .. n - 1, m \in G PROVE m + 1 \in G
    BY <1>1, <1>3, <1>5, <2>2
  <2>3. G = 0 .. n
    <3> HIDE DEF G
    <3>1. G \in SUBSET (0 .. n)
      BY DEF G
    <3> QED
      BY <1>1, <2>1, <2>2, <3>1, SetInduction
  <2> QED
    BY <2>3
<1>7. \A i \in 0 .. n : P[i] < PGSIZE
  <2> TAKE i \in 0 .. n
  <2>1. 0 \in 0 .. n /\ 0 <= i
    BY <1>1
  <2>2. P[i] <= P[0] /\ P[0] \in Nat /\ P[i] \in Nat
    BY <1>3, <1>6, <2>1
  <2> QED
    BY <1>1, <1>3, <2>2
<1>8. ASSUME NEW i \in -1 .. n
      PROVE  /\ i * PTR \in Int /\ base + i * PTR \in Nat /\ base + i * PTR + PTR <= P[n]
  <2>0. i \in Int /\ i <= n /\ -1 <= i
    BY <1>1
  <2>1. i * PTR \in Int /\ n * PTR \in Int /\ (-1) * PTR = -PTR
    BY <1>1, <2>0
  <2>2. i * PTR <= n * PTR
    <3>1. CASE i = n
      BY <2>1, <3>1
    <3>2. CASE i < n
      BY <1>1, <2>0, <2>1, <3>2, WordsApart
    <3> QED
      BY <1>1, <2>0, <3>1, <3>2
  <2>3. -PTR <= i * PTR
    <3>1. CASE i = -1
      BY <1>1, <2>1, <3>1
    <3>2. CASE -1 < i
      <4>1. (-1) * PTR + PTR <= i * PTR
        BY <2>0, <3>2, WordsApart
      <4> QED
        BY <1>1, <2>1, <4>1
    <3> QED
      BY <2>0, <3>1, <3>2
  <2>4. base + n * PTR + PTR <= P[n] /\ P[n] \in Nat
    <3>1. n \in 0 .. n
      BY <1>1
    <3> QED
      BY <1>3, <3>1 DEF Layout
  <2>5. PICK x \in Int : x = i * PTR
    BY <2>1
  <2>6. PICK y \in Int : y = n * PTR
    BY <2>1
  <2>7. base + x \in Nat /\ base + x + PTR <= P[n]
    <3>1. x <= y /\ -PTR <= x /\ base + y + PTR <= P[n]
      BY <2>2, <2>3, <2>4, <2>5, <2>6
    <3> QED
      BY <1>1, <2>4, <3>1
  <2> QED
    BY <2>1, <2>5, <2>7
<1> QED
  BY <1>1, <1>2, <1>3, <1>4, <1>6, <1>7, <1>8

(* Where a string ends. *)
LEMMA StringLies ==
  ASSUME NEW n, NEW args, NEW P, NEW base, Layout(n, args, P, base), NEW i \in 1 .. n
  PROVE  /\ P[i] \in Nat /\ P[i - 1] \in Nat /\ P[i - 1] < PGSIZE
         /\ Len(args[i]) \in Nat /\ P[i] + Len(args[i]) = P[i - 1] - 1
<1>1. n \in Nat /\ \A j \in 0 .. n : P[j] \in Nat /\ P[j] < PGSIZE
  BY LayoutIs
<1>2. i \in 0 .. n /\ i - 1 \in 0 .. n
  BY <1>1
<1>3. P[i] = P[i - 1] - (Len(args[i]) + 1) /\ Len(args[i]) \in Nat
  BY DEF Layout, Line, Adjoins
<1>4. P[i] \in Nat /\ P[i - 1] \in Nat /\ P[i - 1] < PGSIZE
  BY <1>1, <1>2
<1> QED
  BY <1>3, <1>4

(* Every copy lies below the ones before it. *)
LEMMA CopiesDescend ==
  ASSUME NEW n, NEW args, NEW P, NEW base, Layout(n, args, P, base)
  PROVE  LET W == Copies(args, P, base) IN
         /\ \A s \in 1 .. n : \A a \in P[s] .. P[s] + Len(args[s]) :
              \A k \in s + 1 .. 2 * n + 2 : a \notin DOMAIN W[k]
         /\ \A i \in -1 .. n : \A a \in base + i * PTR .. base + i * PTR + PTR - 1 :
              \A k \in (2 * n + 1 - i) + 1 .. 2 * n + 2 : a \notin DOMAIN W[k]
<1> DEFINE W == Copies(args, P, base)
<1>0. n \in Nat /\ PTR \in Nat /\ PTR >= 1 /\ base \in Nat
  BY LayoutIs
<1>1. ASSUME NEW j \in -1 .. n, NEW x \in Int, x >= base + j * PTR + PTR
      PROVE  x \notin DOMAIN W[2 * n + 1 - j]
  <2>1. W[2 * n + 1 - j] = WordCells(Entry(args, P, base, j), base + j * PTR)
    BY CopiesAre
  <2>2. base + j * PTR \in Nat
    BY LayoutIs
  <2> DEFINE d == base + j * PTR
  <2> HIDE DEF W, d
  <2>3. DOMAIN W[2 * n + 1 - j] = d .. d + PTR - 1
    BY <2>1 DEF WordCells, d
  <2>4. d \in Nat /\ x >= d + PTR
    BY <1>1, <2>2 DEF d
  <2> QED
    BY <1>0, <2>3, <2>4
<1>2. ASSUME NEW s \in 1 .. n, NEW a \in P[s] .. P[s] + Len(args[s]), NEW k \in s + 1 .. 2 * n + 2
      PROVE  a \notin DOMAIN W[k]
  <2>0. s \in 0 .. n /\ s \in Nat /\ n \in 0 .. n /\ s <= n
    BY <1>0
  <2>1. P[s] \in Nat /\ P[n] \in Nat /\ P[n] <= P[s] /\ Len(args[s]) \in Nat
    BY <2>0, LayoutIs
  <2>2. a \in Nat /\ a >= P[s]
    BY <2>1
  <2>3. CASE k <= n
    <3>1. k \in 1 .. n /\ k - 1 \in 0 .. n /\ s <= k - 1 /\ k \in 0 .. n
      BY <1>0, <2>0, <2>3
    <3>2. /\ P[k] + Len(args[k]) = P[k - 1] - 1 /\ P[k - 1] <= P[s] /\ P[k] \in Nat
          /\ Len(args[k]) \in Nat /\ P[k - 1] \in Nat
      <4>1. P[k - 1] <= P[s]
        BY <2>0, <3>1, LayoutIs
      <4> QED
        BY <3>1, <4>1, StringLies
    <3>3. W[k] = StringCells(args[k], P[k])
      BY <3>1, CopiesAre
    <3> HIDE DEF W
    <3>4. DOMAIN W[k] = P[k] .. P[k] + Len(args[k])
      BY <3>3 DEF StringCells
    <3>5. ~(a <= P[k] + Len(args[k]))
      BY <2>1, <2>2, <3>2
    <3> QED
      BY <3>2, <3>4, <3>5
  <2>4. CASE ~(k <= n)
    <3> DEFINE j == 2 * n + 1 - k
    <3>1. j \in -1 .. n /\ 2 * n + 1 - j = k
      BY <1>0, <2>0, <2>4
    <3> HIDE DEF j
    <3>2. base + j * PTR + PTR <= P[n] /\ base + j * PTR \in Nat
      BY <3>1, LayoutIs
    <3>3. a \in Int /\ a >= base + j * PTR + PTR
      BY <1>0, <2>1, <2>2, <3>2
    <3>4. a \notin DOMAIN W[2 * n + 1 - j]
      BY <1>1, <3>1, <3>3
    <3> QED
      BY <3>1, <3>4
  <2> QED
    BY <2>3, <2>4
<1>3. ASSUME NEW i \in -1 .. n, NEW a \in base + i * PTR .. base + i * PTR + PTR - 1,
             NEW k \in (2 * n + 1 - i) + 1 .. 2 * n + 2
      PROVE  a \notin DOMAIN W[k]
  <2> DEFINE j == 2 * n + 1 - k
  <2>1. j \in -1 .. n /\ 2 * n + 1 - j = k /\ j < i /\ i \in Int /\ j \in Int
    BY <1>0
  <2> HIDE DEF j
  <2>2. j * PTR \in Int /\ i * PTR \in Int /\ j * PTR + PTR <= i * PTR
    BY <2>1, WordsApart
  <2>3. a \in Int /\ a >= base + j * PTR + PTR
    BY <1>0, <2>2
  <2>4. a \notin DOMAIN W[2 * n + 1 - j]
    BY <1>1, <2>1, <2>3
  <2> QED
    BY <2>1, <2>4
<1> QED
  BY <1>2, <1>3

(* A string is where it was put. *)
LEMMA StringStays ==
  ASSUME NEW n, NEW args, NEW P, NEW base, Layout(n, args, P, base), NEW s \in 1 .. n,
         NEW a \in P[s] .. P[s] + Len(args[s])
  PROVE  Page(Copies(args, P, base))[a] = StringCells(args[s], P[s])[a]
<1> DEFINE W == Copies(args, P, base)
<1>0. n \in Nat /\ PGSIZE \in Nat /\ s \in 0 .. n /\ s - 1 \in 0 .. n
  BY LayoutIs
<1>1. /\ P[s] \in Nat /\ Len(args[s]) \in Nat /\ P[s] + Len(args[s]) = P[s - 1] - 1
      /\ P[s - 1] < PGSIZE /\ P[s - 1] \in Nat
  BY StringLies
<1>2. a \in 0 .. PGSIZE - 1
  BY <1>0, <1>1
<1>3. W[s] = StringCells(args[s], P[s]) /\ DOMAIN W = 1 .. 2 * n + 2
  BY CopiesAre
<1>4. \A k \in s + 1 .. 2 * n + 2 : a \notin DOMAIN W[k]
  BY CopiesDescend
<1> HIDE DEF W
<1>5. a \in DOMAIN W[s] /\ W[s][a] = StringCells(args[s], P[s])[a]
  BY <1>3 DEF StringCells
<1>6. PICK N \in Nat : N = 2 * n + 2 /\ s \in 1 .. N
  <2>1. 2 * n + 2 \in Nat /\ s \in 1 .. 2 * n + 2
    BY <1>0
  <2> QED
    BY <2>1
<1>7. DOMAIN W = 1 .. N /\ \A k \in s + 1 .. N : a \notin DOMAIN W[k]
  BY <1>3, <1>4, <1>6
<1>8. Page(W)[a] = W[s][a]
  <2>1. s \in 1 .. N /\ a \in DOMAIN W[s]
    BY <1>5, <1>6
  <2> HIDE <1>5
  <2> QED
    BY <1>2, <1>7, <2>1, PageCell
<1> QED
  BY <1>5, <1>8 DEF W

(* So is a word. *)
LEMMA WordStays ==
  ASSUME NEW n, NEW args, NEW P, NEW base, Layout(n, args, P, base), NEW i \in -1 .. n,
         NEW k \in 1 .. PTR
  PROVE  Page(Copies(args, P, base))[base + i * PTR + k - 1] = <<Entry(args, P, base, i), k>>
<1> DEFINE W == Copies(args, P, base)
           d == base + i * PTR
           a == d + k - 1
           q == 2 * n + 1 - i
<1>0. n \in Nat /\ PGSIZE \in Nat /\ n \in 0 .. n /\ PTR \in Nat
  BY LayoutIs
<1>1. d \in Nat /\ d + PTR <= P[n] /\ P[n] < PGSIZE /\ P[n] \in Nat
  BY <1>0, LayoutIs
<1>3. W[q] = WordCells(Entry(args, P, base, i), d) /\ DOMAIN W = 1 .. 2 * n + 2
  BY CopiesAre
<1>4. \A x \in d .. d + PTR - 1 : \A r \in q + 1 .. 2 * n + 2 : x \notin DOMAIN W[r]
  BY CopiesDescend
<1>5. q \in 1 .. 2 * n + 2 /\ 2 * n + 2 \in Nat
  BY <1>0
<1> HIDE DEF W, d, q
<1>6. a \in 0 .. PGSIZE - 1 /\ a \in d .. d + PTR - 1 /\ a - d + 1 = k
  BY <1>0, <1>1
<1> HIDE DEF a
<1>7. a \in DOMAIN W[q] /\ W[q][a] = <<Entry(args, P, base, i), k>>
  BY <1>3, <1>6 DEF WordCells
<1>8. \A r \in q + 1 .. 2 * n + 2 : a \notin DOMAIN W[r]
  BY <1>4, <1>6
<1>9. Page(W)[a] = W[q][a]
  BY <1>3, <1>5, <1>6, <1>7, <1>8, PageCell, SMTT(30)
<1> QED
  BY <1>7, <1>9 DEF W, a, d

(* What main finds in a page that is laid out. *)
LEMMA LaidOut ==
  ASSUME NEW n, NEW args, NEW P, NEW base, Layout(n, args, P, base), n < PGSIZE
  PROVE  Argv(Page(Copies(args, P, base)), base - 2 * PTR) = args
<1> DEFINE page == Page(Copies(args, P, base))
<1>0. /\ n \in Nat /\ PGSIZE \in Nat /\ n \in 0 .. n /\ PTR \in Nat /\ PTR >= 1 /\ base \in Nat
      /\ args \in Seq(Line) /\ Len(args) = n
  <2>1. n \in Nat /\ PGSIZE \in Nat /\ PTR \in Nat /\ PTR >= 1 /\ base \in Nat
    BY LayoutIs
  <2> QED
    BY <2>1 DEF Layout
<1>1. P[n] \in Nat /\ P[n] < PGSIZE
  BY <1>0, LayoutIs
<1>2. ASSUME NEW i \in -1 .. n, NEW v \in 0 .. PGSIZE - 1, v = Entry(args, P, base, i)
      PROVE  WordAt(page, base + i * PTR) = v
  <2>1. base + i * PTR \in Nat /\ base + i * PTR + PTR <= P[n]
    BY LayoutIs
  <2>2. \A k \in 1 .. PTR : page[base + i * PTR + k - 1] = <<v, k>>
    BY <1>2, WordStays
  <2> DEFINE d == base + i * PTR
  <2>3. d \in Nat /\ d + PTR <= PGSIZE
    BY <1>0, <1>1, <2>1
  <2> HIDE DEF d, page
  <2>4. \A k \in 1 .. PTR : page[d + k - 1] = <<v, k>>
    BY <2>2 DEF d
  <2>5. WordAt(page, d) = v
    BY <2>3, <2>4, WordAtIs
  <2> QED
    BY <2>5 DEF d
<1>3. ASSUME NEW i \in 1 .. n PROVE StringAt(page, P[i]) = args[i]
  <2> DEFINE e == P[i] + Len(args[i])
  <2>1. P[i] \in Nat /\ Len(args[i]) \in Nat /\ e < PGSIZE /\ args[i] \in Line
    <3>1. /\ P[i] \in Nat /\ P[i - 1] \in Nat /\ P[i - 1] < PGSIZE
          /\ Len(args[i]) \in Nat /\ P[i] + Len(args[i]) = P[i - 1] - 1
      BY StringLies
    <3>2. args[i] \in Line
      BY <1>0
    <3> QED
      BY <1>0, <3>1, <3>2
  <2>2. \A a \in P[i] .. e : page[a] = Append(args[i], NUL)[a - P[i] + 1]
    <3>1. \A a \in P[i] .. P[i] + Len(args[i]) :
            Page(Copies(args, P, base))[a] = StringCells(args[i], P[i])[a]
      BY StringStays
    <3> QED
      BY <3>1 DEF StringCells
  <2>3. DOMAIN page = 0 .. PGSIZE - 1
    BY DEF Page
  <2>s. PICK s : s = args[i]
    OBVIOUS
  <2>l. PICK l \in Nat : l = Len(s)
    BY <2>1, <2>s
  <2>p. PICK p \in Nat : p = P[i]
    BY <2>1
  <2> HIDE DEF page
  <2>4. s \in Seq(Letters \cup {SPACE}) /\ e = p + l /\ Len(s) = l
    BY <2>1, <2>s, <2>l, <2>p DEF Line
  <2>5. Append(s, NUL)[l + 1] = NUL /\ \A k \in 1 .. l : Append(s, NUL)[k] = s[k]
    BY <2>4
  <2>6. \A k \in 1 .. l : s[k] # NUL
    BY <2>4, ShellAssumption
  <2>7. page[p + l] = NUL
    <3>1. p + l \in p .. p + l /\ (p + l) - p + 1 = l + 1
      OBVIOUS
    <3>2. page[p + l] = Append(s, NUL)[(p + l) - p + 1]
      BY <2>2, <2>4, <2>s, <2>p, <3>1
    <3> QED
      BY <2>5, <3>1, <3>2
  <2>8. \A k \in 1 .. l : page[p + k - 1] = s[k]
    <3> TAKE k \in 1 .. l
    <3>1. p + k - 1 \in p .. p + l /\ (p + k - 1) - p + 1 = k
      OBVIOUS
    <3>2. page[p + k - 1] = Append(s, NUL)[(p + k - 1) - p + 1]
      BY <2>2, <2>4, <2>s, <2>p, <3>1
    <3> QED
      BY <2>5, <3>1, <3>2
  <2>9. \A j \in p .. (p + l) - 1 : page[j] # NUL
    <3> TAKE j \in p .. (p + l) - 1
    <3>1. j - p + 1 \in 1 .. l /\ p + (j - p + 1) - 1 = j
      OBVIOUS
    <3> QED
      BY <2>6, <2>8, <3>1
  <2>10. p + l \in DOMAIN page /\ DOMAIN page \in SUBSET Nat /\ p <= p + l
    BY <1>0, <2>1, <2>3, <2>4
  <2>11. StringAt(page, p) = [k \in 1 .. (p + l) - p |-> page[p + k - 1]]
    <3>1. PICK z \in DOMAIN page : z = p + l
      BY <2>10
    <3>2. p <= z /\ page[z] = NUL /\ \A j \in p .. z - 1 : page[j] # NUL
      BY <2>7, <2>9, <2>10, <3>1
    <3>3. StringAt(page, p) = [k \in 1 .. z - p |-> page[p + k - 1]]
      BY <2>10, <3>2, StringAtIs
    <3> QED
      BY <3>1, <3>3
  <2>12. (p + l) - p = l /\ s = [k \in 1 .. l |-> s[k]]
    BY <2>4
  <2>13. StringAt(page, p) = s
    BY <2>8, <2>11, <2>12
  <2> QED
    BY <2>13, <2>s, <2>p
<1>4. ASSUME NEW i \in 1 .. n PROVE WordAt(page, base + i * PTR) = P[i]
  <2>1. i \in -1 .. n /\ i \in 0 .. n /\ i > 0
    BY <1>0
  <2>2. P[i] \in 0 .. PGSIZE - 1 /\ P[i] = Entry(args, P, base, i)
    <3>1. P[i] \in Nat /\ P[i] < PGSIZE
      BY <2>1, LayoutIs
    <3> QED
      BY <1>0, <2>1, <3>1 DEF Entry
  <2> QED
    BY <1>2, <2>1, <2>2
<1>5. WordAt(page, base + 0 * PTR) = base + PTR
  <2>1. 0 \in -1 .. n
    BY <1>0
  <2>2. base + 0 * PTR + PTR <= P[n] /\ 0 * PTR = 0
    BY <1>0, <2>1, LayoutIs
  <2>3. base + PTR \in 0 .. PGSIZE - 1 /\ base + PTR = Entry(args, P, base, 0)
    BY <1>0, <1>1, <2>2 DEF Entry
  <2> QED
    BY <1>2, <2>1, <2>3
<1>6. WordAt(page, base + (-1) * PTR) = n
  <2>1. -1 \in -1 .. n /\ n \in 0 .. PGSIZE - 1 /\ n = Entry(args, P, base, -1)
    BY <1>0 DEF Entry
  <2> QED
    BY <1>2, <2>1
<1>7. /\ (base - 2 * PTR) + PTR = base + (-1) * PTR /\ (base - 2 * PTR) + 2 * PTR = base + 0 * PTR
      /\ \A i \in 1 .. n : (base + PTR) + (i - 1) * PTR = base + i * PTR
  <2>1. \A i \in Int : (i - 1) * PTR = i * PTR - PTR /\ i * PTR \in Int
    BY <1>0
  <2>2. ASSUME NEW i \in 1 .. n PROVE (base + PTR) + (i - 1) * PTR = base + i * PTR
    <3>1. PICK x \in Int : x = i * PTR /\ (i - 1) * PTR = x - PTR
      BY <2>1
    <3> QED
      BY <1>0, <3>1
  <2>3. (base - 2 * PTR) + PTR = base + (-1) * PTR /\ (base - 2 * PTR) + 2 * PTR = base + 0 * PTR
    BY <1>0
  <2> QED
    BY <2>2, <2>3
<1> HIDE DEF page
<1> DEFINE esp == base - 2 * PTR
<1>8. Argc(page, esp) = n /\ WordAt(page, esp + 2 * PTR) = base + PTR
  BY <1>5, <1>6, <1>7 DEF Argc
<1> HIDE DEF esp
<1>9. Argv(page, esp) = [i \in 1 .. n |-> StringAt(page, WordAt(page, (base + PTR) + (i - 1) * PTR))]
  BY <1>8 DEF Argv
<1>10. \A i \in 1 .. n : StringAt(page, WordAt(page, (base + PTR) + (i - 1) * PTR)) = args[i]
  BY <1>3, <1>4, <1>7
<1>11. args = [i \in 1 .. n |-> args[i]]
  BY <1>0
<1> QED
  BY <1>9, <1>10, <1>11 DEF page, esp

(* The arguments that are copied. *)
LEMMA CopiedIs ==
  ASSUME NEW w \in Seq(Line)
  PROVE  /\ Copied(w) \in Seq(Line) /\ Len(Copied(w)) \in Nat /\ Len(Copied(w)) <= Len(w)
         /\ (PGSIZE \div 3) \div MAX_ARGC \in Nat
         /\ \A i \in 1 .. Len(Copied(w)) : Len(Copied(w)[i]) <= (PGSIZE \div 3) \div MAX_ARGC
<1> DEFINE S == {Len(w), MAX_ARGC} \cup {i - 1 : i \in {i \in 1 .. Len(w) : TooLong(w[i])}}
<1>1. PICK l \in Nat : l = Len(w)
  OBVIOUS
<1>2. /\ PGSIZE \in Nat /\ MAX_ARGC \in Nat \ {0} /\ PGSIZE \div 3 \in Nat
      /\ (PGSIZE \div 3) \div MAX_ARGC \in Nat
  BY UserStackAssumption
<1>3. S \in SUBSET Nat /\ l \in S
  <2>1. \A i \in 1 .. l : i - 1 \in Nat
    OBVIOUS
  <2> QED
    BY <1>1, <1>2, <2>1
<1>4. PICK n \in Nat : n = Min(S) /\ n <= l /\ \A y \in S : n <= y
  <2> HIDE DEF S
  <2>1. Min(S) \in S /\ \A y \in S : Min(S) <= y
    BY <1>3, MinIs
  <2> QED
    BY <1>3, <2>1
<1>5. Copied(w) = SubSeq(w, 1, n)
  BY <1>4 DEF Copied
<1>6. Copied(w) \in Seq(Line) /\ Len(Copied(w)) = n /\ \A i \in 1 .. n : Copied(w)[i] = w[i]
  <2>1. SubSeq(w, 1, n) = [i \in 1 .. n |-> w[i]]
    <3>0. PICK f \in Nat : f = 1
      OBVIOUS
    <3>1. SubSeq(w, f, n) = [i \in 1 .. n - f + 1 |-> w[f + i - 1]]
      OBVIOUS
    <3>2. n - f + 1 = n /\ \A i \in 1 .. n : f + i - 1 = i
      BY <3>0
    <3> QED
      BY <3>0, <3>1, <3>2
  <2>2. \A i \in 1 .. n : w[i] \in Line
    <3> TAKE i \in 1 .. n
    <3>1. i \in 1 .. l
      BY <1>4
    <3> QED
      BY <1>1, <3>1
  <2>3. [i \in 1 .. n |-> w[i]] \in [1 .. n -> Line]
    BY <2>2
  <2> QED
    BY <1>5, <2>1, <2>3
<1>7. ASSUME NEW i \in 1 .. n PROVE Len(w[i]) <= (PGSIZE \div 3) \div MAX_ARGC
  <2>1. i \in 1 .. l /\ ~(n <= i - 1)
    BY <1>4
  <2>2. i - 1 \notin S
    BY <1>4, <2>1
  <2>3. ~TooLong(w[i])
    BY <1>1, <2>1, <2>2
  <2>4. w[i] \in Line
    BY <1>1, <2>1
  <2>5. Len(w[i]) \in Nat
    BY <2>4 DEF Line
  <2> QED
    BY <1>2, <2>3, <2>5 DEF TooLong
<1> QED
  BY <1>1, <1>2, <1>4, <1>6, <1>7

(* Rounding down leaves room for a word. *)
LEMMA AlignDownIs ==
  ASSUME NEW x \in Nat, x >= PTR
  PROVE  AlignDown(x) \in Nat /\ AlignDown(x) + PTR <= x /\ x < AlignDown(x) + 2 * PTR
<1>1. PTR \in Nat \ {0} /\ x - PTR \in Nat
  BY UserStackAssumption
<1>2. PICK y \in Nat : y = x - PTR
  BY <1>1
<1>3. y \div PTR \in Nat /\ y = PTR * (y \div PTR) + (y % PTR) /\ y % PTR \in 0 .. PTR - 1
  BY <1>1
<1>4. PICK q \in Nat : q = y \div PTR
  BY <1>3
<1>5. PICK z \in Nat : z = q * PTR
  BY <1>1
<1>6. z <= y /\ y < z + PTR
  BY <1>1, <1>3, <1>4, <1>5
<1>7. AlignDown(x) = z
  BY <1>2, <1>4, <1>5 DEF AlignDown
<1> QED
  BY <1>1, <1>2, <1>6, <1>7

(* prepare_ustack lays out what it copies: the strings and the array fit. *)
LEMMA StackLayout ==
  ASSUME NEW w \in Seq(Line), Len(w) <= MAX_ARG - 1
  PROVE  LET args == Copied(w)
             n == Len(args)
             P == ArgvPs(USTACK, args)
         IN Layout(n, args, P, AlignDown(P[n]) - n * PTR) /\ n < PGSIZE
<1> DEFINE args == Copied(w)
           P == ArgvPs(USTACK, args)
           c == (PGSIZE \div 3) \div MAX_ARGC + 1
           M == MAX_ARG - 1
<1>1. PICK n \in Nat : n = Len(args) /\ n <= M
  <2>1. Len(args) \in Nat /\ Len(args) <= Len(w) /\ Len(w) \in Nat /\ M \in Nat
    BY CopiedIs, ShellAssumption
  <2>2. PICK l \in Nat : l = Len(w) /\ l <= M
    BY <2>1
  <2>3. PICK k \in Nat : k = Len(args) /\ k <= l
    BY <2>1, <2>2
  <2> HIDE DEF M, args
  <2>4. k <= M
    BY <2>1, <2>2, <2>3
  <2> QED
    BY <2>3, <2>4
<1>2. args \in Seq(Line) /\ \A i \in 1 .. n : Len(args[i]) \in Nat /\ Len(args[i]) + 1 <= c
  <2>1. /\ args \in Seq(Line) /\ c - 1 = (PGSIZE \div 3) \div MAX_ARGC /\ c - 1 \in Nat /\ c \in Nat
        /\ \A i \in 1 .. n : Len(args[i]) <= (PGSIZE \div 3) \div MAX_ARGC
    <3>1. PICK x \in Nat : x = (PGSIZE \div 3) \div MAX_ARGC
      BY CopiedIs
    <3>2. c - 1 = x /\ c \in Nat
      BY <3>1
    <3>3. args \in Seq(Line) /\ \A i \in 1 .. n : Len(args[i]) <= x
      BY <1>1, <3>1, CopiedIs
    <3> HIDE DEF c
    <3> QED
      BY <3>1, <3>2, <3>3
  <2> HIDE DEF args, c
  <2>2. \A i \in 1 .. n : Len(args[i]) \in Nat
    BY <1>1, <2>1 DEF Line
  <2>3. ASSUME NEW i \in 1 .. n PROVE Len(args[i]) + 1 <= c
    <3>1. PICK x \in Nat : x = Len(args[i])
      BY <2>2
    <3>2. x <= c - 1
      BY <2>1, <3>1
    <3> QED
      BY <2>1, <3>1, <3>2
  <2> QED
    BY <2>1, <2>2, <2>3
<1>3. /\ c \in Nat /\ PTR \in Nat /\ PTR >= 1 /\ M \in Nat /\ PGSIZE \in Nat
      /\ M * (c + PTR) + 4 * PTR <= USTACK /\ USTACK = PGSIZE - 2 * PTR
  <2>1. c \in Nat
    <3>1. PICK x \in Nat : x = (PGSIZE \div 3) \div MAX_ARGC
      BY CopiedIs
    <3> QED
      BY <3>1
  <2>2. c + PTR = (PGSIZE \div 3) \div MAX_ARGC + 1 + PTR
    OBVIOUS
  <2>3. M * (c + PTR) + 4 * PTR <= USTACK
    BY ShellAssumption DEF ArgsFit
  <2> QED
    BY <2>1, <2>3, ShellAssumption, UserStackAssumption, SMTT(30)
<1> HIDE DEF c, M
<1>4. /\ n * c \in Nat /\ n * PTR \in Nat /\ n * c + n * PTR + 4 * PTR <= USTACK
      /\ n <= n * c + n * PTR /\ USTACK \in Nat /\ USTACK < PGSIZE
  <2>1. PICK d \in Nat : M = n + d
    <3>1. M - n \in Nat /\ M = n + (M - n)
      BY <1>1, <1>3
    <3> QED
      BY <3>1
  <2>2. /\ M * (c + PTR) = n * c + n * PTR + d * (c + PTR)
        /\ d * (c + PTR) \in Nat /\ n * c \in Nat /\ n * PTR \in Nat
    BY <1>3, <2>1
  <2>3. PICK z \in Nat : z = d * (c + PTR)
    BY <2>2
  <2>4. n * c + n * PTR + z + 4 * PTR <= USTACK
    BY <1>3, <2>2, <2>3
  <2>5. PICK y \in Nat : y = n * c
    BY <2>2
  <2>6. PICK x \in Nat : x = n * PTR
    BY <2>2
  <2>7. n <= x
    <3>1. PTR - 1 \in Nat /\ n * PTR = n + n * (PTR - 1) /\ n * (PTR - 1) \in Nat
      BY <1>3
    <3> QED
      BY <2>6, <3>1
  <2>8. USTACK \in Nat /\ USTACK < PGSIZE
    <3>1. USTACK \in Int /\ y + x + z + 4 * PTR <= USTACK
      BY <1>3, <2>4, <2>5, <2>6
    <3> QED
      BY <1>3, <3>1
  <2>9. y + x + 4 * PTR <= USTACK /\ n <= y + x
    BY <1>3, <2>4, <2>5, <2>6, <2>7, <2>8
  <2> QED
    BY <2>2, <2>5, <2>6, <2>8, <2>9
<1> HIDE DEF args
<1>5. /\ P \in [0 .. n -> Int] /\ P[0] = USTACK
      /\ \A i \in 1 .. n : Adjoins(P, args, i)
  <2>1. USTACK \in Int /\ Len(args) = n
    BY <1>1, <1>4
  <2>2. PICK u \in Int : u = USTACK
    BY <2>1
  <2>3. \A i \in 1 .. n : Len(args[i]) \in Nat
    BY <1>2
  <2>4. /\ ArgvPs(u, args) \in [0 .. n -> Int] /\ ArgvPs(u, args)[0] = u
        /\ \A i \in 1 .. n : Adjoins(ArgvPs(u, args), args, i)
    BY <2>1, <2>3, ArgvPsIs, ZenonT(60)
  <2>5. P = ArgvPs(u, args)
    BY <2>2
  <2> HIDE DEF P
  <2> QED
    BY <2>2, <2>4, <2>5
<1> HIDE DEF P
<1>6. ASSUME NEW i \in 1 .. n PROVE P[i] <= P[i - 1] /\ P[i] >= P[i - 1] - c
  <2>1. i \in 0 .. n /\ i - 1 \in 0 .. n
    OBVIOUS
  <2>2. P[i] \in Int /\ P[i - 1] \in Int
    BY <1>5, <2>1
  <2>3. PICK x \in Nat : x = Len(args[i])
    BY <1>2
  <2>4. x + 1 <= c /\ P[i] = P[i - 1] - (x + 1)
    BY <1>2, <1>5, <2>3 DEF Adjoins
  <2> QED
    BY <1>3, <2>2, <2>4
<1>7. P[n] >= P[0] - n * c /\ \A i, j \in 0 .. n : i <= j => P[j] <= P[i]
  BY <1>3, <1>5, <1>6, Descending
<1>8. n \in 0 .. n /\ P[n] \in Int
  BY <1>5
<1>9. P[n] \in Nat /\ P[n] >= n * PTR + 4 * PTR /\ P[n] >= PTR
  <2>1. PICK y \in Nat : y = n * c
    BY <1>4
  <2>2. PICK x \in Nat : x = n * PTR
    BY <1>4
  <2>3. P[n] >= USTACK - y /\ y + x + 4 * PTR <= USTACK
    BY <1>4, <1>5, <1>7, <2>1, <2>2
  <2>4. P[n] >= x + 4 * PTR
    BY <1>3, <1>4, <1>8, <2>3
  <2>5. P[n] \in Nat /\ P[n] >= PTR
    BY <1>3, <1>8, <2>4
  <2> QED
    BY <2>2, <2>4, <2>5
<1>10. P \in [0 .. n -> Nat]
  <2>1. ASSUME NEW i \in 0 .. n PROVE P[i] \in Nat
    <3>1. P[n] <= P[i] /\ P[i] \in Int
      BY <1>5, <1>7, <1>8
    <3> QED
      BY <1>9, <3>1
  <2> QED
    BY <1>5, <2>1
<1> DEFINE base == AlignDown(P[n]) - n * PTR
<1>11. base \in Nat /\ base >= PTR /\ base + n * PTR + PTR <= P[n]
  <2>1. PICK a \in Nat : a = AlignDown(P[n]) /\ a + PTR <= P[n] /\ P[n] < a + 2 * PTR
    BY <1>9, AlignDownIs
  <2>2. PICK x \in Nat : x = n * PTR
    BY <1>4
  <2>3. a - x \in Nat /\ a - x >= PTR /\ (a - x) + x + PTR <= P[n]
    <3>1. P[n] >= x + 4 * PTR
      BY <1>9, <2>2
    <3>2. PICK q \in Int : q = P[n]
      BY <1>9
    <3>3. PTR \in Nat
      BY <1>3
    <3>4. a + PTR <= q /\ q < a + 2 * PTR /\ q >= x + 4 * PTR
      BY <2>1, <3>1, <3>2
    <3>5. a - x \in Nat /\ a - x >= PTR /\ (a - x) + x + PTR <= q
      BY <3>3, <3>4
    <3> QED
      BY <3>2, <3>5
  <2> QED
    BY <2>1, <2>2, <2>3
<1> HIDE DEF base
<1>12. Layout(n, args, P, base)
  BY <1>1, <1>2, <1>4, <1>5, <1>10, <1>11 DEF Layout
<1>13. n < PGSIZE
  <2>1. PICK x \in Nat : x = n * c + n * PTR
    BY <1>4
  <2>2. n <= x /\ x + 4 * PTR <= USTACK
    BY <1>4, <2>1
  <2> QED
    BY <1>3, <1>4, <2>2
<1> QED
  BY <1>1, <1>12, <1>13 DEF base, P, args

(* prepare_ustack hands over the words that are not too long. *)
LEMMA ArgvArrives ==
  ASSUME NEW w \in Seq(Line), Len(w) <= MAX_ARG - 1
  PROVE  LET stack == prepare_ustack(USTACK, w) IN Argv(stack.page, stack.esp) = Copied(w)
<1> DEFINE args == Copied(w)
           n == Len(args)
           P == ArgvPs(USTACK, args)
           base == AlignDown(P[n]) - n * PTR
           page == Page(Copies(args, P, base))
<1>1. Layout(n, args, P, base) /\ n < PGSIZE
  BY StackLayout
<1>2. prepare_ustack(USTACK, w) = [page |-> page, esp |-> base - 2 * PTR]
  BY DEF prepare_ustack
<1> HIDE DEF args, n, P, base
<1>3. Argv(page, base - 2 * PTR) = args
  BY <1>1, LaidOut
<1> HIDE DEF page
<1>4. /\ prepare_ustack(USTACK, w).page = page
      /\ prepare_ustack(USTACK, w).esp = base - 2 * PTR
  BY <1>2
<1> QED
  BY <1>3, <1>4 DEF args

(* Without arguments argc is 0. *)
LEMMA NullArgvArrives ==
  LET stack == prepare_ustack_null(USTACK) IN Argv(stack.page, stack.esp) = <<>>
<1> DEFINE W == << memcpy_to_another_space(USTACK, WordBytes(0)) >>
           page == Page(W)
<1>0. PTR \in Nat /\ PTR >= 1 /\ PGSIZE \in Nat /\ PGSIZE >= 1 /\ USTACK = PGSIZE - 2 * PTR
  BY ShellAssumption, UserStackAssumption
<1>1. USTACK \in Nat
  <2> DEFINE c == (PGSIZE \div 3) \div MAX_ARGC + 1 + PTR
             M == MAX_ARG - 1
  <2>1. c \in Nat /\ M \in Nat
    <3>1. <<>> \in Seq(Line)
      OBVIOUS
    <3>2. (PGSIZE \div 3) \div MAX_ARGC \in Nat
      BY <3>1, CopiedIs
    <3> QED
      BY <1>0, <3>2, ShellAssumption
  <2>2. M * c + 4 * PTR <= USTACK
    BY ShellAssumption DEF ArgsFit
  <2> HIDE DEF c, M
  <2>3. PICK x \in Nat : x = M * c
    BY <2>1
  <2>4. x + 4 * PTR <= USTACK
    BY <2>2, <2>3
  <2> QED
    BY <1>0, <2>4
<1>2. /\ WordBytes(0) = [j \in 1 .. PTR |-> <<0, j>>] /\ Len(WordBytes(0)) = PTR
  BY <1>0 DEF WordBytes
<1>3. W[1] = WordCells(0, USTACK) /\ DOMAIN W = 1 .. 1
  <2>1. \A a \in USTACK .. USTACK + PTR - 1 : a - USTACK + 1 \in 1 .. PTR
    BY <1>0, <1>1
  <2>2. \A a \in USTACK .. USTACK + PTR - 1 : WordBytes(0)[a - USTACK + 1] = <<0, a - USTACK + 1>>
    BY <1>2, <2>1
  <2>3. memcpy_to_another_space(USTACK, WordBytes(0)) = WordCells(0, USTACK)
    BY <1>2, <2>2 DEF memcpy_to_another_space, WordCells
  <2> QED
    BY <2>3
<1> HIDE DEF W
<1>4. ASSUME NEW k \in 1 .. PTR PROVE page[USTACK + k - 1] = <<0, k>>
  <2> DEFINE a == USTACK + k - 1
  <2>1. a \in 0 .. PGSIZE - 1 /\ a \in USTACK .. USTACK + PTR - 1 /\ a - USTACK + 1 = k
    BY <1>0, <1>1
  <2> HIDE DEF a
  <2>2. a \in DOMAIN W[1] /\ W[1][a] = <<0, k>>
    BY <1>3, <2>1 DEF WordCells
  <2>3. PICK u \in Nat : u = 1
    OBVIOUS
  <2>4. u \in 1 .. u /\ DOMAIN W = 1 .. u /\ a \in DOMAIN W[u] /\ \A j \in u + 1 .. u : FALSE
    BY <1>3, <2>2, <2>3
  <2>5. Page(W)[a] = W[u][a]
    BY <2>1, <2>4, PageCell
  <2> QED
    BY <2>2, <2>3, <2>5 DEF a
<1> HIDE DEF page
<1>5. WordAt(page, USTACK) = 0
  <2>1. 0 \in 0 .. PGSIZE - 1 /\ USTACK + PTR <= PGSIZE
    BY <1>0, <1>1
  <2> QED
    BY <1>1, <1>4, <2>1, WordAtIs
<1> DEFINE esp == USTACK - PTR
<1>6. esp + PTR = USTACK
  BY <1>0, <1>1
<1>7. prepare_ustack_null(USTACK) = [page |-> page, esp |-> esp]
  BY DEF prepare_ustack_null, W, page
<1> HIDE DEF esp
<1>8. Argc(page, esp) = 0
  BY <1>5, <1>6 DEF Argc
<1>9. Argv(page, esp) = [i \in 1 .. 0 |->
         StringAt(page, WordAt(page, WordAt(page, esp + 2 * PTR) + (i - 1) * PTR))]
  BY <1>8 DEF Argv
<1>10. Argv(page, esp) = <<>>
  BY <1>9
<1>11. prepare_ustack_null(USTACK).page = page /\ prepare_ustack_null(USTACK).esp = esp
  BY <1>7
<1> QED
  BY <1>10, <1>11

-----------------------------------------------------------------------------
(* What a step does to programs.                                           *)

(* The current task goes on with registers r and memory m, the others with *)
(* what they had, and nobody starts or ends.                               *)
Became(r, m) ==
  /\ mem' = [t \in Tasks |-> mem'[t]]
  /\ \A t \in Tasks :
       /\ Live(t)' <=> Live(t)
       /\ Live(t) /\ t # curr_task => user'[t] = user[t] /\ mem'[t] = mem[t] /\ wpid'[t] = wpid[t]
       /\ Live(t) /\ t = curr_task => user'[t] = r /\ mem'[t] = m

(* The current task has ended. *)
Left ==
  /\ mem' = mem
  /\ \A t \in Tasks :
       /\ Live(t)' <=> Live(t) /\ t # curr_task
       /\ Live(t)' => user'[t] = user[t] /\ wpid'[t] = wpid[t]

(* The current task has forked tp. *)
Spawned(tp, next) ==
  /\ tp \in Tasks \ {scheduler_task, init_task, curr_task} /\ ~Live(tp)
  /\ mem' = [t \in Tasks |-> mem'[t]]
  /\ \A t \in Tasks :
       /\ Live(t)' <=> Live(t) \/ t = tp
       /\ wpid'[t] = wpid[t]
       /\ Live(t) /\ t # curr_task => user'[t] = user[t] /\ mem'[t] = mem[t]
       /\ t = curr_task => user'[t] = Returned(next, tp) /\ mem'[t] = me
       /\ t = tp => user'[t] = Returned(next, 0) /\ mem'[t] = me

(* The way back from a system call. *)
LEMMA ReturnBecomes ==
  ASSUME CtxInv, InUser, UNCHANGED wpid, mem = [t \in Tasks |-> mem[t]],
         NEW fr, NEW r, trampoline_returns(fr, r),
         NEW par, NEW nf, kill_off_zombies(state, par, nf),
         NEW m, store(m)
  PROVE  Became(r, m)
<1>0. TypeOK /\ user = [t \in Tasks |-> user[t]] /\ curr_task \in Tasks
  BY DEF CtxInv, Core, Tables, TypeOK
<1>1. /\ user' = Surviving([user EXCEPT ![curr_task] = r], NoRegs)
      /\ mem' = Surviving([mem EXCEPT ![curr_task] = m], Blank)
  BY DEF trampoline_returns, store
<1>2. \A t \in Tasks : \/ state'[t] = state[t]
                       \/ state[t] = "ZOMBIE" /\ state'[t] = "UNUSED"
  BY DEF kill_off_zombies, destroy_task, Reaped
<1>3. \A t \in Tasks : Live(t)' <=> Live(t)
  BY <1>2 DEF Live
<1>4. \A t \in Tasks : Live(t) => state'[t] # "UNUSED"
  BY <1>2 DEF Live
<1>5. mem' = [t \in Tasks |-> mem'[t]]
  BY <1>1 DEF Surviving
<1>6. \A t \in Tasks : state'[t] # "UNUSED" =>
        /\ user'[t] = IF t = curr_task THEN r ELSE user[t]
        /\ mem'[t] = IF t = curr_task THEN m ELSE mem[t]
  BY <1>0, <1>1 DEF Surviving
<1> QED
  BY <1>3, <1>4, <1>5, <1>6 DEF Became

(* open, close and the calls that move no descriptor. *)
LEMMA CallBecomes ==
  ASSUME CtxInv, mem = [t \in Tasks |-> mem[t]], NEW next, NEW ret, NEW m, store(m),
         ctx_open(next, ret) \/ ctx_other(next, ret) \/ (ctx_close(next) /\ ret = 0)
  PROVE  Became(Returned(next, ret), m)
<1>1. InUser /\ UNCHANGED wpid /\ \E par, nf : kill_off_zombies(state, par, nf)
  BY DEF ctx_open, ctx_other, ctx_close, sys_open, sys_other, sys_close
<1>2. trampoline_returns([int_common(next) EXCEPT ![esp0].eax = ret], Returned(next, ret))
  BY DEF ctx_open, ctx_other, ctx_close, syscall_returns
<1> QED
  BY <1>1, <1>2, ReturnBecomes

(* wait that returns at once. *)
LEMMA WaitBecomes ==
  ASSUME CtxInv, mem = [t \in Tasks |-> mem[t]], NEW next, NEW m, store(m), ctx_wait(next)
  PROVE  \E ret : Became(Returned(next, ret), m)
<1>1. InUser /\ UNCHANGED wpid /\ kill_off_zombies(state, parent, nopen)
  BY DEF ctx_wait, sys_wait
<1>2. PICK ret : syscall_returns(next, ret)
  BY DEF ctx_wait
<1>3. trampoline_returns([int_common(next) EXCEPT ![esp0].eax = ret], Returned(next, ret))
  BY <1>2 DEF syscall_returns
<1>4. Became(Returned(next, ret), m)
  BY <1>1, <1>3, ReturnBecomes
<1> QED
  BY <1>4

(* execv. *)
LEMMA ExecvBecomes ==
  ASSUME CtxInv, mem = [t \in Tasks |-> mem[t]], NEW p, NEW esp, NEW m, store(m),
         ctx_execv(p, esp)
  PROVE  Became([eip |-> <<p, "main">>, eax |-> 0, esp |-> esp], m)
<1>1. InUser /\ UNCHANGED wpid /\ \E nf : kill_off_zombies(state, parent, nf)
  BY DEF ctx_execv, sys_execv
<1> DEFINE r == [eip |-> <<p, "main">>, eax |-> 0, esp |-> esp]
<1>2. trampoline_returns([frame EXCEPT ![esp0] = r], r)
  BY DEF ctx_execv, e_entry
<1> HIDE DEF r
<1>3. Became(r, m)
  BY <1>1, <1>2, ReturnBecomes
<1> QED
  BY <1>3 DEF r

(* Computation. *)
LEMMA ComputeBecomes ==
  ASSUME CtxInv, mem = [t \in Tasks |-> mem[t]], NEW l, NEW m, goto(l, m)
  PROVE  Became([eip |-> <<"sh", l>>, eax |-> cpu.eax, esp |-> cpu.esp], m)
<1> DEFINE r == [eip |-> <<"sh", l>>, eax |-> cpu.eax, esp |-> cpu.esp]
<1>0. /\ user = [t \in Tasks |-> user[t]] /\ curr_task \in Tasks
      /\ cpu = [eip |-> cpu.eip, eax |-> cpu.eax, esp |-> cpu.esp]
  BY DEF CtxInv, Core, Tables, TypeOK, IsRegs
<1>1. /\ cpu' = [cpu EXCEPT !.eip = <<"sh", l>>] /\ user' = [user EXCEPT ![curr_task] = cpu']
      /\ mem' = [mem EXCEPT ![curr_task] = m] /\ UNCHANGED <<state, wpid>>
  BY DEF goto, compute, vars
<1>2. cpu' = r
  BY <1>0, <1>1
<1> HIDE DEF r
<1>3. \A t \in Tasks : /\ user'[t] = IF t = curr_task THEN r ELSE user[t]
                       /\ mem'[t] = IF t = curr_task THEN m ELSE mem[t]
  BY <1>0, <1>1, <1>2
<1>4. mem' = [t \in Tasks |-> mem'[t]]
  BY <1>1
<1>5. Became(r, m)
  BY <1>1, <1>3, <1>4 DEF Became, Live
<1> QED
  BY <1>5 DEF r

(* The timer and the scheduler, a line that is typed, and stuttering. *)
LEMMA IdleBecomes ==
  ASSUME ShellInv, mem = [t \in Tasks |-> mem[t]], UNCHANGED mem,
         ctx_schedule \/ ctx_timer \/ UNCHANGED <<vars, ctx_vars>>
  PROVE  Became(user[curr_task], me) /\ wpid' = wpid
<1>0. Core /\ TypeOK /\ OneRunning
  BY DEF ShellInv, Inv, CtxInv
<1>1. UNCHANGED <<wpid, user>> /\ (schedule \/ timer_irq \/ UNCHANGED state)
  BY DEF ctx_schedule, ctx_timer, schedule, timer_irq, vars, ctx_vars
<1>2. \A t \in Tasks : Live(t)' <=> Live(t)
  <2>1. CASE UNCHANGED state
    BY <2>1 DEF Live
  <2>2. CASE schedule
    BY <1>0, <2>2 DEF schedule, switch_to, TypeOK, Live
  <2>3. CASE timer_irq
    BY <1>0, <2>3 DEF timer_irq, Core, switch_to, TypeOK, Live
  <2> QED
    BY <1>1, <2>1, <2>2, <2>3
<1> QED
  BY <1>1, <1>2 DEF Became, me

(* wait that sleeps. *)
LEMMA SleepBecomes ==
  ASSUME ShellInv, mem = [t \in Tasks |-> mem[t]], UNCHANGED mem, NEW next, ctx_sleep(next)
  PROVE  Became(Returned(next, wpid'[curr_task]), me)
<1>0. /\ Core /\ TypeOK /\ OneRunning /\ user = [t \in Tasks |-> user[t]]
      /\ wpid = [t \in Tasks |-> wpid[t]]
  BY DEF ShellInv, Inv, CtxInv, Tables, TypeOK
<1>1. /\ InUser /\ state' = switch_to([state EXCEPT ![curr_task] = "SLEEPING"], scheduler_task)
      /\ user' = [user EXCEPT ![curr_task] = Returned(next, wpid'[curr_task])]
      /\ \E c : wpid' = [wpid EXCEPT ![curr_task] = c]
  BY DEF ctx_sleep, sleep
<1>2. curr_task \in Tasks /\ curr_task # scheduler_task /\ state[curr_task] = "RUNNING"
  BY <1>0, <1>1 DEF InUser, TypeOK, OneRunning
<1>3. \A t \in Tasks : Live(t)' <=> Live(t)
  BY <1>0, <1>1, <1>2 DEF switch_to, TypeOK, Core, Live
<1> DEFINE r == Returned(next, wpid'[curr_task])
<1> HIDE DEF r
<1>4. \A t \in Tasks : /\ user'[t] = IF t = curr_task THEN r ELSE user[t]
                       /\ t # curr_task => wpid'[t] = wpid[t]
  BY <1>0, <1>1, <1>2 DEF r
<1>5. Became(r, me)
  BY <1>3, <1>4 DEF Became, me
<1> QED
  BY <1>5 DEF r

(* wait that slept returns. *)
LEMMA WaitReturnBecomes ==
  ASSUME ShellInv, mem = [t \in Tasks |-> mem[t]], ctx_wait_return, mem' = Surviving(mem, Blank)
  PROVE  Became(user[curr_task], me) /\ wpid'[curr_task] = NULL
<1>0. TypeOK /\ wpid = [t \in Tasks |-> wpid[t]] /\ curr_task \in Tasks
  BY DEF ShellInv, Inv, TypeOK
<1>1. /\ wpid' = [wpid EXCEPT ![curr_task] = NULL]
      /\ kill_off_zombies(state, parent, nopen)
      /\ user' = Surviving(user, NoRegs)
  BY DEF ctx_wait_return, sys_wait_return
<1>2. \A t \in Tasks : \/ state'[t] = state[t]
                       \/ state[t] = "ZOMBIE" /\ state'[t] = "UNUSED"
  BY <1>1 DEF kill_off_zombies, destroy_task, Reaped
<1>3. \A t \in Tasks : state'[t] # "UNUSED" => user'[t] = user[t] /\ mem'[t] = mem[t]
  BY <1>1 DEF Surviving
<1>4. mem' = [t \in Tasks |-> mem'[t]]
  BY DEF Surviving
<1>5. \A t \in Tasks : Live(t)' <=> Live(t)
  BY <1>2 DEF Live
<1>6. \A t \in Tasks : Live(t) => state'[t] # "UNUSED"
  BY <1>2 DEF Live
<1>7. wpid'[curr_task] = NULL /\ \A t \in Tasks : t # curr_task => wpid'[t] = wpid[t]
  BY <1>0, <1>1
<1> QED
  BY <1>3, <1>4, <1>5, <1>6, <1>7 DEF Became, me

(* exit. *)
LEMMA ExitLeaves ==
  ASSUME ShellInv, ctx_exit, UNCHANGED mem
  PROVE  Left
<1>0. Core /\ TypeOK /\ OneRunning /\ Tables
  BY DEF ShellInv, Inv, CtxInv
<1>1. /\ InUser /\ UNCHANGED wpid
      /\ user' = [user EXCEPT ![curr_task] = NoRegs]
      /\ \/ state' = [state EXCEPT ![curr_task] = "ZOMBIE"]
         \/ state' = switch_to(wakeup_parent([state EXCEPT ![curr_task] = "ZOMBIE"]),
                               scheduler_task)
  BY DEF ctx_exit, sys_exit
<1>2. /\ curr_task \in Tasks /\ curr_task # scheduler_task /\ state[curr_task] = "RUNNING"
      /\ user = [t \in Tasks |-> user[t]]
  BY <1>0, <1>1 DEF InUser, TypeOK, OneRunning, Tables
<1>4. /\ state'[curr_task] = "ZOMBIE"
      /\ \A t \in Tasks : t # curr_task => (Live(t)' <=> Live(t))
  <2> DEFINE st == [state EXCEPT ![curr_task] = "ZOMBIE"]
  <2>1. CASE state' = st
    BY <1>0, <1>2, <2>1 DEF Live, TypeOK
  <2>2. CASE state' = switch_to(wakeup_parent(st), scheduler_task)
    <3> DEFINE w == wakeup_parent(st)
    <3>1. /\ w \in [Tasks -> procstate] /\ w[curr_task] = "ZOMBIE"
          /\ w[scheduler_task] \in {"RUNNING", "RUNNABLE"}
          /\ \A t \in Tasks : t # curr_task =>
               (state[t] \in {"SLEEPING", "RUNNABLE", "RUNNING"}
                  <=> w[t] \in {"SLEEPING", "RUNNABLE", "RUNNING"})
      BY <1>0, <1>2 DEF wakeup_parent, TypeOK, Core
    <3>2. state' = switch_to(w, scheduler_task) /\ Live(scheduler_task)
      BY <1>0, <2>2 DEF Core, Live
    <3> HIDE DEF w
    <3>3. \A t \in Tasks : state'[t] = IF t = scheduler_task THEN "RUNNING"
                                       ELSE IF t = curr_task THEN "ZOMBIE" ELSE w[t]
      BY <1>2, <3>1, <3>2 DEF switch_to
    <3> QED
      BY <1>2, <3>1, <3>2, <3>3 DEF Live
  <2> QED
    BY <1>1, <2>1, <2>2
<1>5. \A t \in Tasks : t # curr_task => user'[t] = user[t]
  BY <1>1, <1>2
<1>7. \A t \in Tasks : Live(t)' <=> Live(t) /\ t # curr_task
  BY <1>4 DEF Live
<1> QED
  BY <1>1, <1>5, <1>7 DEF Left

(* fork. *)
LEMMA ForkSpawns ==
  ASSUME ShellInv, mem = [t \in Tasks |-> mem[t]], NEW next, ctx_fork(next), Childless,
         mem' = Surviving([t \in Tasks |-> IF alloc_task(t) THEN me ELSE mem[t]], Blank)
  PROVE  \E tp \in Tasks : Spawned(tp, next)
<1>0. /\ Inv /\ TypeOK /\ OneRunning /\ AwaitsChild /\ OneChild
      /\ ParentIsTask /\ CtxInv /\ ResumesIntact /\ Tables
  BY DEF ShellInv, Inv, CtxInv, Tree
<1>1. InUser /\ sys_fork /\ wpid' = wpid
  BY DEF ctx_fork, sys_fork
<1>2. /\ curr_task \in Tasks /\ curr_task # scheduler_task /\ state[curr_task] = "RUNNING"
      /\ user = [t \in Tasks |-> user[t]] /\ machine = "up"
  BY <1>0, <1>1 DEF InUser, TypeOK, OneRunning, Tables
<1>3. \A c \in Tasks : parent[c] # curr_task
  BY <1>0, <1>1, ChildlessIs
<1>4. \A z \in Tasks : state[z] # "ZOMBIE"
  BY <1>0, <1>2, <1>3, NoZombie
<1>5. PICK tp \in Tasks :
        /\ alloc_task(tp)
        /\ user' = Surviving([user EXCEPT ![tp] = Returned(next, 0),
                                          ![curr_task] = Returned(next, tp)], NoRegs)
  BY DEF ctx_fork
<1>6. \A t \in Tasks : alloc_task(t) => t = tp
  BY <1>5 DEF alloc_task
<1>7. state[tp] = "UNUSED" /\ tp # curr_task /\ tp # scheduler_task /\ tp # init_task
  BY <1>0, <1>2, <1>5 DEF alloc_task, Inv, FixedSlots, Live
<1>8. PICK par, nf : kill_off_zombies([state EXCEPT ![tp] = "RUNNABLE"], par, nf)
  BY <1>1, <1>6 DEF sys_fork
<1>9. \A t \in Tasks : state'[t] = IF t = tp THEN "RUNNABLE" ELSE state[t]
  BY <1>0, <1>4, <1>8 DEF kill_off_zombies, destroy_task, Reaped, TypeOK
<1>10. \A t \in Tasks : state'[t] # "UNUSED" =>
        user'[t] = IF t = curr_task THEN Returned(next, tp)
                   ELSE IF t = tp THEN Returned(next, 0) ELSE user[t]
  BY <1>2, <1>5, <1>7 DEF Surviving
<1>11. \A t \in Tasks : state'[t] # "UNUSED" => mem'[t] = IF t = tp THEN me ELSE mem[t]
  BY <1>5, <1>6 DEF Surviving
<1>12. mem' = [t \in Tasks |-> mem'[t]]
  BY DEF Surviving
<1>13. ~Live(tp) /\ \A t \in Tasks : Live(t)' <=> Live(t) \/ t = tp
  BY <1>7, <1>9 DEF Live
<1>14. \A t \in Tasks : Live(t) \/ t = curr_task \/ t = tp => state'[t] # "UNUSED"
  BY <1>2, <1>9 DEF Live
<1>15. Spawned(tp, next)
  BY <1>1, <1>7, <1>10, <1>11, <1>12, <1>13, <1>14 DEF Spawned, me
<1> QED
  BY <1>15

-----------------------------------------------------------------------------
(* The memory of programs.                                                 *)

(* A program's memory. *)
IsMem(m) ==
  m = [args |-> m.args, buf |-> m.buf, argv |-> m.argv, i |-> m.i, len |-> m.len, rp |-> m.rp,
       line |-> m.line]

(* read_line has stored i characters. *)
Reading(m) ==
  /\ m.argv = <<>> /\ m.i \in 0 .. BUFSIZE - 2
  /\ \A k \in 0 .. m.i - 1 : m.buf[k] \in Letters \cup {SPACE}

(* argv leads to the words of the line. *)
Tokenized(m) ==
  /\ Kept(m.line) \in Line /\ m.argv \in Seq(Nat) /\ m.argv # <<>>
  /\ Strings(m.buf, m.argv) = Words(Kept(m.line)) /\ Len(Words(Kept(m.line))) \in 1 .. MAX_ARG - 1

(* What a program has in memory at a place in its code. *)
Sound(m, eip) ==
  /\ IsMem(m)
  /\ eip[1] = "sh" => m.buf \in Buffer /\ (eip[2] # "read" => m.i = 0)
  /\ eip = <<"sh", "prompt">> => m.argv # <<>> \/ Len(Words(Kept(m.line))) \notin 1 .. MAX_ARG - 1
  /\ eip = <<"sh", "read">> => Reading(m)
  /\ eip = <<"sh", "token">> =>
       Scanned(Kept(m.line), m.buf, m.argv, m.rp) /\ m.len = Len(Kept(m.line)) /\ Len(m.argv) < MAX_ARG
  /\ eip \in {<<"sh", "fork">>, <<"sh", "forked">>} => Tokenized(m)

(* main's arguments are the words of the line that started the program. *)
Started(m, eip) ==
  eip[2] = "main" =>
    \/ Elf[Words(Kept(m.line))[1]] = eip[1] /\ m.args = Copied(Words(Kept(m.line)))
    \/ Elf[Words(Kept(m.line))[1]] = "init" /\ eip[1] = "sh" /\ m.args = <<>>

(* What can be typed. *)
Char == Letters \cup {SPACE, NL}

(* What task t has. *)
InOrder(t) ==
  /\ Sound(mem[t], user[t].eip)
  /\ t # init_task => Started(mem[t], user[t].eip)

(* The memory of every program is as its place in the code wants it. *)
MemoryInv ==
  /\ mem = [t \in Tasks |-> mem[t]] /\ input \in Seq(Char)
  /\ \A t \in Tasks : Live(t) => InOrder(t)

(* How many lines were typed. *)
TypedInv ==
  /\ typed = [lines |-> typed.lines, shells |-> typed.shells, failing |-> typed.failing]
  /\ typed.lines \in Nat /\ typed.shells \in 0 .. NEST

(* A shell asleep in wait is to go on at its prompt. *)
SleepsInWait == \A t \in Tasks : Live(t) /\ wpid[t] # NULL => user[t].eip = <<"sh", "prompt">>

(* Places of sh with their memory. *)
LEMMA SoundAt ==
  ASSUME NEW m, IsMem(m), m.buf \in Buffer, NEW l, l # "main", l # "read" => m.i = 0,
         l = "prompt" => m.argv # <<>> \/ Len(Words(Kept(m.line))) \notin 1 .. MAX_ARG - 1,
         l = "read" => Reading(m),
         l = "token" => Scanned(Kept(m.line), m.buf, m.argv, m.rp) /\ m.len = Len(Kept(m.line))
                        /\ Len(m.argv) < MAX_ARG,
         l \in {"fork", "forked"} => Tokenized(m)
  PROVE  Sound(m, <<"sh", l>>) /\ Started(m, <<"sh", l>>)
BY DEF Sound, Started

(* A step of one program leaves the memory of the others in order. *)
LEMMA BecameInOrder ==
  ASSUME MemoryInv, NEW r, NEW m, Became(r, m), input' \in Seq(Char),
         Live(curr_task) => Sound(m, r.eip),
         curr_task # init_task /\ Live(curr_task) => Started(m, r.eip)
  PROVE  MemoryInv'
<1>1. mem' = [t \in Tasks |-> mem'[t]]
  BY DEF Became
<1>2. ASSUME NEW t \in Tasks, Live(t)' PROVE InOrder(t)'
  <2>1. Live(t)
    BY <1>2 DEF Became
  <2>2. CASE t = curr_task
    <3>1. user'[t] = r /\ mem'[t] = m
      BY <2>1, <2>2 DEF Became
    <3>2. Sound(m, r.eip) /\ (t # init_task => Started(m, r.eip))
      BY <2>1, <2>2
    <3> QED
      BY <3>1, <3>2 DEF InOrder, Sound, Started
  <2>3. CASE t # curr_task
    <3>1. user'[t] = user[t] /\ mem'[t] = mem[t]
      BY <2>1, <2>3 DEF Became
    <3>2. InOrder(t)
      BY <2>1 DEF MemoryInv
    <3> QED
      BY <3>1, <3>2 DEF InOrder, Sound, Started
  <2> QED
    BY <2>2, <2>3
<1> QED
  BY <1>1, <1>2 DEF MemoryInv

(* The program that executes is in order. *)
LEMMA CurrentInOrder ==
  ASSUME ShellInv, MemoryInv, InUser
  PROVE  /\ curr_task \in Tasks \ {scheduler_task} /\ Live(curr_task) /\ cpu = user[curr_task]
         /\ machine = "up" /\ wpid[curr_task] = NULL
         /\ mem = [t \in Tasks |-> mem[t]] /\ input \in Seq(Char)
         /\ IsMem(me) /\ Sound(me, cpu.eip)
         /\ curr_task # init_task => Started(me, cpu.eip)
<1>1. /\ curr_task \in Tasks \ {scheduler_task} /\ state[curr_task] = "RUNNING"
      /\ cpu = user[curr_task] /\ machine = "up" /\ wpid[curr_task] = NULL
  BY DEF ShellInv, Inv, TypeOK, OneRunning, InUser, CtxInv, ResumesIntact
<1>2. Live(curr_task)
  BY <1>1 DEF Live
<1>3. InOrder(curr_task)
  BY <1>1, <1>2 DEF MemoryInv
<1>4. Sound(me, cpu.eip) /\ (curr_task # init_task => Started(me, cpu.eip))
  BY <1>1, <1>3 DEF InOrder, me
<1>5. IsMem(me)
  BY <1>4 DEF Sound
<1> QED
  BY <1>1, <1>2, <1>4, <1>5 DEF MemoryInv

(* A shell that goes on at l with m. *)
Goes(l, m) == \E eax, esp : Became([eip |-> <<"sh", l>>, eax |-> eax, esp |-> esp], m)

(* What steps of sh do to its memory. *)
LEMMA ShGoes ==
  ASSUME ShellInv, MemoryInv
  PROVE  /\ sh_main => Goes("prompt", [me EXCEPT !.line = <<>>])
         /\ sh_prompt => Goes("read", [me EXCEPT !.argv = <<>>, !.line = <<>>, !.len = 0, !.rp = 0])
         /\ sh_read_nothing => Goes("read", me)
         /\ sh_read => Goes("read", [me EXCEPT !.buf[me.i] = Head(input), !.i = @ + 1])
         /\ sh_read_last =>
              LET buf == Terminated([me.buf EXCEPT ![me.i] = Head(input)], me.i + 1) IN
              Goes("token", [me EXCEPT !.buf = buf, !.len = strlen(buf), !.rp = SkipSpaces(buf, 0),
                               !.i = 0,
                               !.line = IF Head(input) = NL THEN Partial(me)
                                        ELSE Append(Partial(me), Head(input))])
         /\ sh_token =>
              LET end == WordEnd(me.buf, me.rp)
                  buf == [me.buf EXCEPT ![end] = NUL]
              IN \/ Len(me.argv) + 1 = MAX_ARG
                    /\ Goes("prompt", [me EXCEPT !.buf = buf, !.argv = <<>>])
                 \/ Len(me.argv) + 1 < MAX_ARG
                    /\ Goes("token", [me EXCEPT !.buf = buf, !.argv = Append(@, me.rp),
                                                !.rp = SkipSpaces(buf, end + 1)])
         /\ sh_token_end => Goes(IF me.argv = <<>> THEN "prompt" ELSE "fork", me)
         /\ sh_execv_fails => Goes("failed", me)
         /\ sh_wait => Goes("prompt", me)
         /\ call("sh", "failed", "exit") => Goes("exit", me)
<1>0. CtxInv /\ mem = [t \in Tasks |-> mem[t]]
  BY DEF ShellInv, MemoryInv
<1>1. ASSUME NEW l, NEW ret, NEW m, store(m),
             ctx_open(<<"sh", l>>, ret) \/ ctx_other(<<"sh", l>>, ret)
      PROVE  Goes(l, m)
  <2>1. Became(Returned(<<"sh", l>>, ret), m)
    BY <1>0, <1>1, CallBecomes
  <2> QED
    BY <2>1 DEF Goes, Returned
<1>2. ASSUME NEW l, NEW m, goto(l, m) PROVE Goes(l, m)
  BY <1>0, <1>2, ComputeBecomes DEF Goes
<1>3. sh_main => Goes("prompt", [me EXCEPT !.line = <<>>])
  BY <1>1 DEF sh_main
<1>4. sh_prompt => Goes("read", [me EXCEPT !.argv = <<>>, !.line = <<>>, !.len = 0, !.rp = 0])
  BY <1>1 DEF sh_prompt
<1>5. /\ sh_read_nothing => Goes("read", me)
      /\ sh_execv_fails => Goes("failed", me)
      /\ call("sh", "failed", "exit") => Goes("exit", me)
  BY <1>1 DEF sh_read_nothing, call, keep, sh_execv_fails, ctx_execv_fails
<1>6. sh_read => Goes("read", [me EXCEPT !.buf[me.i] = Head(input), !.i = @ + 1])
  BY <1>1 DEF sh_read
<1> DEFINE buf == Terminated([me.buf EXCEPT ![me.i] = Head(input)], me.i + 1)
           m == [me EXCEPT !.buf = buf, !.len = strlen(buf), !.rp = SkipSpaces(buf, 0),
                           !.i = 0, !.line = IF Head(input) = NL THEN Partial(me)
                                             ELSE Append(Partial(me), Head(input))]
           end == WordEnd(me.buf, me.rp)
           b2 == [me.buf EXCEPT ![end] = NUL]
           m1 == [me EXCEPT !.buf = b2, !.argv = <<>>]
           m2 == [me EXCEPT !.buf = b2, !.argv = Append(@, me.rp), !.rp = SkipSpaces(b2, end + 1)]
<1>7. sh_read_last => Goes("token", m)
  <2>1. sh_read_last => store(m) /\ ctx_other(<<"sh", "token">>, 1)
    BY DEF sh_read_last
  <2> HIDE DEF m
  <2> QED
    BY <1>1, <2>1
<1>8. sh_token => \/ Len(me.argv) + 1 = MAX_ARG /\ Goes("prompt", m1)
                  \/ Len(me.argv) + 1 < MAX_ARG /\ Goes("token", m2)
  <2>1. sh_token => \/ Len(me.argv) + 1 = MAX_ARG /\ goto("prompt", m1)
                    \/ Len(me.argv) + 1 < MAX_ARG /\ goto("token", m2)
    BY DEF sh_token
  <2> HIDE DEF m1, m2
  <2> QED
    BY <1>2, <2>1
<1>9. sh_token_end => Goes(IF me.argv = <<>> THEN "prompt" ELSE "fork", me)
  BY <1>2 DEF sh_token_end
<1>10. sh_wait => Goes("prompt", me)
  <2>1. CASE ctx_wait(<<"sh", "prompt">>) /\ keep
    <3>1. PICK ret : Became(Returned(<<"sh", "prompt">>, ret), me)
      BY <1>0, <2>1, WaitBecomes DEF keep
    <3> QED
      BY <3>1 DEF Goes, Returned
  <2>2. CASE ctx_sleep(<<"sh", "prompt">>) /\ UNCHANGED mem
    <3>1. Became(Returned(<<"sh", "prompt">>, wpid'[curr_task]), me)
      BY <1>0, <2>2, SleepBecomes
    <3> QED
      BY <3>1 DEF Goes, Returned
  <2> QED
    BY <2>1, <2>2 DEF sh_wait
<1> QED
  BY <1>3, <1>4, <1>5, <1>6, <1>7, <1>8, <1>9, <1>10

(* A shell that goes on with sound memory leaves all in order. *)
LEMMA GoesInOrder ==
  ASSUME MemoryInv, NEW l, NEW m, Goes(l, m), input' \in Seq(Char),
         Sound(m, <<"sh", l>>), Started(m, <<"sh", l>>)
  PROVE  MemoryInv'
<1>1. PICK r : r.eip = <<"sh", l>> /\ Became(r, m)
  BY DEF Goes
<1> QED
  BY <1>1, BecameInOrder

(* What sh keeps of what read_line has taken. *)
LEMMA KeptIs ==
  ASSUME NEW line \in Line, Len(line) <= BUFSIZE - 2, NEW ch \in Char, NEW taken,
         taken = IF ch = NL THEN line ELSE Append(line, ch),
         ch = NL \/ Len(line) + 1 = BUFSIZE - 1
  PROVE  Kept(taken) = line
<1>1. PICK n \in Nat : n = Len(line)
  BY DEF Line
<1>2. CASE ch = NL
  BY <1>1, <1>2, ShellAssumption DEF Kept
<1>3. CASE ch # NL
  <2>1. PICK s \in Seq(Char) : s = taken /\ Len(s) = n + 1 /\ \A k \in 1 .. n : s[k] = line[k]
    <3>1. line \in Seq(Char)
      BY DEF Line, Char
    <3>2. Append(line, ch) \in Seq(Char) /\ Len(Append(line, ch)) = n + 1
      BY <1>1, <3>1
    <3>3. \A k \in 1 .. n : Append(line, ch)[k] = line[k]
      BY <1>1, <3>1
    <3> QED
      BY <1>3, <3>2, <3>3
  <2>2. Kept(taken) = SubSeq(s, 1, n)
    BY <1>1, <1>3, <2>1 DEF Kept, Front
  <2>3. SubSeq(s, 1, n) = [k \in 1 .. n |-> s[k]]
    BY <1>1, <2>1
  <2>4. line = [k \in 1 .. n |-> line[k]]
    BY <1>1 DEF Line
  <2> QED
    BY <2>1, <2>2, <2>3, <2>4
<1> QED
  BY <1>2, <1>3

(* An empty line is kept. *)
LEMMA KeptEmpty == Kept(<<>>) = <<>>
<1>1. <<>> \in Line /\ Len(<<>>) = 0
  BY DEF Line
<1> QED
  BY <1>1, ShellAssumption DEF Kept, Front

(* An empty line has no words. *)
LEMMA NoWords == Len(Words(<<>>)) = 0
<1>1. <<>> \in Line
  BY DEF Line
<1>2. Starts(<<>>) = {}
  BY DEF Starts
<1> QED
  BY <1>1, <1>2, WordsIs, FS_EmptySet

(* Places of the shell with nothing to prove but its buffer. *)
LEMMA PromptMemory ==
  ASSUME ShellInv, MemoryInv, sh_main \/ sh_prompt \/ sh_execv_fails \/ sh_wait
         \/ call("sh", "failed", "exit")
  PROVE  MemoryInv'
<1>0. InUser /\ input' = input /\ cpu.eip[1] = "sh" /\ cpu.eip[2] # "read"
  BY DEF sh_main, sh_prompt, sh_execv_fails, sh_wait, call, At
<1>1. IsMem(me) /\ Sound(me, cpu.eip) /\ input' \in Seq(Char)
  BY <1>0, CurrentInOrder
<1>2. me.buf \in Buffer /\ me.i = 0
  BY <1>0, <1>1 DEF Sound
<1>3. CASE sh_main
  <2> DEFINE m == [me EXCEPT !.line = <<>>]
  <2>1. IsMem(m) /\ m.buf = me.buf /\ m.i = me.i /\ m.line = <<>>
    BY <1>1 DEF IsMem
  <2>2. Goes("prompt", m)
    BY <1>3, ShGoes
  <2> HIDE DEF m
  <2>3. Sound(m, <<"sh", "prompt">>) /\ Started(m, <<"sh", "prompt">>)
    <3>1. Kept(m.line) = <<>>
      BY <2>1, KeptEmpty
    <3> QED
      BY <1>2, <2>1, <3>1, NoWords, ShellAssumption, SoundAt
  <2> QED
    BY <1>1, <2>2, <2>3, GoesInOrder
<1>4. CASE sh_prompt
  <2>0. PICK m : m = [me EXCEPT !.argv = <<>>, !.line = <<>>, !.len = 0, !.rp = 0]
    OBVIOUS
  <2>1. IsMem(m) /\ m.buf = me.buf /\ m.i = me.i /\ m.argv = <<>>
    <3>1. m = [args |-> me.args, buf |-> me.buf, argv |-> <<>>, i |-> me.i, len |-> 0, rp |-> 0,
               line |-> <<>>]
      BY <1>1, <2>0, Zenon DEF IsMem
    <3> QED
      BY <3>1 DEF IsMem
  <2>2. Goes("read", m)
    BY <1>4, <2>0, ShGoes
  <2>3. Reading(m)
    BY <1>2, <2>1, ShellAssumption DEF Reading
  <2>4. Sound(m, <<"sh", "read">>) /\ Started(m, <<"sh", "read">>)
    BY <1>2, <2>1, <2>3, SoundAt
  <2> QED
    BY <1>1, <2>2, <2>4, GoesInOrder
<1>5. ASSUME NEW l \in {"failed", "exit"}, Goes(l, me) PROVE MemoryInv'
  <2>1. Sound(me, <<"sh", l>>) /\ Started(me, <<"sh", l>>)
    BY <1>1, <1>2, SoundAt
  <2> QED
    BY <1>1, <1>5, <2>1, GoesInOrder
<1>6. CASE sh_wait
  <2>1. cpu.eip = <<"sh", "forked">>
    BY <1>6 DEF sh_wait, At
  <2>2. me.argv # <<>>
    BY <1>1, <2>1 DEF Sound, Tokenized
  <2>3. Sound(me, <<"sh", "prompt">>) /\ Started(me, <<"sh", "prompt">>)
    BY <1>1, <1>2, <2>2, SoundAt
  <2>4. Goes("prompt", me)
    BY <1>6, ShGoes
  <2> QED
    BY <1>1, <2>3, <2>4, GoesInOrder
<1> QED
  BY <1>3, <1>4, <1>5, <1>6, ShGoes

(* read_line. *)
LEMMA ReadMemory ==
  ASSUME ShellInv, MemoryInv, sh_read_nothing \/ sh_read \/ sh_read_last
  PROVE  MemoryInv'
<1>0. InUser /\ cpu.eip = <<"sh", "read">>
  BY DEF sh_read_nothing, sh_read, sh_read_last, call, At
<1>1. IsMem(me) /\ Sound(me, cpu.eip) /\ input \in Seq(Char)
  BY <1>0, CurrentInOrder
<1>2. me.buf \in Buffer /\ Reading(me) /\ me.argv = <<>> /\ me.i \in 0 .. BUFSIZE - 2
      /\ BUFSIZE \in Nat /\ BUFSIZE >= 2
  BY <1>0, <1>1, ShellAssumption DEF Sound, Reading
<1>3. CASE sh_read_nothing
  <2>1. Goes("read", me) /\ input' \in Seq(Char)
    BY <1>1, <1>3, ShGoes DEF sh_read_nothing, call
  <2>2. Sound(me, <<"sh", "read">>) /\ Started(me, <<"sh", "read">>)
    BY <1>1, <1>2, SoundAt
  <2> QED
    BY <2>1, <2>2, GoesInOrder
<1>4. input # <<>> => Head(input) \in Char /\ Tail(input) \in Seq(Char)
  BY <1>1
<1>5. CASE sh_read
  <2> DEFINE b == [me.buf EXCEPT ![me.i] = Head(input)]
  <2>0. PICK m : m = [me EXCEPT !.buf[me.i] = Head(input), !.i = @ + 1]
    OBVIOUS
  <2>1. /\ input # <<>> /\ Head(input) # NL /\ me.i + 1 # BUFSIZE - 1 /\ input' = Tail(input)
    BY <1>5 DEF sh_read, LineDone
  <2>2. IsMem(m) /\ m.buf = b /\ m.i = me.i + 1 /\ m.argv = <<>>
    <3>1. m = [args |-> me.args, buf |-> b, argv |-> me.argv, i |-> me.i + 1, len |-> me.len,
               rp |-> me.rp, line |-> me.line]
      BY <1>1, <2>0, Zenon DEF IsMem
    <3> QED
      BY <1>2, <3>1 DEF IsMem
  <2>3. Goes("read", m)
    BY <1>5, <2>0, ShGoes
  <2>4. Head(input) \in Letters \cup {SPACE}
    BY <1>4, <2>1 DEF Char
  <2>5. /\ b \in Buffer /\ b[me.i] = Head(input)
        /\ \A k \in 0 .. me.i - 1 : b[k] = me.buf[k]
    BY <1>2, <2>4 DEF Buffer
  <2> HIDE DEF b
  <2>6. Reading(m)
    <3>1. m.i \in 0 .. BUFSIZE - 2
      BY <1>2, <2>1, <2>2
    <3>2. ASSUME NEW k \in 0 .. m.i - 1 PROVE b[k] \in Letters \cup {SPACE}
      <4>1. k \in 0 .. me.i - 1 \/ k = me.i
        BY <1>2, <2>2
      <4> QED
        BY <1>2, <2>4, <2>5, <4>1 DEF Reading
    <3> QED
      BY <2>2, <3>1, <3>2 DEF Reading
  <2>7. Sound(m, <<"sh", "read">>) /\ Started(m, <<"sh", "read">>)
    BY <2>2, <2>5, <2>6, SoundAt
  <2> QED
    BY <1>4, <2>1, <2>3, <2>7, GoesInOrder
<1>6. CASE sh_read_last
  <2> DEFINE b1 == [me.buf EXCEPT ![me.i] = Head(input)]
             b == Terminated(b1, me.i + 1)
             line == Partial(me)
             taken == IF Head(input) = NL THEN line ELSE Append(line, Head(input))
  <2>0. PICK m : m = [me EXCEPT !.buf = b, !.len = strlen(b), !.rp = SkipSpaces(b, 0), !.i = 0,
                                !.line = taken]
    OBVIOUS
  <2>1. input # <<>> /\ input' = Tail(input)
    BY <1>6 DEF sh_read_last
  <2>2. Goes("token", m)
    BY <1>6, <2>0, ShGoes
  <2>3. /\ IsMem(m) /\ m.buf = b /\ m.i = 0 /\ m.argv = <<>> /\ m.line = taken
        /\ m.len = strlen(b) /\ m.rp = SkipSpaces(b, 0)
    <3> HIDE DEF b, taken
    <3>1. m = [args |-> me.args, buf |-> b, argv |-> me.argv, i |-> 0, len |-> strlen(b),
               rp |-> SkipSpaces(b, 0), line |-> taken]
      BY <1>1, <2>0, Zenon DEF IsMem
    <3> QED
      BY <1>2, <3>1 DEF IsMem
  <2>4. /\ b \in Buffer /\ b[me.i] = NUL
        /\ \A k \in 0 .. me.i - 1 : b[k] = me.buf[k]
    <3>1. (me.i + 1) - 1 = me.i
      BY <1>2
    <3>2. b = [b1 EXCEPT ![me.i] = NUL]
      BY <3>1 DEF Terminated
    <3>3. b = [me.buf EXCEPT ![me.i] = NUL]
      BY <1>2, <3>2 DEF Buffer
    <3> HIDE DEF b
    <3> QED
      BY <1>2, <3>3 DEF Buffer
  <2> HIDE DEF b
  <2>5. /\ line \in Line /\ Len(line) = me.i
        /\ \A k \in 0 .. me.i - 1 : line[k + 1] = me.buf[k]
    <3>1. \A k \in 1 .. me.i : k - 1 \in 0 .. me.i - 1
      BY <1>2
    <3>2. \A k \in 1 .. me.i : me.buf[k - 1] \in Letters \cup {SPACE}
      BY <1>2, <3>1 DEF Reading
    <3>3. line \in [1 .. me.i -> Letters \cup {SPACE}] /\ me.i \in Nat
      BY <1>2, <3>2 DEF Partial
    <3>4. \A k \in 0 .. me.i - 1 : k + 1 \in 1 .. me.i /\ (k + 1) - 1 = k
      BY <1>2
    <3>5. \A k \in 0 .. me.i - 1 : line[k + 1] = me.buf[k]
      BY <3>4 DEF Partial
    <3> HIDE DEF line
    <3> QED
      BY <3>3, <3>5 DEF Line
  <2>6. \A k \in 0 .. me.i - 1 : b[k] # NUL
    BY <1>2, <2>4, ShellAssumption DEF Reading
  <2>10. Head(input) = NL \/ me.i + 1 = BUFSIZE - 1
    BY <1>6 DEF sh_read_last, LineDone
  <2> HIDE DEF line
  <2>11. Kept(taken) = line
    <3>1. Len(line) <= BUFSIZE - 2 /\ (Head(input) = NL \/ Len(line) + 1 = BUFSIZE - 1)
      BY <1>2, <2>5, <2>10
    <3>2. line \in Line /\ Head(input) \in Char
      BY <1>4, <2>1, <2>5
    <3> QED
      BY <3>1, <3>2, KeptIs
  <2> HIDE DEF taken
  <2>7. strlen(b) = me.i
    BY <1>2, <2>4, <2>6, StrlenIs
  <2>8. Scanned(line, b, <<>>, SkipSpaces(b, 0))
    <3>1. Len(line) <= BUFSIZE - 2 /\ b[Len(line)] = NUL
      BY <1>2, <2>4, <2>5
    <3>2. \A k \in 0 .. Len(line) - 1 : b[k] = line[k + 1]
      BY <2>4, <2>5
    <3>3. line \in Line /\ b \in Buffer
      BY <2>4, <2>5
    <3> QED
      BY <3>1, <3>2, <3>3, ScanStarts, ZenonT(60)
  <2>9. Sound(m, <<"sh", "token">>) /\ Started(m, <<"sh", "token">>)
    <3>1. Len(<<>>) = 0 /\ 0 < MAX_ARG
      BY ShellAssumption
    <3>2. Len(m.argv) < MAX_ARG
      BY <2>3, <3>1
    <3>3. /\ IsMem(m) /\ m.buf \in Buffer /\ m.i = 0 /\ m.len = Len(Kept(m.line))
          /\ Scanned(Kept(m.line), m.buf, m.argv, m.rp)
      BY <2>3, <2>4, <2>5, <2>7, <2>8, <2>11
    <3> QED
      BY <3>2, <3>3, SoundAt
  <2> QED
    BY <1>4, <2>1, <2>2, <2>9, GoesInOrder
<1> QED
  BY <1>3, <1>5, <1>6

(* tokenize. *)
LEMMA TokenMemory ==
  ASSUME ShellInv, MemoryInv, sh_token \/ sh_token_end
  PROVE  MemoryInv'
<1>0. InUser /\ cpu.eip = <<"sh", "token">> /\ input' = input
  BY DEF sh_token, sh_token_end, goto, At
<1>1. IsMem(me) /\ Sound(me, cpu.eip) /\ input' \in Seq(Char)
  BY <1>0, CurrentInOrder
<1>2. /\ me.buf \in Buffer /\ me.i = 0
      /\ Scanned(Kept(me.line), me.buf, me.argv, me.rp) /\ me.len = Len(Kept(me.line)) /\ Len(me.argv) < MAX_ARG
  BY <1>0, <1>1 DEF Sound
<1>3. /\ Kept(me.line) \in Line /\ Len(Kept(me.line)) \in Nat /\ me.rp \in Nat /\ me.argv \in Seq(Nat)
      /\ Len(me.argv) \in Nat /\ MAX_ARG \in Nat \ {0} /\ BUFSIZE \in Nat
      /\ Len(Kept(me.line)) <= BUFSIZE - 2
  BY <1>2, ShellAssumption DEF Scanned, Line
<1>4. CASE sh_token
  <2> DEFINE end == WordEnd(me.buf, me.rp)
             b == [me.buf EXCEPT ![end] = NUL]
  <2>8. PICK m1 : m1 = [me EXCEPT !.buf = b, !.argv = <<>>]
    OBVIOUS
  <2>9. PICK m2 : m2 = [me EXCEPT !.buf = b, !.argv = Append(@, me.rp), !.rp = SkipSpaces(b, end + 1)]
    OBVIOUS
  <2>1. me.rp < Len(Kept(me.line))
    BY <1>2, <1>3, <1>4 DEF sh_token, More
  <2>2. b \in Buffer
    <3>1. end \in 0 .. BUFSIZE - 1
      BY <1>2, <1>3, <2>1, WordEndIsStop
    <3> QED
      BY <1>2, <3>1 DEF Buffer
  <2>3. /\ IsMem(m1) /\ m1.buf = b /\ m1.i = 0 /\ m1.argv = <<>> /\ m1.line = me.line
        /\ IsMem(m2) /\ m2.buf = b /\ m2.i = 0 /\ m2.argv = Append(me.argv, me.rp)
        /\ m2.line = me.line /\ m2.len = me.len /\ m2.rp = SkipSpaces(b, end + 1)
    <3> HIDE DEF b, end
    <3>1. m1 = [args |-> me.args, buf |-> b, argv |-> <<>>, i |-> me.i, len |-> me.len,
                rp |-> me.rp, line |-> me.line]
      BY <1>1, <2>8, Zenon DEF IsMem
    <3>2. m2 = [args |-> me.args, buf |-> b, argv |-> Append(me.argv, me.rp), i |-> me.i,
                len |-> me.len, rp |-> SkipSpaces(b, end + 1), line |-> me.line]
      BY <1>1, <2>9, Zenon DEF IsMem
    <3> QED
      BY <1>2, <3>1, <3>2 DEF IsMem
  <2>4. \/ Len(me.argv) + 1 = MAX_ARG /\ Goes("prompt", m1)
        \/ Len(me.argv) + 1 < MAX_ARG /\ Goes("token", m2)
    BY <1>4, <2>8, <2>9, ShGoes
  <2>5. Scanned(Kept(me.line), b, Append(me.argv, me.rp), SkipSpaces(b, end + 1))
    BY <1>2, <2>1, ScanStep
  <2> HIDE DEF end, b
  <2>6. CASE Len(me.argv) + 1 = MAX_ARG /\ Goes("prompt", m1)
    <3>1. Len(Words(Kept(me.line))) > Len(me.argv) /\ Len(Words(Kept(me.line))) \in Nat
      BY <1>2, <1>3, <2>1, ScanGoesOn, WordsIs, RankIs
    <3>2. Len(Words(Kept(me.line))) \notin 1 .. MAX_ARG - 1
      BY <1>3, <2>6, <3>1
    <3>3. Sound(m1, <<"sh", "prompt">>) /\ Started(m1, <<"sh", "prompt">>)
      BY <2>2, <2>3, <3>2, SoundAt
    <3> QED
      BY <1>1, <2>6, <3>3, GoesInOrder
  <2>7. CASE Len(me.argv) + 1 < MAX_ARG /\ Goes("token", m2)
    <3>1. Len(m2.argv) < MAX_ARG
      BY <1>3, <2>3, <2>7
    <3>2. Scanned(Kept(m2.line), m2.buf, m2.argv, m2.rp) /\ m2.len = Len(Kept(m2.line))
      BY <1>2, <2>3, <2>5
    <3>3. Sound(m2, <<"sh", "token">>) /\ Started(m2, <<"sh", "token">>)
      BY <2>2, <2>3, <3>1, <3>2, SoundAt
    <3> QED
      BY <1>1, <2>7, <3>3, GoesInOrder
  <2> QED
    BY <2>4, <2>6, <2>7
<1>5. CASE sh_token_end
  <2> DEFINE l == IF me.argv = <<>> THEN "prompt" ELSE "fork"
  <2>1. ~(me.rp < Len(Kept(me.line)))
    BY <1>2, <1>3, <1>5 DEF sh_token_end, More
  <2>2. Strings(me.buf, me.argv) = Words(Kept(me.line)) /\ Len(me.argv) = Len(Words(Kept(me.line)))
    BY <1>2, <2>1, ScanEnds
  <2>3. Goes(l, me)
    BY <1>5, ShGoes
  <2>4. me.argv = <<>> => Len(Words(Kept(me.line))) = 0
    BY <2>2
  <2>5. me.argv # <<>> => Tokenized(me)
    <3>1. me.argv # <<>> => Len(me.argv) \in 1 .. MAX_ARG - 1
      BY <1>2, <1>3
    <3> QED
      BY <1>3, <2>2, <3>1 DEF Tokenized
  <2>6. Sound(me, <<"sh", l>>) /\ Started(me, <<"sh", l>>)
    <3>1. CASE me.argv = <<>>
      <4>1. Len(Words(Kept(me.line))) \notin 1 .. MAX_ARG - 1 /\ l = "prompt"
        BY <1>3, <2>4, <3>1
      <4> QED
        BY <1>1, <1>2, <4>1, SoundAt
    <3>2. CASE me.argv # <<>>
      BY <1>1, <1>2, <2>5, <3>2, SoundAt
    <3> QED
      BY <3>1, <3>2
  <2> HIDE DEF l
  <2> QED
    BY <1>1, <2>3, <2>6, GoesInOrder
<1> QED
  BY <1>4, <1>5

-----------------------------------------------------------------------------
(* Open files.                                                             *)

(* The places of cat's loop. *)
InLoop(eip) == eip \in {"cat"} \X {"open", "read", "write", "close"}

(* A program that has n files open can open what it still has to: none are *)
(* open when it starts, and cat has at most one for each argument before   *)
(* the one it is at, and one for print.                                    *)
Fits(n, eip, m) ==
  /\ eip[2] = "main" => n = 0
  /\ eip = <<"ls", "root">> => n <= 1
  /\ eip[1] = "cat" => Len(m.args) \in 0 .. MAX_ARG - 1
  /\ InLoop(eip) => /\ m.i \in 1 .. MAX_ARG - 2
                    /\ n <= IF eip[2] = "open" THEN m.i ELSE m.i + 1

(* Every program can open what it still has to. *)
FilesHeld ==
  \A t \in Tasks \ {scheduler_task} : Live(t) => Fits(nopen[t], user[t].eip, mem[t])

(* The end of a system call takes files from the dead only. *)
LEMMA LiveFiles ==
  ASSUME NEW st, NEW par, NEW nf, kill_off_zombies(st, par, nf)
  PROVE  \A t \in Tasks : st[t] # "ZOMBIE" => nopen'[t] = nf[t]
BY DEF kill_off_zombies, destroy_task, Reaped

(* What calls do to the current task's files. *)
LEMMA CallFiles ==
  ASSUME ShellInv, InUser, NEW next
  PROVE  /\ nopen[curr_task] \in Nat
         /\ \A ret : ctx_other(next, ret) => nopen'[curr_task] = nopen[curr_task]
         /\ \A ret : ctx_open(next, ret) =>
              nopen'[curr_task] \in {nopen[curr_task], nopen[curr_task] + 1}
         /\ ctx_close(next) =>
              nopen'[curr_task] \in {nopen[curr_task], nopen[curr_task] - 1}
         /\ \A p, esp : ctx_execv(p, esp) => nopen'[curr_task] = 0
<1>1. /\ nopen \in [Tasks -> 0 .. MAX_OPEN_FILES] /\ curr_task \in Tasks
      /\ state[curr_task] # "ZOMBIE" /\ MAX_OPEN_FILES \in Nat
  BY DEF ShellInv, Inv, TypeOK, OneRunning, InUser
<1>2. nopen[curr_task] \in Nat
  BY <1>1
<1>3. ASSUME NEW par, NEW nf, kill_off_zombies(state, par, nf)
      PROVE  nopen'[curr_task] = nf[curr_task]
  BY <1>1, <1>3, LiveFiles
<1>4. ASSUME NEW ret, ctx_other(next, ret) PROVE nopen'[curr_task] = nopen[curr_task]
  BY <1>3, <1>4 DEF ctx_other, sys_other
<1>5. ASSUME NEW ret, ctx_open(next, ret)
      PROVE  nopen'[curr_task] \in {nopen[curr_task], nopen[curr_task] + 1}
  <2>1. PICK par, nf : /\ nf = nopen \/ nf = [nopen EXCEPT ![curr_task] = @ + 1]
                       /\ kill_off_zombies(state, par, nf)
    <3>1. \/ \E par : kill_off_zombies(state, par, nopen)
          \/ \E par : kill_off_zombies(state, par, [nopen EXCEPT ![curr_task] = @ + 1])
      BY <1>5 DEF ctx_open, sys_open
    <3> QED
      BY <3>1, Zenon
  <2> QED
    BY <1>1, <1>3, <2>1
<1>6. ASSUME ctx_close(next)
      PROVE  nopen'[curr_task] \in {nopen[curr_task], nopen[curr_task] - 1}
  <2>1. PICK par, nf : /\ nf = nopen \/ nf = [nopen EXCEPT ![curr_task] = @ - 1]
                       /\ kill_off_zombies(state, par, nf)
    <3>1. \/ \E par : kill_off_zombies(state, par, nopen)
          \/ \E par : kill_off_zombies(state, par, [nopen EXCEPT ![curr_task] = @ - 1])
      BY <1>6 DEF ctx_close, sys_close
    <3> QED
      BY <3>1, Zenon
  <2> QED
    BY <1>1, <1>3, <2>1
<1>7. ASSUME NEW p, NEW esp, ctx_execv(p, esp) PROVE nopen'[curr_task] = 0
  <2>1. PICK nf : /\ nf = [nopen EXCEPT ![curr_task] = 0]
                  /\ kill_off_zombies(state, parent, nf)
    BY <1>7, Zenon DEF ctx_execv, sys_execv
  <2>2. nopen'[curr_task] = nf[curr_task]
    BY <1>3, <2>1
  <2> QED
    BY <1>1, <2>1, <2>2
<1> QED
  BY <1>2, <1>4, <1>5, <1>6, <1>7

(* A step of one program leaves the files of the others alone. *)
LEMMA OtherFiles ==
  ASSUME ShellInv, [ShellNext]_shell_vars
  PROVE  \A t \in Tasks : Live(t) /\ t # curr_task => nopen'[t] = nopen[t]
<1> SUFFICES ASSUME NEW t \in Tasks, Live(t), t # curr_task PROVE nopen'[t] = nopen[t]
  OBVIOUS
<1>1. /\ nopen \in [Tasks -> 0 .. MAX_OPEN_FILES] /\ state \in [Tasks -> procstate]
      /\ state[t] # "ZOMBIE" /\ state[t] # "UNUSED"
  BY DEF ShellInv, Inv, TypeOK, Live
<1>2. ASSUME NEW par, kill_off_zombies(state, par, nopen) PROVE nopen'[t] = nopen[t]
  BY <1>1, <1>2, LiveFiles
<1>6. ASSUME NEW par, NEW n, kill_off_zombies(state, par, [nopen EXCEPT ![curr_task] = n])
      PROVE  nopen'[t] = nopen[t]
  <2>1. PICK nf : /\ nf = [nopen EXCEPT ![curr_task] = n]
                  /\ kill_off_zombies(state, par, nf)
    BY <1>6, Zenon
  <2>2. kill_off_zombies(state, par, nf)
    BY <2>1
  <2>3. \A s \in Tasks : state[s] # "ZOMBIE" => nopen'[s] = nf[s]
    BY <2>2, LiveFiles
  <2> QED
    BY <1>1, <2>1, <2>3
<1>3. CASE UNCHANGED <<vars, ctx_vars>>
  BY <1>3 DEF vars
<1>4. CASE ctx_schedule \/ ctx_timer \/ ctx_wait_return
  BY <1>1, <1>2, <1>4 DEF ctx_schedule, ctx_timer, ctx_wait_return, schedule, timer_irq, sys_wait_return
<1>5. CASE ShellCall
  <2>1. CASE \E next, ret : ctx_open(next, ret) \/ ctx_other(next, ret)
    BY <1>2, <1>6, <2>1, Zenon DEF ctx_open, ctx_other, sys_open, sys_other
  <2>2. CASE \E next : ctx_close(next) \/ compute(next)
    <3>1. CASE \E next : ctx_close(next)
      BY <1>2, <1>6, <3>1, Zenon DEF ctx_close, sys_close
    <3> QED
      BY <2>2, <3>1 DEF compute, vars
  <2>3. CASE \E next : ctx_fork(next)
    <3>1. PICK tp, st, par, nf :
            /\ tp \in Tasks /\ alloc_task(tp)
            /\ st = [state EXCEPT ![tp] = "RUNNABLE"] /\ nf = [nopen EXCEPT ![tp] = nopen[curr_task]]
            /\ kill_off_zombies(st, par, nf)
      BY <2>3, Zenon DEF ctx_fork, sys_fork
    <3>2. tp # t
      BY <1>1, <3>1 DEF alloc_task
    <3>3. st[t] # "ZOMBIE" /\ nf[t] = nopen[t]
      BY <1>1, <3>1, <3>2
    <3>4. kill_off_zombies(st, par, nf)
      BY <3>1
    <3>5. \A s \in Tasks : st[s] # "ZOMBIE" => nopen'[s] = nf[s]
      BY <3>4, LiveFiles
    <3> QED
      BY <3>3, <3>5
  <2>4. CASE \E next : ctx_wait(next) \/ ctx_sleep(next)
    <3>1. kill_off_zombies(state, parent, nopen) \/ nopen' = nopen
      BY <2>4, Zenon DEF ctx_wait, ctx_sleep, sys_wait, sleep
    <3> QED
      BY <1>2, <3>1
  <2>5. CASE \E p, esp : ctx_execv(p, esp)
    BY <1>6, <2>5, Zenon DEF ctx_execv, sys_execv
  <2>6. CASE ctx_exit
    BY <2>6 DEF ctx_exit, sys_exit
  <2> QED
    BY <1>5, <2>1, <2>2, <2>3, <2>4, <2>5, <2>6 DEF ShellCall
<1> QED
  BY <1>3, <1>4, <1>5, ShellNextIsStep DEF ShellStep

(* A step of one program after which its files fit. *)
LEMMA BecameHeld ==
  ASSUME ShellInv, FilesHeld, [ShellNext]_shell_vars, NEW r, NEW m, Became(r, m),
         Live(curr_task) /\ curr_task # scheduler_task => Fits(nopen'[curr_task], r.eip, m)
  PROVE  FilesHeld'
<1> SUFFICES ASSUME NEW t \in Tasks \ {scheduler_task}, Live(t)'
             PROVE  Fits(nopen'[t], user'[t].eip, mem'[t])
  BY DEF FilesHeld, Fits, InLoop
<1>1. Live(t)
  BY DEF Became
<1>2. CASE t = curr_task
  <2>1. user'[t] = r /\ mem'[t] = m
    BY <1>1, <1>2 DEF Became
  <2> QED
    BY <1>1, <1>2, <2>1
<1>3. CASE t # curr_task
  <2>1. user'[t] = user[t] /\ mem'[t] = mem[t]
    BY <1>1, <1>3 DEF Became
  <2>2. nopen'[t] = nopen[t]
    BY <1>1, <1>3, OtherFiles
  <2>3. Fits(nopen[t], user[t].eip, mem[t])
    BY <1>1 DEF FilesHeld
  <2> QED
    BY <2>1, <2>2, <2>3
<1> QED
  BY <1>2, <1>3

(* What pointers into buf lead to are strings. *)
LEMMA StringsAreLines ==
  ASSUME NEW buf \in Buffer, NEW toks \in Seq(Nat)
  PROVE  Strings(buf, toks) \in Seq(Line) /\ Len(Strings(buf, toks)) = Len(toks)
<1>1. ASSUME NEW a \in Nat PROVE StringAt(buf, a) \in Line
  <2> DEFINE S == {e \in DOMAIN buf : e >= a /\ buf[e] = NUL}
  <2>1. CASE S = {}
    BY <2>1 DEF StringAt, Line
  <2>2. CASE S # {}
    <3>1. S \in SUBSET Nat /\ DOMAIN buf = 0 .. BUFSIZE - 1 /\ BUFSIZE \in Nat
      BY ShellAssumption DEF Buffer
    <3>2. Min(S) \in S /\ \A y \in S : Min(S) <= y
      BY <2>2, <3>1, MinIs
    <3> DEFINE e == Min(S)
    <3>3. e \in 0 .. BUFSIZE - 1 /\ e >= a
      BY <3>1, <3>2
    <3>4. \A j \in a .. e - 1 : buf[j] \in Letters \cup {SPACE}
      <4> TAKE j \in a .. e - 1
      <4>1. j \in 0 .. BUFSIZE - 1 /\ j >= a /\ ~(e <= j)
        BY <3>1, <3>3
      <4>2. j \notin S
        BY <3>2, <4>1
      <4> QED
        BY <3>1, <4>1, <4>2 DEF Buffer
    <3>5. StringAt(buf, a) = [k \in 1 .. e - a |-> buf[a + k - 1]]
      BY <2>2 DEF StringAt
    <3> HIDE DEF e
    <3>6. \A k \in 1 .. e - a : a + k - 1 \in a .. e - 1
      BY <3>1, <3>3
    <3>7. e - a \in Nat
      BY <3>3
    <3>8. StringAt(buf, a) \in [1 .. e - a -> Letters \cup {SPACE}]
      BY <3>4, <3>5, <3>6
    <3> QED
      BY <3>7, <3>8 DEF Line
  <2> QED
    BY <2>1, <2>2
<1>2. /\ Strings(buf, toks) = [k \in 1 .. Len(toks) |-> StringAt(buf, toks[k])]
      /\ Len(toks) \in Nat /\ \A k \in 1 .. Len(toks) : toks[k] \in Nat
  BY DEF Strings
<1>3. Strings(buf, toks) \in [1 .. Len(toks) -> Line]
  BY <1>1, <1>2
<1> QED
  BY <1>2, <1>3

(* fork. *)
LEMMA ForkMemory ==
  ASSUME ShellInv, MemoryInv, sh_fork
  PROVE  MemoryInv'
<1>0. InUser /\ cpu.eip = <<"sh", "fork">> /\ input' = input
  BY DEF sh_fork, At
<1>1. /\ IsMem(me) /\ Sound(me, cpu.eip) /\ input' \in Seq(Char)
      /\ mem = [t \in Tasks |-> mem[t]]
  BY <1>0, CurrentInOrder
<1>2. me.buf \in Buffer /\ me.i = 0 /\ Tokenized(me)
  BY <1>0, <1>1 DEF Sound
<1>3. Sound(me, <<"sh", "forked">>) /\ Started(me, <<"sh", "forked">>)
  BY <1>1, <1>2, SoundAt
<1>4. PICK tp \in Tasks : Spawned(tp, <<"sh", "forked">>)
  <2>1. Childless
    BY <1>0 DEF Childless
  <2> QED
    BY <1>1, <2>1, ForkSpawns DEF sh_fork
<1>5. ASSUME NEW t \in Tasks, Live(t)' PROVE InOrder(t)'
  <2>1. CASE t = curr_task \/ t = tp
    <3>1. user'[t].eip = <<"sh", "forked">> /\ mem'[t] = me
      BY <1>4, <2>1 DEF Spawned, Returned
    <3> QED
      BY <1>3, <3>1 DEF InOrder, Sound, Started
  <2>2. CASE t # curr_task /\ t # tp
    <3>1. Live(t) /\ user'[t] = user[t] /\ mem'[t] = mem[t]
      BY <1>4, <1>5, <2>2 DEF Spawned
    <3>2. InOrder(t)
      BY <3>1 DEF MemoryInv
    <3> QED
      BY <3>1, <3>2 DEF InOrder, Sound, Started
  <2> QED
    BY <2>1, <2>2
<1>6. mem' = [t \in Tasks |-> mem'[t]]
  BY <1>4 DEF Spawned
<1> QED
  BY <1>1, <1>5, <1>6 DEF MemoryInv

(* What execv leaves in memory. *)
LEMMA ExecBecomes ==
  ASSUME ShellInv, MemoryInv, InUser, NEW p, NEW stack, exec(p, stack)
  PROVE  /\ input' = input
         /\ \E m : /\ Became([eip |-> <<p, "main">>, eax |-> 0, esp |-> stack.esp], m)
                   /\ Sound(m, <<p, "main">>)
                   /\ m.args = Argv(stack.page, stack.esp) /\ m.line = me.line
<1>0. CtxInv /\ mem = [t \in Tasks |-> mem[t]]
  BY DEF ShellInv, MemoryInv
<1>1. /\ ctx_execv(p, stack.esp) /\ input' = input
      /\ \E stale \in IF p = "sh" THEN Stale ELSE {Blank.buf} :
           store([Fresh(Argv(stack.page, stack.esp), stale) EXCEPT !.line = me.line])
  BY DEF exec
<1>2. PICK stale \in IF p = "sh" THEN Stale ELSE {Blank.buf} :
        store([Fresh(Argv(stack.page, stack.esp), stale) EXCEPT !.line = me.line])
  BY <1>1
<1>3. PICK m : m = [Fresh(Argv(stack.page, stack.esp), stale) EXCEPT !.line = me.line]
  OBVIOUS
<1> DEFINE args == Argv(stack.page, stack.esp)
<1> HIDE DEF args
<1>4. m = [args |-> args, buf |-> stale, argv |-> <<>>, i |-> 0, len |-> 0, rp |-> 0,
           line |-> me.line]
  BY <1>3, Zenon DEF Fresh, args
<1>5. IsMem(m) /\ m.args = args /\ m.buf = stale /\ m.i = 0 /\ m.line = me.line
  BY <1>4 DEF IsMem
<1>6. p = "sh" => stale \in Buffer
  BY <1>2 DEF Stale, Buffer
<1>7. Sound(m, <<p, "main">>)
  BY <1>5, <1>6 DEF Sound
<1>8. store(m)
  BY <1>2, <1>3
<1>9. Became([eip |-> <<p, "main">>, eax |-> 0, esp |-> stack.esp], m)
  BY <1>0, <1>1, <1>8, ExecvBecomes
<1> QED
  BY <1>1, <1>5, <1>7, <1>9 DEF args

(* execv of the command line. *)
LEMMA ShExecs ==
  ASSUME ShellInv, MemoryInv, sh_execv
  PROVE  /\ input' = input
         /\ \E p, esp, m : /\ ctx_execv(p, esp)
                          /\ Became([eip |-> <<p, "main">>, eax |-> 0, esp |-> esp], m)
                          /\ Sound(m, <<p, "main">>) /\ Started(m, <<p, "main">>)
                          /\ Len(m.args) \in 0 .. MAX_ARG - 1
<1> DEFINE w == Words(Kept(me.line))
           stack == prepare_ustack(USTACK, argv)
           p == Elf[argv[1]]
<1>0. InUser
  BY DEF sh_execv, At
<1>1. Sound(me, cpu.eip)
  BY <1>0, CurrentInOrder
<1>2. cpu.eip = <<"sh", "forked">> /\ exec(p, stack)
  BY DEF sh_execv, At
<1>3. me.buf \in Buffer /\ Tokenized(me)
  BY <1>1, <1>2 DEF Sound
<1>4. argv = w /\ w \in Seq(Line) /\ Len(w) <= MAX_ARG - 1
  <2>1. argv = w /\ Len(w) \in 1 .. MAX_ARG - 1 /\ me.argv \in Seq(Nat)
    BY <1>3 DEF Tokenized, argv
  <2>2. argv \in Seq(Line)
    BY <1>3, <2>1, StringsAreLines DEF argv
  <2> QED
    BY <2>1, <2>2
<1>5. Argv(stack.page, stack.esp) = Copied(w)
  BY <1>4, ArgvArrives
<1>6. Len(Copied(w)) \in 0 .. MAX_ARG - 1
  <2>1. PICK l \in Nat : l = Len(w)
    BY <1>4
  <2>2. Len(Copied(w)) \in Nat /\ Len(Copied(w)) <= l
    BY <1>4, <2>1, CopiedIs
  <2> QED
    BY <1>4, <2>1, <2>2, ShellAssumption
<1> HIDE DEF stack
<1>7. PICK m : /\ Became([eip |-> <<p, "main">>, eax |-> 0, esp |-> stack.esp], m)
               /\ Sound(m, <<p, "main">>)
               /\ m.args = Copied(w) /\ m.line = me.line
  BY <1>0, <1>2, <1>5, ExecBecomes
<1>8. input' = input /\ ctx_execv(p, stack.esp)
  BY <1>0, <1>2, ExecBecomes DEF exec
<1>9. Started(m, <<p, "main">>)
  <2>1. Elf[Words(Kept(me.line))[1]] = p
    BY <1>4
  <2> HIDE DEF p
  <2> QED
    BY <1>7, <2>1 DEF Started
<1> HIDE DEF p, w
<1>10. Len(m.args) \in 0 .. MAX_ARG - 1
  BY <1>6, <1>7
<1> QED
  BY <1>7, <1>8, <1>9, <1>10

(* execv. *)
LEMMA ExecMemory ==
  ASSUME ShellInv, MemoryInv, init \/ sh_execv
  PROVE  MemoryInv'
<1>0. InUser
  BY DEF init, sh_execv, At
<1>1. /\ Sound(me, cpu.eip) /\ input \in Seq(Char)
  BY <1>0, CurrentInOrder
<1>2. CASE sh_execv
  <2>1. PICK p, esp, m : /\ Became([eip |-> <<p, "main">>, eax |-> 0, esp |-> esp], m)
                         /\ Sound(m, <<p, "main">>) /\ Started(m, <<p, "main">>)
    BY <1>2, ShExecs
  <2>2. input' = input
    BY <1>2, ShExecs
  <2>3. [eip |-> <<p, "main">>, eax |-> 0, esp |-> esp].eip = <<p, "main">>
    OBVIOUS
  <2> QED
    BY <1>1, <2>1, <2>2, <2>3, BecameInOrder
<1>3. CASE init
  <2> DEFINE stack == prepare_ustack_null(USTACK)
  <2>1. cpu.eip = <<"init", "main">> /\ exec("sh", stack)
    BY <1>3 DEF init, At
  <2> HIDE DEF stack
  <2>2. input' = input
        /\ \E m : /\ Became([eip |-> <<"sh", "main">>, eax |-> 0, esp |-> stack.esp], m)
                  /\ Sound(m, <<"sh", "main">>)
                  /\ curr_task # init_task => Started(m, <<"sh", "main">>)
    <3>1. PICK m : /\ Became([eip |-> <<"sh", "main">>, eax |-> 0, esp |-> stack.esp], m)
                   /\ Sound(m, <<"sh", "main">>)
                   /\ m.args = Argv(stack.page, stack.esp) /\ m.line = me.line
      BY <1>0, <2>1, ExecBecomes
    <3>2. input' = input
      BY <1>0, <2>1, ExecBecomes
    <3>3. m.args = <<>>
      BY <3>1, NullArgvArrives DEF stack
    <3>4. curr_task # init_task => Started(me, cpu.eip)
      BY <1>0, CurrentInOrder
    <3>5. curr_task # init_task => Elf[Words(Kept(me.line))[1]] = "init"
      BY <2>1, <3>4 DEF Started
    <3>6. curr_task # init_task => Started(m, <<"sh", "main">>)
      BY <3>1, <3>3, <3>5 DEF Started
    <3> QED
      BY <3>1, <3>2, <3>6
  <2>4. [eip |-> <<"sh", "main">>, eax |-> 0, esp |-> stack.esp].eip = <<"sh", "main">>
    OBVIOUS
  <2> QED
    BY <1>1, <2>2, <2>4, BecameInOrder
<1> QED
  BY <1>2, <1>3

(* A tool goes on. *)
LEMMA ToolInOrder ==
  ASSUME MemoryInv, NEW p \in {"echo", "hello", "ls", "cat"}, NEW l, l # "main",
         NEW ret, NEW m, IsMem(m), Became(Returned(<<p, l>>, ret), m), input' \in Seq(Char)
  PROVE  MemoryInv'
<1>2. Returned(<<p, l>>, ret).eip = <<p, l>>
  BY DEF Returned
<1>3. Sound(m, <<p, l>>) /\ Started(m, <<p, l>>)
  BY DEF Sound, Started
<1> HIDE DEF Returned
<1> QED
  BY <1>2, <1>3, BecameInOrder

(* exit. *)
LEMMA LeaveMemory ==
  ASSUME MemoryInv, Left, input' \in Seq(Char)
  PROVE  MemoryInv'
<1>2. ASSUME NEW t \in Tasks, Live(t)' PROVE InOrder(t)'
  <2>1. Live(t) /\ user'[t] = user[t] /\ mem'[t] = mem[t]
    BY <1>2 DEF Left
  <2>2. InOrder(t)
    BY <2>1 DEF MemoryInv
  <2> QED
    BY <2>1, <2>2 DEF InOrder, Sound, Started
<1> QED
  BY <1>2 DEF MemoryInv, Left

(* The current program, a tool, has gone on, and its files still fit. *)
ToolGoes ==
  \E p \in {"echo", "hello", "ls", "cat"} : \E l, ret, m :
    /\ l # "main" /\ IsMem(m) /\ Became(Returned(<<p, l>>, ret), m)
    /\ Fits(nopen[curr_task], cpu.eip, me) => Fits(nopen'[curr_task], <<p, l>>, m)

(* cat reads what there is, other steps of tools nothing. *)
ToolReads ==
  IF cpu.eip = <<"cat", "read">> THEN \E n \in 0 .. Len(input) : input' = SubSeq(input, n + 1, Len(input))
  ELSE input' = input

(* A tool makes a call. *)
LEMMA ToolCall ==
  ASSUME ShellInv, MemoryInv, NEW p \in {"echo", "hello", "ls", "cat"}, NEW k, At(p, k),
         NEW l, l # "main", NEW ret, NEW m, IsMem(m), store(m), ToolReads,
         ctx_open(<<p, l>>, ret) \/ ctx_other(<<p, l>>, ret) \/ (ctx_close(<<p, l>>) /\ ret = 0),
         Fits(nopen[curr_task], <<p, k>>, me) => Fits(nopen'[curr_task], <<p, l>>, m)
  PROVE  InUser /\ cpu.eip[1] = p /\ ToolReads /\ ToolGoes
<1>0. CtxInv /\ mem = [t \in Tasks |-> mem[t]]
  BY DEF ShellInv, MemoryInv
<1>1. Became(Returned(<<p, l>>, ret), m)
  BY <1>0, CallBecomes
<1>2. cpu.eip = <<p, k>> /\ InUser
  BY DEF At
<1>3. Fits(nopen[curr_task], cpu.eip, me) => Fits(nopen'[curr_task], <<p, l>>, m)
  BY <1>2
<1>4. ToolGoes
  BY <1>1, <1>3, Zenon DEF ToolGoes
<1> QED
  BY <1>2, <1>4

(* cat. *)
LEMMA CatStep ==
  ASSUME ShellInv, MemoryInv, cat
  PROVE  InUser /\ cpu.eip[1] = "cat" /\ ToolReads /\ (Left \/ ToolGoes)
<1> DEFINE n == nopen[curr_task]
<1>1. InUser
  BY DEF cat, cat_main, cat_open, cat_read, cat_close, call, leave, At
<1>2. IsMem(me) /\ input \in Seq(Char) /\ MAX_ARG \in Nat
  BY <1>1, CurrentInOrder, ShellAssumption
<1>3. /\ n \in Nat
      /\ \A next, ret : ctx_other(next, ret) => nopen'[curr_task] = n
      /\ \A next, ret : ctx_open(next, ret) => nopen'[curr_task] \in {n, n + 1}
      /\ \A next : ctx_close(next) => nopen'[curr_task] \in {n, n - 1}
  BY <1>1, CallFiles
<1>4. ASSUME NEW k PROVE IsMem([me EXCEPT !.i = k]) /\ [me EXCEPT !.i = k].i = k
                         /\ [me EXCEPT !.i = k].args = me.args
  <2>0. PICK m : m = [me EXCEPT !.i = k]
    OBVIOUS
  <2>1. m = [args |-> me.args, buf |-> me.buf, argv |-> me.argv, i |-> k, len |-> me.len,
             rp |-> me.rp, line |-> me.line]
    BY <1>2, <2>0, Zenon DEF IsMem
  <2>2. IsMem(m) /\ m.i = k /\ m.args = me.args
    BY <2>1 DEF IsMem
  <2> QED
    BY <2>0, <2>2
<1>5. \A l : At("cat", l) => cpu.eip = <<"cat", l>>
  BY DEF At
<1> DEFINE Done == InUser /\ cpu.eip[1] = "cat" /\ ToolReads /\ (Left \/ ToolGoes)
<1>6. ASSUME NEW k \in {"main", "open", "write", "close", "print"}, At("cat", k), input' = input,
             NEW l \in {"open", "read", "close", "print", "exit"}, NEW ret, NEW m, IsMem(m), store(m),
             ctx_open(<<"cat", l>>, ret) \/ ctx_other(<<"cat", l>>, ret)
               \/ (ctx_close(<<"cat", l>>) /\ ret = 0),
             Fits(n, <<"cat", k>>, me) => Fits(nopen'[curr_task], <<"cat", l>>, m)
      PROVE  Done
  <2>1. ToolReads
    BY <1>5, <1>6 DEF ToolReads
  <2> QED
    BY <1>6, <2>1, ToolCall
<1> HIDE DEF Done
<1> SUFFICES Done
  BY DEF Done
<1>7. CASE cat_main
  <2>1. PICK m : m = [me EXCEPT !.i = 1]
    OBVIOUS
  <2>2. IsMem(m) /\ m.i = 1 /\ m.args = me.args
    BY <1>4, <2>1
  <2>3. PICK l : l = IF Len(me.args) = 1 THEN "print" ELSE IF 1 < Len(me.args) THEN "open" ELSE "exit"
    OBVIOUS
  <2>4. ctx_open(<<"cat", l>>, n) /\ store(m) /\ At("cat", "main") /\ input' = input
    BY <1>7, <2>1, <2>3 DEF cat_main, cat_next
  <2>5. Fits(n, <<"cat", "main">>, me) => Fits(nopen'[curr_task], <<"cat", l>>, m)
    <3>1. nopen'[curr_task] \in {n, n + 1}
      BY <1>3, <2>4
    <3> QED
      BY <1>2, <1>3, <2>2, <2>3, <3>1 DEF Fits, InLoop
  <2> QED
    BY <1>6, <2>2, <2>3, <2>4, <2>5
<1>8. CASE cat_open
  <2>1. At("cat", "open") /\ store(me) /\ input' = input
    BY <1>8 DEF cat_open, keep
  <2>2. \/ ctx_open(<<"cat", "read">>, n)
        \/ ctx_other(<<"cat", "print">>, -1)
    BY <1>8 DEF cat_open
  <2>3. CASE ctx_open(<<"cat", "read">>, n)
    <3>1. nopen'[curr_task] \in {n, n + 1}
      BY <1>3, <2>3
    <3>2. Fits(n, <<"cat", "open">>, me) => Fits(nopen'[curr_task], <<"cat", "read">>, me)
      BY <1>2, <1>3, <3>1 DEF Fits, InLoop
    <3> QED
      BY <1>2, <1>6, <2>1, <2>3, <3>2
  <2>4. CASE ctx_other(<<"cat", "print">>, -1)
    <3>2. Fits(n, <<"cat", "open">>, me) => Fits(nopen'[curr_task], <<"cat", "print">>, me)
      BY DEF Fits, InLoop
    <3> QED
      BY <1>2, <1>6, <2>1, <2>4, <3>2
  <2> QED
    BY <2>2, <2>3, <2>4
<1>9. CASE cat_read
  <2>1. PICK count \in {IF path = CONSOLE THEN Min({BUFSIZE, Len(input)}) ELSE 0} :
          ctx_other(<<"cat", "write">>, count) /\ input' = SubSeq(input, count + 1, Len(input))
    BY <1>9 DEF cat_read
  <2>2. count \in 0 .. Len(input)
    <3>1. PICK k \in Nat : k = Len(input)
      BY <1>2
    <3>2. {BUFSIZE, k} \in SUBSET Nat /\ {BUFSIZE, k} # {}
      BY ShellAssumption
    <3>3. Min({BUFSIZE, k}) \in {BUFSIZE, k} /\ \A y \in {BUFSIZE, k} : Min({BUFSIZE, k}) <= y
      BY <3>2, MinIs
    <3>4. Min({BUFSIZE, k}) \in 0 .. k
      BY <3>2, <3>3
    <3> QED
      BY <2>1, <3>1, <3>4
  <2>3. At("cat", "read") /\ store(me)
    BY <1>9 DEF cat_read, keep
  <2>4. ToolReads
    BY <1>5, <2>1, <2>2, <2>3 DEF ToolReads
  <2>5. Fits(n, <<"cat", "read">>, me) => Fits(nopen'[curr_task], <<"cat", "write">>, me)
    <3>1. nopen'[curr_task] = n
      BY <1>3, <2>1
    <3> QED
      BY <3>1 DEF Fits, InLoop
  <2> QED
    BY <1>2, <2>1, <2>3, <2>4, <2>5, ToolCall DEF Done
<1>10. CASE cat_close
  <2>1. PICK m : m = [me EXCEPT !.i = Incremented(me.i)]
    OBVIOUS
  <2>2. IsMem(m) /\ m.i = me.i + 1 /\ m.args = me.args
    BY <1>4, <2>1 DEF Incremented
  <2>3. PICK l : l = IF me.i + 1 < Len(me.args) THEN "open" ELSE "exit"
    OBVIOUS
  <2>4. PICK ret : ctx_other(<<"cat", l>>, ret) \/ (ctx_close(<<"cat", l>>) /\ ret = 0)
    BY <1>10, <2>3 DEF cat_close, cat_next, Incremented
  <2>5. store(m) /\ At("cat", "close") /\ input' = input
    BY <1>10, <2>1 DEF cat_close
  <2>6. Fits(n, <<"cat", "close">>, me) => Fits(nopen'[curr_task], <<"cat", l>>, m)
    <3>1. nopen'[curr_task] \in {n, n - 1}
      BY <1>3, <2>4
    <3> QED
      BY <1>2, <1>3, <2>2, <2>3, <3>1 DEF Fits, InLoop
  <2> QED
    BY <1>6, <2>2, <2>3, <2>4, <2>5, <2>6
<1>11. ASSUME NEW k, NEW l, (k = "write" /\ l = "close") \/ (k = "print" /\ l = "exit"), call("cat", k, l)
       PROVE  Done
  <2>1. At("cat", k) /\ ctx_other(<<"cat", l>>, 0) /\ store(me) /\ input' = input
    BY <1>11 DEF call, keep
  <2>2. Fits(n, <<"cat", k>>, me) => Fits(nopen'[curr_task], <<"cat", l>>, me)
    <3>1. nopen'[curr_task] = n
      BY <1>3, <2>1
    <3> QED
      BY <1>11, <3>1 DEF Fits, InLoop
  <2> QED
    BY <1>2, <1>6, <1>11, <2>1, <2>2
<1>12. CASE leave("cat")
  BY <1>1, <1>5, <1>12, ExitLeaves DEF leave, Done, ToolReads
<1> QED
  BY <1>7, <1>8, <1>9, <1>10, <1>11, <1>12 DEF cat

(* echo, hello and ls. *)
LEMMA PrintStep ==
  ASSUME ShellInv, MemoryInv, echo \/ hello \/ ls
  PROVE  /\ InUser /\ cpu.eip[1] \in {"echo", "hello", "ls"}
         /\ ToolReads /\ (Left \/ ToolGoes)
<1> DEFINE Done == /\ InUser /\ cpu.eip[1] \in {"echo", "hello", "ls"}
                   /\ ToolReads /\ (Left \/ ToolGoes)
<1>1. ASSUME NEW p \in {"echo", "hello", "ls"}, NEW k,
             NEW l \in {"root", "read", "print", "exit"}, l = "root" => k = "main",
             call(p, k, l) \/ open_file(p, k, l)
      PROVE  Done
  <2>1. InUser /\ At(p, k) /\ cpu.eip = <<p, k>> /\ input' = input /\ store(me)
    BY <1>1 DEF call, open_file, keep, At
  <2>2. IsMem(me)
    BY <2>1, CurrentInOrder
  <2>3. ToolReads
    BY <1>1, <2>1 DEF ToolReads
  <2>4. PICK ret : ctx_open(<<p, l>>, ret) \/ ctx_other(<<p, l>>, ret)
    BY <1>1 DEF call, open_file
  <2>5. Fits(nopen[curr_task], <<p, k>>, me) => Fits(nopen'[curr_task], <<p, l>>, me)
    <3>1. nopen'[curr_task] \in {nopen[curr_task], nopen[curr_task] + 1} /\ nopen[curr_task] \in Nat
      BY <2>1, <2>4, CallFiles
    <3> QED
      BY <1>1, <3>1 DEF Fits, InLoop
  <2>6. l # "main" /\ p \in {"echo", "hello", "ls", "cat"}
    BY <1>1
  <2>7. InUser /\ cpu.eip[1] = p /\ ToolReads /\ ToolGoes
    BY <2>1, <2>2, <2>3, <2>4, <2>5, <2>6, ToolCall
  <2> QED
    BY <1>1, <2>7
<1>2. ASSUME NEW p \in {"echo", "hello", "ls"}, leave(p) PROVE Done
  <2>1. InUser /\ cpu.eip = <<p, "exit">> /\ input' = input /\ Left
    BY <1>2, ExitLeaves DEF leave, At
  <2> QED
    BY <1>2, <2>1 DEF ToolReads
<1> HIDE DEF Done
<1> SUFFICES Done
  BY DEF Done
<1>3. CASE echo \/ hello
  BY <1>1, <1>2, <1>3 DEF echo, hello, prints
<1>4. CASE ls
  BY <1>1, <1>2, <1>4 DEF ls
<1> QED
  BY <1>3, <1>4

(* The tools. *)
LEMMA ToolStep ==
  ASSUME ShellInv, MemoryInv, echo \/ hello \/ ls \/ cat
  PROVE  /\ InUser /\ cpu.eip[1] \in {"echo", "hello", "ls", "cat"}
         /\ ToolReads /\ (Left \/ ToolGoes)
BY CatStep, PrintStep

(* What tools leave of the input. *)
LEMMA ToolInput ==
  ASSUME MemoryInv, ToolReads
  PROVE  input' \in Seq(Char)
<1>1. input \in Seq(Char)
  BY DEF MemoryInv
<1>2. ASSUME NEW n \in 0 .. Len(input) PROVE SubSeq(input, n + 1, Len(input)) \in Seq(Char)
  <2>1. PICK k \in Nat : k = Len(input)
    BY <1>1
  <2>2. \A j \in n + 1 .. k : input[j] \in Char
    BY <1>1, <1>2, <2>1
  <2> QED
    BY <1>1, <1>2, <2>1, <2>2
<1> QED
  BY <1>1, <1>2 DEF ToolReads

(* echo, hello, ls and cat leave everybody's memory in order. *)
LEMMA ToolMemory ==
  ASSUME ShellInv, MemoryInv, echo \/ hello \/ ls \/ cat
  PROVE  MemoryInv'
<1>1. ToolReads /\ (Left \/ ToolGoes)
  BY ToolStep
<1>4. input' \in Seq(Char)
  BY <1>1, ToolInput
<1>2. CASE Left
  BY <1>2, <1>4, LeaveMemory
<1>3. CASE ToolGoes
  BY <1>3, <1>4, ToolInOrder DEF ToolGoes
<1> QED
  BY <1>1, <1>2, <1>3

(* The kernel and the keyboard. *)
LEMMA KernelMemory ==
  ASSUME ShellInv, MemoryInv, TypedInv, kernel \/ serial_irq \/ UNCHANGED shell_vars
  PROVE  MemoryInv'
<1>0. mem = [t \in Tasks |-> mem[t]] /\ input \in Seq(Char) /\ curr_task \in Tasks
  BY DEF MemoryInv, ShellInv, Inv, TypeOK
<1>1. Became(user[curr_task], me)
  <2>1. CASE ctx_wait_return /\ mem' = Surviving(mem, Blank)
    BY <1>0, <2>1, WaitReturnBecomes
  <2>2. CASE (ctx_schedule \/ ctx_timer \/ UNCHANGED <<vars, ctx_vars>>) /\ UNCHANGED mem
    BY <1>0, <2>2, IdleBecomes
  <2> QED
    BY <2>1, <2>2 DEF kernel, serial_irq, shell_vars
<1>2. input' \in Seq(Char)
  <2>1. CASE serial_irq
    <3>1. PICK line \in Lines[typed.lines + 1] : input' = input \o Append(line, NL)
      BY <2>1 DEF serial_irq
    <3>2. line \in Line
      <4>1. typed.lines + 1 \in 1 .. Len(Lines)
        <5>1. PICK n \in Nat : n = Len(Lines)
          BY ShellAssumption
        <5>2. typed.lines \in Nat /\ typed.lines < n
          BY <2>1, <5>1 DEF serial_irq, TypedInv
        <5> QED
          BY <5>1, <5>2
      <4>2. Lines[typed.lines + 1] \in SUBSET Seq(Letters \cup {SPACE})
        BY <4>1, ShellAssumption
      <4> QED
        BY <3>1, <4>2 DEF Line
    <3>3. Append(line, NL) \in Seq(Char)
      BY <3>2 DEF Line, Char
    <3> QED
      BY <1>0, <3>1, <3>3
  <2> QED
    BY <1>0, <2>1 DEF kernel, shell_vars
<1>3. Live(curr_task) =>
        /\ Sound(me, user[curr_task].eip)
        /\ curr_task # init_task => Started(me, user[curr_task].eip)
  BY <1>0 DEF MemoryInv, InOrder, me
<1> QED
  BY <1>1, <1>2, <1>3, BecameInOrder

(* Every step leaves the memory of programs in order. *)
LEMMA MemoryStep ==
  ASSUME ShellInv, MemoryInv, TypedInv, [ShellNext]_shell_vars
  PROVE  MemoryInv' /\ TypedInv'
<1>1. MemoryInv'
  <2>1. CASE init \/ sh_execv
    BY <2>1, ExecMemory
  <2>2. CASE sh_main \/ sh_prompt \/ sh_execv_fails \/ sh_wait \/ call("sh", "failed", "exit")
    BY <2>2, PromptMemory
  <2>3. CASE sh_read_nothing \/ sh_read \/ sh_read_last
    BY <2>3, ReadMemory
  <2>4. CASE sh_token \/ sh_token_end
    BY <2>4, TokenMemory
  <2>5. CASE sh_fork
    BY <2>5, ForkMemory
  <2>6. CASE leave("sh")
    <3>1. Left /\ input' \in Seq(Char)
      BY <2>6, ExitLeaves DEF leave, MemoryInv
    <3> QED
      BY <3>1, LeaveMemory
  <2>7. CASE echo \/ hello \/ ls \/ cat
    BY <2>7, ToolMemory
  <2>8. CASE kernel \/ serial_irq \/ UNCHANGED shell_vars
    BY <2>8, KernelMemory
  <2> QED
    BY <2>1, <2>2, <2>3, <2>4, <2>5, <2>6, <2>7, <2>8, Zenon DEF ShellNext, user_programs, sh
<1>2. TypedInv'
  <2>1. CASE UNCHANGED typed
    BY <2>1 DEF TypedInv
  <2>2. CASE serial_irq
    <3>1. PICK line : /\ line \in ShellLines => typed.shells < NEST
                      /\ typed' = [lines |-> typed.lines + 1,
                           shells |-> typed.shells + (IF line \in ShellLines THEN 1 ELSE 0),
                           failing |-> typed.failing + (IF line \in FailingLines THEN 1 ELSE 0)]
      BY <2>2 DEF serial_irq
    <3>2. NEST \in Nat
      BY ShellAssumption
    <3> QED
      BY <3>1, <3>2 DEF TypedInv
  <2> QED
    BY <2>1, <2>2, Zenon DEF ShellNext, user_programs, kernel, shell_vars
<1> QED
  BY <1>1, <1>2

(* init starts with nothing typed. *)
LEMMA MemoryInit == ShellInit => MemoryInv /\ TypedInv
<1> SUFFICES ASSUME ShellInit PROVE MemoryInv /\ TypedInv
  OBVIOUS
<1>1. /\ mem = [t \in Tasks |-> Blank] /\ input = <<>>
      /\ typed = [lines |-> 0, shells |-> 0, failing |-> 0]
      /\ user = [t \in Tasks |-> IF t = init_task THEN [eip |-> <<"init", "main">>, eax |-> 0, esp |-> USTACK]
                                 ELSE NoRegs]
  BY DEF ShellInit, CtxInit, build_int_frame, e_entry
<1>2. \A t \in Tasks : user[t].eip = IF t = init_task THEN <<"init", "main">> ELSE <<"", "">>
  BY <1>1 DEF NoRegs
<1>3. IsMem(Blank)
  BY DEF IsMem, Blank, Fresh
<1>4. Sound(Blank, <<"init", "main">>) /\ Sound(Blank, <<"", "">>) /\ Started(Blank, <<"", "">>)
  <2> HIDE DEF Blank
  <2> QED
    BY <1>3 DEF Sound, Started
<1>5. \A t \in Tasks : InOrder(t)
  BY <1>1, <1>2, <1>4 DEF InOrder
<1>6. MemoryInv
  BY <1>1, <1>5 DEF MemoryInv
<1>7. TypedInv
  BY <1>1, ShellAssumption DEF TypedInv
<1> QED
  BY <1>6, <1>7

(* A shell that goes on at a place inside sh has nothing to open. *)
LEMMA GoesHeld ==
  ASSUME ShellInv, FilesHeld, [ShellNext]_shell_vars, NEW l, l # "main", NEW m, Goes(l, m)
  PROVE  FilesHeld'
<1>1. PICK r : r.eip = <<"sh", l>> /\ Became(r, m)
  BY DEF Goes
<1>2. Fits(nopen'[curr_task], r.eip, m)
  BY <1>1 DEF Fits, InLoop
<1> QED
  BY <1>1, <1>2, BecameHeld

(* A program that execv starts has no file open. *)
LEMMA ExecHeld ==
  ASSUME ShellInv, MemoryInv, FilesHeld, [ShellNext]_shell_vars, init \/ sh_execv
  PROVE  FilesHeld'
<1>0. InUser
  BY DEF init, sh_execv, At
<1>1. PICK p, esp, m : /\ ctx_execv(p, esp)
                       /\ Became([eip |-> <<p, "main">>, eax |-> 0, esp |-> esp], m)
                       /\ p = "cat" => Len(m.args) \in 0 .. MAX_ARG - 1
  <2>1. CASE init
    <3>1. PICK stack : exec("sh", stack)
      BY <2>1 DEF init
    <3>2. \E m : Became([eip |-> <<"sh", "main">>, eax |-> 0, esp |-> stack.esp], m)
      BY <1>0, <3>1, ExecBecomes
    <3>3. ctx_execv("sh", stack.esp)
      BY <3>1 DEF exec
    <3>4. "sh" # "cat"
      OBVIOUS
    <3> QED
      BY <3>2, <3>3, <3>4, Zenon
  <2>2. CASE sh_execv
    BY <2>2, ShExecs
  <2> QED
    BY <2>1, <2>2
<1>2. nopen'[curr_task] = 0
  BY <1>0, <1>1, CallFiles
<1>3. PICK r : r = [eip |-> <<p, "main">>, eax |-> 0, esp |-> esp]
  OBVIOUS
<1>4. Fits(nopen'[curr_task], r.eip, m)
  BY <1>1, <1>2, <1>3 DEF Fits, InLoop
<1> QED
  BY <1>1, <1>3, <1>4, BecameHeld

(* fork leaves parent and child in sh. *)
LEMMA ForkHeld ==
  ASSUME ShellInv, MemoryInv, FilesHeld, [ShellNext]_shell_vars, sh_fork
  PROVE  FilesHeld'
<1>0. InUser /\ cpu.eip = <<"sh", "fork">>
  BY DEF sh_fork, At
<1>1. mem = [t \in Tasks |-> mem[t]] /\ Childless
  BY <1>0 DEF MemoryInv, Childless
<1>2. PICK tp \in Tasks : Spawned(tp, <<"sh", "forked">>)
  BY <1>1, ForkSpawns DEF sh_fork
<1> SUFFICES ASSUME NEW t \in Tasks \ {scheduler_task}, Live(t)'
             PROVE  Fits(nopen'[t], user'[t].eip, mem'[t])
  BY DEF FilesHeld, Fits, InLoop
<1>3. CASE t = curr_task \/ t = tp
  <2>1. user'[t].eip = <<"sh", "forked">>
    BY <1>2, <1>3 DEF Spawned, Returned
  <2> QED
    BY <2>1 DEF Fits, InLoop
<1>4. CASE t # curr_task /\ t # tp
  <2>1. Live(t) /\ user'[t] = user[t] /\ mem'[t] = mem[t]
    BY <1>2, <1>4 DEF Spawned
  <2>2. nopen'[t] = nopen[t]
    BY <1>4, <2>1, OtherFiles
  <2>3. Fits(nopen[t], user[t].eip, mem[t])
    BY <2>1 DEF FilesHeld
  <2> QED
    BY <2>1, <2>2, <2>3
<1> QED
  BY <1>3, <1>4

(* exit. *)
LEMMA LeaveHeld ==
  ASSUME ShellInv, FilesHeld, [ShellNext]_shell_vars, Left
  PROVE  FilesHeld'
<1> SUFFICES ASSUME NEW t \in Tasks \ {scheduler_task}, Live(t)'
             PROVE  Fits(nopen'[t], user'[t].eip, mem'[t])
  BY DEF FilesHeld, Fits, InLoop
<1>1. Live(t) /\ t # curr_task /\ user'[t] = user[t] /\ mem'[t] = mem[t]
  BY DEF Left
<1>2. nopen'[t] = nopen[t]
  BY <1>1, OtherFiles
<1>3. Fits(nopen[t], user[t].eip, mem[t])
  BY <1>1 DEF FilesHeld
<1> QED
  BY <1>1, <1>2, <1>3

(* A tool goes on. *)
LEMMA ToolHeld ==
  ASSUME ShellInv, MemoryInv, FilesHeld, [ShellNext]_shell_vars, echo \/ hello \/ ls \/ cat
  PROVE  FilesHeld'
<1>1. InUser /\ (Left \/ ToolGoes)
  BY ToolStep
<1>2. CASE ToolGoes
  <2>1. PICK p, l, ret, m :
          /\ Became(Returned(<<p, l>>, ret), m)
          /\ Fits(nopen[curr_task], cpu.eip, me) => Fits(nopen'[curr_task], <<p, l>>, m)
    BY <1>2, Zenon DEF ToolGoes
  <2>2. Fits(nopen[curr_task], cpu.eip, me)
    <3>1. curr_task \in Tasks \ {scheduler_task} /\ Live(curr_task) /\ cpu = user[curr_task]
      BY <1>1, CurrentInOrder
    <3> QED
      BY <3>1 DEF FilesHeld, me
  <2>3. Returned(<<p, l>>, ret).eip = <<p, l>>
    BY DEF Returned
  <2>4. PICK r : r = Returned(<<p, l>>, ret)
    OBVIOUS
  <2> QED
    BY <2>1, <2>2, <2>3, <2>4, BecameHeld
<1> QED
  BY <1>1, <1>2, LeaveHeld

(* The kernel and the keyboard. *)
LEMMA KernelHeld ==
  ASSUME ShellInv, MemoryInv, FilesHeld, [ShellNext]_shell_vars,
         kernel \/ serial_irq \/ UNCHANGED shell_vars
  PROVE  FilesHeld'
<1>0. mem = [t \in Tasks |-> mem[t]] /\ curr_task \in Tasks
  BY DEF MemoryInv, ShellInv, Inv, TypeOK
<1>1. Became(user[curr_task], me)
  <2>1. CASE ctx_wait_return /\ mem' = Surviving(mem, Blank)
    BY <1>0, <2>1, WaitReturnBecomes
  <2>2. CASE (ctx_schedule \/ ctx_timer \/ UNCHANGED <<vars, ctx_vars>>) /\ UNCHANGED mem
    BY <1>0, <2>2, IdleBecomes
  <2> QED
    BY <2>1, <2>2 DEF kernel, serial_irq, shell_vars
<1>2. nopen'[curr_task] = nopen[curr_task]
  <2>1. CASE ctx_wait_return
    <3>1. state[curr_task] # "ZOMBIE" /\ kill_off_zombies(state, parent, nopen)
      BY <2>1 DEF ctx_wait_return, sys_wait_return, ShellInv, Inv, TypeOK, OneRunning
    <3> QED
      BY <1>0, <3>1, LiveFiles
  <2>2. CASE ctx_schedule \/ ctx_timer \/ UNCHANGED <<vars, ctx_vars>>
    BY <2>2 DEF ctx_schedule, ctx_timer, schedule, timer_irq, vars
  <2> QED
    BY <2>1, <2>2 DEF kernel, serial_irq, shell_vars
<1>3. Live(curr_task) /\ curr_task # scheduler_task =>
        Fits(nopen'[curr_task], user[curr_task].eip, me)
  BY <1>0, <1>2 DEF FilesHeld, me
<1> QED
  BY <1>1, <1>3, BecameHeld

(* Files fit after every step. *)
LEMMA FilesStep ==
  ASSUME ShellInv, MemoryInv, TypedInv, FilesHeld, [ShellNext]_shell_vars
  PROVE  FilesHeld'
<1>1. CASE init \/ sh_execv
  BY <1>1, ExecHeld
<1>2. CASE sh_main \/ sh_prompt \/ sh_execv_fails \/ sh_wait \/ call("sh", "failed", "exit")
           \/ sh_read_nothing \/ sh_read \/ sh_read_last \/ sh_token \/ sh_token_end
  <2>1. ASSUME NEW l \in {"prompt", "read", "token", "fork", "failed", "exit"}, NEW m, Goes(l, m)
        PROVE  FilesHeld'
    BY <2>1, GoesHeld
  <2>2. CASE sh_main \/ sh_prompt \/ sh_execv_fails \/ sh_wait \/ call("sh", "failed", "exit")
    BY <2>1, <2>2, ShGoes
  <2>3. CASE sh_read_nothing \/ sh_read \/ sh_read_last
    BY <2>1, <2>3, ShGoes
  <2>4. CASE sh_token \/ sh_token_end
    BY <2>1, <2>4, ShGoes
  <2> QED
    BY <1>2, <2>2, <2>3, <2>4
<1>3. CASE sh_fork
  BY <1>3, ForkHeld
<1>4. CASE leave("sh")
  BY <1>4, ExitLeaves, LeaveHeld DEF leave
<1>5. CASE echo \/ hello \/ ls \/ cat
  BY <1>5, ToolHeld
<1>6. CASE kernel \/ serial_irq \/ UNCHANGED shell_vars
  BY <1>6, KernelHeld
<1> QED
  BY <1>1, <1>2, <1>3, <1>4, <1>5, <1>6, Zenon DEF ShellNext, user_programs, sh

(* init starts with no file open. *)
LEMMA FilesInit == ASSUME ShellInit PROVE FilesHeld
<1>1. /\ nopen = [t \in Tasks |-> 0]
      /\ user = [t \in Tasks |-> IF t = init_task THEN [eip |-> <<"init", "main">>, eax |-> 0, esp |-> USTACK]
                                 ELSE NoRegs]
  BY DEF ShellInit, CtxInit, init_tasks, build_int_frame, e_entry
<1>2. \A t \in Tasks : Live(t) /\ t # scheduler_task => t = init_task
  BY DEF ShellInit, CtxInit, init_tasks, Live
<1>3. \A m : Fits(0, <<"init", "main">>, m)
  BY DEF Fits, InLoop
<1> QED
  BY <1>1, <1>2, <1>3 DEF FilesHeld

(* There is room for what a program opens. *)
LEMMA RoomIs ==
  ASSUME ShellInv, MemoryInv, FilesHeld, MAX_OPEN_FILES >= 2, MAX_OPEN_FILES >= MAX_ARG - 1
  PROVE  Room
<1> SUFFICES ASSUME InUser, Opens(cpu.eip) PROVE nopen[curr_task] < MAX_OPEN_FILES
  BY DEF Room
<1>1. curr_task \in Tasks \ {scheduler_task} /\ Live(curr_task) /\ cpu = user[curr_task]
  BY CurrentInOrder
<1>2. Fits(nopen[curr_task], cpu.eip, me) /\ nopen[curr_task] \in Nat
  BY <1>1 DEF FilesHeld, me, ShellInv, Inv, TypeOK
<1>3. CASE cpu.eip[2] = "main" \/ cpu.eip = <<"ls", "root">>
  BY <1>2, <1>3 DEF Fits
<1>4. CASE cpu.eip = <<"cat", "open">>
  BY <1>2, <1>4, ShellAssumption DEF Fits, InLoop
<1> QED
  BY <1>3, <1>4 DEF Opens

(* All of this holds always. *)
LEMMA ShellAlways ==
  ASSUME MAX_OPEN_FILES >= 2, MAX_OPEN_FILES >= MAX_ARG - 1
  PROVE  ShellSpec => [](ShellInv /\ MemoryInv /\ TypedInv /\ FilesHeld)
<1>1. ShellSpec => []Core
  BY ShellImplementsProc, CoreAlways, PTL
<1>2. ShellInit => ShellInv /\ MemoryInv /\ TypedInv /\ FilesHeld
  BY ShellInitInv, MemoryInit, FilesInit
<1>3. ASSUME ShellInv /\ MemoryInv /\ TypedInv /\ FilesHeld, Core', [ShellNext]_shell_vars
      PROVE  (ShellInv /\ MemoryInv /\ TypedInv /\ FilesHeld)'
  <2>1. Room
    BY <1>3, RoomIs
  <2> QED
    BY <1>3, <2>1, ShellInvStep, MemoryStep, FilesStep
<1> QED
  BY <1>1, <1>2, <1>3, PTL DEF ShellSpec

(* The chain of tasks holds always, and every program has room for the     *)
(* files it still has to open.                                             *)
THEOREM ShellSafety ==
  ASSUME MAX_OPEN_FILES >= 2, MAX_OPEN_FILES >= MAX_ARG - 1
  PROVE  ShellSpec => [](ShellInv /\ Room)
<1>1. ShellInv /\ MemoryInv /\ FilesHeld => ShellInv /\ Room
  BY RoomIs
<1> QED
  BY <1>1, ShellAlways, PTL

(* A program finds its registers as it left them, in the system of sh and  *)
(* the tools as well: context switch, frames and stacks.                   *)
THEOREM ProgramsResumeIntact ==
  ASSUME MAX_OPEN_FILES >= 2, MAX_OPEN_FILES >= MAX_ARG - 1
  PROVE  ShellSpec => []ResumesIntact
<1>1. ShellInv => ResumesIntact
  BY DEF ShellInv, CtxInv
<1> QED
  BY <1>1, ShellAlways, PTL

(* No program of user/ overruns open_files: wakeup_parent always finds the *)
(* parent it asserts.                                                      *)
THEOREM ToolsHaveParents ==
  ASSUME MAX_OPEN_FILES >= 2, MAX_OPEN_FILES >= MAX_ARG - 1
  PROVE  ShellSpec => []ParentIsTask
<1>1. ShellInv => ParentIsTask
  BY DEF ShellInv
<1> QED
  BY <1>1, ShellAlways, PTL

(* Nested shells never wait for each other in a ring, though nothing in    *)
(* the kernel keeps programs from leaving orphans behind.                  *)
THEOREM ShellsNeverWaitInRing ==
  ASSUME MAX_OPEN_FILES >= 2, MAX_OPEN_FILES >= MAX_ARG - 1
  PROVE  ShellSpec => []NoWaitCycle
<1>1. ShellInv => NoWaitCycle
  BY AncestryNoCycle DEF ShellInv
<1> QED
  BY <1>1, ShellAlways, PTL

(* A shell that prompts or reads has no child: what it started has exited  *)
(* and was reaped by its wait.                                             *)
THEOREM ShellHasConsole ==
  ASSUME MAX_OPEN_FILES >= 2, MAX_OPEN_FILES >= MAX_ARG - 1
  PROVE  ShellSpec => []Foreground
<1>1. ShellInv => Foreground
  <2> SUFFICES ASSUME ShellInv, NEW t \in Tasks, NEW c \in Tasks, parent[c] = t,
                      Stands(t, "sh", "prompt") \/ Stands(t, "sh", "read")
               PROVE  FALSE
    BY DEF Foreground
  <2>1. Forked(user[t], c)
    BY DEF ShellInv, Tree, AwaitsChild, Stands
  <2> QED
    BY <2>1 DEF Forked, Stands
<1> QED
  BY <1>1, ShellAlways, PTL

(* tokenize finds the words of every line that sh reads: when it forks,     *)
(* argv points to them, and it only goes back to the prompt when the line   *)
(* has none or too many.                                                    *)
THEOREM TokenizeFindsWords ==
  ASSUME MAX_OPEN_FILES >= 2, MAX_OPEN_FILES >= MAX_ARG - 1
  PROVE  ShellSpec => []TokensAreWords
<1>1. MemoryInv => TokensAreWords
  <2> SUFFICES ASSUME MemoryInv, NEW t \in Tasks
               PROVE  /\ Stands(t, "sh", "fork") => Strings(mem[t].buf, mem[t].argv) = Words(Kept(mem[t].line))
                      /\ Stands(t, "sh", "prompt") /\ mem[t].argv = <<>> =>
                           Len(Words(Kept(mem[t].line))) \notin 1 .. MAX_ARG - 1
    BY DEF TokensAreWords
  <2>1. \A l : Stands(t, "sh", l) => user[t].eip = <<"sh", l>> /\ Live(t)
    BY DEF Stands, Live
  <2>2. Live(t) => Sound(mem[t], user[t].eip)
    BY DEF MemoryInv, InOrder
  <2>3. CASE Stands(t, "sh", "fork")
    BY <2>1, <2>2, <2>3 DEF Sound, Tokenized, Stands
  <2>4. CASE Stands(t, "sh", "prompt")
    BY <2>1, <2>2, <2>4 DEF Sound, Stands
  <2> QED
    BY <2>3, <2>4
<1> QED
  BY <1>1, ShellAlways, PTL

(* tokenize, fork, exec and prepare_ustack together: a program starts with  *)
(* argc and argv equal to the words of the line that was typed for it.      *)
THEOREM ArgumentsArrive ==
  ASSUME MAX_OPEN_FILES >= 2, MAX_OPEN_FILES >= MAX_ARG - 1
  PROVE  ShellSpec => []ArgsArrive
<1>1. MemoryInv => ArgsArrive
  <2> SUFFICES ASSUME MemoryInv, NEW t \in Tasks \ {init_task}, NEW p \in Programs,
                      Stands(t, p, "main")
               PROVE  LET w == Words(Kept(mem[t].line)) IN
                      \/ Elf[w[1]] = p /\ mem[t].args = Copied(w)
                      \/ Elf[w[1]] = "init" /\ p = "sh" /\ mem[t].args = <<>>
    BY DEF ArgsArrive
  <2>1. user[t].eip = <<p, "main">> /\ Live(t)
    BY DEF Stands, Live
  <2>2. Started(mem[t], user[t].eip)
    BY <2>1 DEF MemoryInv, InOrder
  <2> QED
    BY <2>1, <2>2 DEF Started
<1> QED
  BY <1>1, ShellAlways, PTL

-----------------------------------------------------------------------------
(* Lines that nobody has taken.                                            *)

(* A line of the stream s, or the end of one, from behind b to before the   *)
(* newline at k.                                                           *)
Segment(s, b, k) == s[k] = NL /\ \A j \in b + 1 .. k - 1 : s[j] # NL

(* The ends of the lines that start a shell, whole or after a cat has read *)
(* the beginning.                                                          *)
Pending(s) ==
  {k \in 1 .. Len(s) : \E b \in 0 .. k - 1 : Segment(s, b, k) /\ StartsShell(Piece(s, b + 1, k - 1))}

(* A line that does not fit into buf starts no shell, wherever it is cut. *)
Tame(s, b, k) ==
  k - b >= BUFSIZE => \A x \in b + 1 .. k : \A y \in b .. k - 1 : ~StartsShell(Piece(s, x, y))

(* Lines one after the other, each with its newline. *)
Whole(s) ==
  /\ s \in Seq(Char) /\ (Len(s) # 0 => s[Len(s)] = NL)
  /\ \A k \in 1 .. Len(s) : \A b \in 0 .. k - 1 : Segment(s, b, k) => Tame(s, b, k)

(* The shells that a text starts. *)
Count(text) == IF StartsShell(text) THEN 1 ELSE 0

(* The shells that a line may start. *)
Announced(line) == IF \E p \in Pieces(line) : StartsShell(p) THEN 1 ELSE 0

(* They are finitely many. *)
LEMMA PendingFinite ==
  ASSUME NEW s \in Seq(Char)
  PROVE  /\ IsFiniteSet(Pending(s)) /\ Cardinality(Pending(s)) \in Nat
         /\ Pending(s) \in SUBSET Nat
<1>1. PICK n \in Nat : n = Len(s)
  OBVIOUS
<1>2. IsFiniteSet(1 .. n)
  BY FS_Interval
<1>3. Pending(s) \in SUBSET (1 .. n)
  BY <1>1 DEF Pending
<1>4. IsFiniteSet(Pending(s))
  BY <1>2, <1>3, FS_Subset, Zenon
<1>5. Pending(s) \in SUBSET Nat
  BY <1>3
<1> QED
  BY <1>4, <1>5, FS_CardinalityType

(* A set is not larger than the one it is shifted into. *)
LEMMA ShiftedInto ==
  ASSUME NEW d \in Nat, NEW A \in SUBSET Nat, NEW B \in SUBSET Nat, IsFiniteSet(B),
         \A k \in A : k + d \in B
  PROVE  Cardinality(A) <= Cardinality(B)
<1> DEFINE f == [k \in A |-> k + d]
<1>1. f \in [A -> B]
  OBVIOUS
<1>2. \A x, y \in A : f[x] = f[y] => x = y
  OBVIOUS
<1> HIDE DEF f
<1>3. f \in Injection(A, B)
  BY <1>1, <1>2 DEF Injection, IsInjective
<1> QED
  BY <1>3, FS_Injection

(* A line is typed. *)
LEMMA StreamGrows ==
  ASSUME NEW s, Whole(s), NEW line \in Line, IsLong(line) => Announced(line) = 0,
         NEW r, r = s \o Append(line, NL)
  PROVE  Whole(r) /\ Cardinality(Pending(r)) <= Cardinality(Pending(s)) + Announced(line)
<1>0. s \in Seq(Char) /\ NL \in Char /\ BUFSIZE \in Nat
  BY ShellAssumption DEF Whole, Char
<1>1. PICK n \in Nat : n = Len(s)
  BY <1>0
<1>2. PICK l \in Nat : l = Len(line)
  BY DEF Line
<1> DEFINE t == Append(line, NL)
           e == n + l + 1
<1>3. /\ t \in Seq(Char) /\ Len(t) = l + 1 /\ t[l + 1] = NL
      /\ \A i \in 1 .. l : t[i] = line[i] /\ line[i] \in Letters \cup {SPACE}
  BY <1>0, <1>2 DEF Line, Char
<1> HIDE DEF t
<1>4. \A i \in 1 .. l : line[i] # NL
  BY <1>3, ShellAssumption
<1>5. r \in Seq(Char) /\ Len(r) = e /\ \A i \in 1 .. e : r[i] = IF i <= n THEN s[i] ELSE t[i - n]
  <2>1. r = s \o t
    BY DEF t
  <2>2. r \in Seq(Char) /\ Len(r) = n + (l + 1)
    <3>1. s \o t \in Seq(Char) /\ Len(s \o t) = Len(s) + Len(t)
      BY <1>0, <1>3, ConcatProperties
    <3> QED
      BY <1>1, <1>3, <2>1, <3>1
  <2>3. \A i \in 1 .. n + (l + 1) : r[i] = IF i <= n THEN s[i] ELSE t[i - n]
    BY <1>0, <1>1, <1>3, <2>1
  <2> QED
    BY <2>2, <2>3
<1>6. /\ \A i \in 1 .. n : r[i] = s[i]
      /\ \A i \in 1 .. l : r[n + i] = line[i] /\ r[n + i] # NL
      /\ r[e] = NL
  <2>1. \A i \in 1 .. n : i \in 1 .. e /\ i <= n
    OBVIOUS
  <2>2. \A i \in 1 .. l : n + i \in 1 .. e /\ ~(n + i <= n) /\ (n + i) - n = i
    OBVIOUS
  <2>3. e \in 1 .. e /\ ~(e <= n) /\ e - n = l + 1
    OBVIOUS
  <2> HIDE DEF e
  <2>4. \A i \in 1 .. n : r[i] = s[i]
    BY <1>5, <2>1
  <2>5. \A i \in 1 .. l : r[n + i] = t[i]
    BY <1>5, <2>2
  <2>6. r[e] = t[l + 1]
    BY <1>5, <2>3
  <2> QED
    BY <1>3, <1>4, <2>4, <2>5, <2>6
<1>7. n # 0 => s[n] = NL
  BY <1>1 DEF Whole
<1>8. \A x \in 1 .. n : \A y \in 0 .. n : Piece(r, x, y) = Piece(s, x, y)
  <2> TAKE x \in 1 .. n
  <2> TAKE y \in 0 .. n
  <2>1. \A i \in 1 .. y - x + 1 : x + i - 1 \in 1 .. n
    OBVIOUS
  <2> QED
    BY <1>6, <2>1 DEF Piece
<1>9. \A x \in 1 .. l + 1 : \A y \in 0 .. l : Piece(r, n + x, n + y) = Piece(line, x, y)
  <2> TAKE x \in 1 .. l + 1
  <2> TAKE y \in 0 .. l
  <2>1. (n + y) - (n + x) + 1 = y - x + 1
    OBVIOUS
  <2>2. \A i \in 1 .. y - x + 1 : x + i - 1 \in 1 .. l /\ (n + x) + i - 1 = n + (x + i - 1)
    OBVIOUS
  <2>3. \A i \in 1 .. y - x + 1 : r[(n + x) + i - 1] = line[x + i - 1]
    BY <1>6, <2>2
  <2> QED
    BY <2>1, <2>3 DEF Piece
<1>10. ASSUME NEW k \in 1 .. n, NEW b \in 0 .. k - 1, Segment(r, b, k)
       PROVE  Segment(s, b, k)
  <2>1. k \in 1 .. n /\ \A j \in b + 1 .. k - 1 : j \in 1 .. n
    OBVIOUS
  <2> QED
    BY <1>6, <1>10, <2>1 DEF Segment
<1>11. ASSUME NEW k \in 1 .. e, ~(k <= n), NEW b \in 0 .. k - 1, Segment(r, b, k)
       PROVE  k = e /\ b >= n
  <2>1. k = e
    <3> SUFFICES ASSUME k # e PROVE FALSE
      OBVIOUS
    <3>1. k - n \in 1 .. l /\ n + (k - n) = k
      BY <1>11
    <3> QED
      BY <1>6, <1>11, <3>1 DEF Segment
  <2>2. ~(b < n)
    <3> SUFFICES ASSUME b < n PROVE FALSE
      OBVIOUS
    <3>1. n \in b + 1 .. k - 1 /\ n # 0 /\ n \in 1 .. n
      BY <1>11
    <3> QED
      BY <1>6, <1>7, <1>11, <3>1 DEF Segment
  <2> QED
    BY <2>1, <2>2
<1>12. ASSUME NEW x \in 1 .. l + 1, NEW y \in 0 .. l, StartsShell(Piece(line, x, y)),
              IsLong(line) \/ y = l
       PROVE  Announced(line) = 1
  <2>1. x \in 1 .. Len(line) + 1
        /\ y \in IF IsLong(line) THEN 0 .. Len(line) ELSE {Len(line)}
    BY <1>2, <1>12
  <2>2. Piece(line, x, y) \in Pieces(line)
    BY <2>1 DEF Pieces
  <2> QED
    BY <1>12, <2>2 DEF Announced
<1>13. Whole(r)
  <2>1. ASSUME NEW k \in 1 .. e, NEW b \in 0 .. k - 1, Segment(r, b, k) PROVE Tame(r, b, k)
    <3>1. CASE k <= n
      <4>1. k \in 1 .. n /\ k \in 1 .. Len(s)
        BY <1>1, <3>1
      <4>2. Tame(s, b, k)
        BY <1>10, <2>1, <4>1 DEF Whole
      <4>3. \A x \in b + 1 .. k : \A y \in b .. k - 1 : x \in 1 .. n /\ y \in 0 .. n
        BY <4>1
      <4> QED
        BY <1>8, <4>2, <4>3 DEF Tame
    <3>2. CASE ~(k <= n)
      <4>1. k = e /\ b >= n
        BY <1>11, <2>1, <3>2
      <4> SUFFICES ASSUME k - b >= BUFSIZE, NEW x \in b + 1 .. k, NEW y \in b .. k - 1
                   PROVE  ~StartsShell(Piece(r, x, y))
        BY DEF Tame
      <4>2. /\ x - n \in 1 .. l + 1 /\ y - n \in 0 .. l /\ n + (x - n) = x /\ n + (y - n) = y
            /\ l >= BUFSIZE - 1
        BY <1>0, <4>1
      <4>3. IsLong(line) /\ Announced(line) # 1
        BY <1>2, <4>2 DEF IsLong
      <4>4. ~StartsShell(Piece(line, x - n, y - n))
        BY <1>12, <4>2, <4>3
      <4> QED
        BY <1>9, <4>2, <4>4
    <3> QED
      BY <3>1, <3>2
  <2> HIDE DEF e
  <2>2. Len(r) # 0 => r[Len(r)] = NL
    BY <1>5, <1>6
  <2> QED
    BY <1>5, <2>1, <2>2 DEF Whole
<1>14. ASSUME NEW k \in Pending(r) PROVE k \in Pending(s) \/ (k = e /\ Announced(line) = 1)
  <2>1. k \in 1 .. e
    BY <1>5 DEF Pending
  <2>2. PICK b \in 0 .. k - 1 : Segment(r, b, k) /\ StartsShell(Piece(r, b + 1, k - 1))
    BY DEF Pending
  <2>3. CASE k <= n
    <3>1. k \in 1 .. n /\ k \in 1 .. Len(s) /\ b + 1 \in 1 .. n /\ k - 1 \in 0 .. n
      BY <1>1, <2>1, <2>3
    <3>2. Segment(s, b, k)
      BY <1>10, <2>2, <3>1
    <3>3. Piece(r, b + 1, k - 1) = Piece(s, b + 1, k - 1)
      BY <1>8, <3>1
    <3> QED
      BY <2>2, <3>1, <3>2, <3>3 DEF Pending
  <2>4. CASE ~(k <= n)
    <3>1. k = e /\ b >= n
      BY <1>11, <2>1, <2>2, <2>4
    <3>2. /\ b + 1 - n \in 1 .. l + 1 /\ l \in 0 .. l
          /\ n + (b + 1 - n) = b + 1 /\ k - 1 = n + l
      BY <3>1
    <3>3. StartsShell(Piece(line, b + 1 - n, l))
      BY <1>9, <2>2, <3>2
    <3> QED
      BY <1>12, <3>1, <3>2, <3>3
  <2> QED
    BY <2>3, <2>4
<1>15. Cardinality(Pending(r)) <= Cardinality(Pending(s)) + Announced(line)
  <2>0. /\ IsFiniteSet(Pending(s)) /\ IsFiniteSet(Pending(r))
        /\ Cardinality(Pending(s)) \in Nat /\ Cardinality(Pending(r)) \in Nat
    BY <1>0, <1>5, PendingFinite
  <2>1. CASE Announced(line) = 1
    <3>1. Pending(r) \in SUBSET (Pending(s) \cup {e})
      BY <1>14
    <3>2. /\ IsFiniteSet(Pending(s) \cup {e})
          /\ Cardinality(Pending(s) \cup {e}) =
               IF e \in Pending(s) THEN Cardinality(Pending(s)) ELSE Cardinality(Pending(s)) + 1
      BY <2>0, FS_AddElement
    <3>3. Cardinality(Pending(r)) <= Cardinality(Pending(s) \cup {e})
      BY <3>1, <3>2, FS_Subset, Zenon
    <3> QED
      BY <2>0, <2>1, <3>2, <3>3
  <2>2. CASE Announced(line) = 0
    <3>1. Pending(r) \in SUBSET Pending(s)
      BY <1>14, <2>2
    <3>2. Cardinality(Pending(r)) <= Cardinality(Pending(s))
      BY <2>0, <3>1, FS_Subset, Zenon
    <3> QED
      BY <2>0, <2>2, <3>2
  <2> QED
    BY <2>1, <2>2 DEF Announced
<1> QED
  BY <1>13, <1>15

(* The first characters of the lines are taken. *)
LEMMA StreamCut ==
  ASSUME NEW s, Whole(s), NEW d \in Nat, NEW r \in Seq(Char), Len(s) = Len(r) + d,
         \A i \in 1 .. Len(r) : r[i] = s[d + i]
  PROVE  Whole(r) /\ \A k \in Pending(r) : k \in Nat \ {0} /\ k + d \in Pending(s)
<1>0. s \in Seq(Char) /\ BUFSIZE \in Nat
  BY ShellAssumption DEF Whole
<1>1. PICK n \in Nat : n = Len(r)
  OBVIOUS
<1>2. Len(s) = n + d /\ \A i \in 1 .. n : r[i] = s[d + i]
  BY <1>1
<1>3. \A x \in 1 .. n + 1 : \A y \in 0 .. n : Piece(r, x, y) = Piece(s, d + x, d + y)
  <2> TAKE x \in 1 .. n + 1
  <2> TAKE y \in 0 .. n
  <2>1. (d + y) - (d + x) + 1 = y - x + 1
    OBVIOUS
  <2>2. \A i \in 1 .. y - x + 1 : x + i - 1 \in 1 .. n /\ (d + x) + i - 1 = d + (x + i - 1)
    OBVIOUS
  <2>3. \A i \in 1 .. y - x + 1 : s[(d + x) + i - 1] = r[x + i - 1]
    BY <1>2, <2>2
  <2> QED
    BY <2>1, <2>3 DEF Piece
<1>4. ASSUME NEW k \in 1 .. n, NEW b \in 0 .. k - 1, Segment(r, b, k)
      PROVE  Segment(s, d + b, d + k)
  <2>1. s[d + k] = NL
    BY <1>2, <1>4 DEF Segment
  <2>2. \A j \in (d + b) + 1 .. (d + k) - 1 : s[j] # NL
    <3> TAKE j \in (d + b) + 1 .. (d + k) - 1
    <3>1. j - d \in b + 1 .. k - 1 /\ j - d \in 1 .. n /\ d + (j - d) = j
      OBVIOUS
    <3> QED
      BY <1>2, <1>4, <3>1 DEF Segment
  <2> QED
    BY <2>1, <2>2 DEF Segment
<1>5. ASSUME NEW k \in 1 .. n, NEW b \in 0 .. k - 1, Segment(r, b, k), k - b >= BUFSIZE,
             NEW x \in b + 1 .. k, NEW y \in b .. k - 1
      PROVE  ~StartsShell(Piece(r, x, y))
  <2>1. x \in 1 .. n + 1 /\ y \in 0 .. n /\ d + k \in 1 .. n + d
    OBVIOUS
  <2>2. /\ d + b \in 0 .. (d + k) - 1 /\ (d + k) - (d + b) >= BUFSIZE
        /\ d + x \in (d + b) + 1 .. d + k /\ d + y \in d + b .. (d + k) - 1
    BY <1>0, <1>5
  <2>3. Tame(s, d + b, d + k)
    BY <1>2, <1>4, <1>5, <2>1, <2>2 DEF Whole
  <2> QED
    BY <1>3, <2>1, <2>2, <2>3 DEF Tame
<1>6. Whole(r)
  <2>1. n # 0 => r[n] = NL
    <3>1. n # 0 => n \in 1 .. n /\ d + n = n + d /\ n + d # 0
      OBVIOUS
    <3> QED
      BY <1>2, <3>1 DEF Whole
  <2>2. \A k \in 1 .. n : \A b \in 0 .. k - 1 : Segment(r, b, k) => Tame(r, b, k)
    BY <1>5 DEF Tame
  <2> QED
    BY <1>1, <2>1, <2>2 DEF Whole
<1>7. ASSUME NEW k \in Pending(r) PROVE k \in Nat \ {0} /\ k + d \in Pending(s)
  <2>1. k \in 1 .. n
    BY <1>1 DEF Pending
  <2>2. PICK b \in 0 .. k - 1 : Segment(r, b, k) /\ StartsShell(Piece(r, b + 1, k - 1))
    BY DEF Pending
  <2>3. b + 1 \in 1 .. n + 1 /\ k - 1 \in 0 .. n /\ d + k \in 1 .. n + d /\ k + d = d + k
    BY <2>1
  <2>4. StartsShell(Piece(s, d + (b + 1), d + (k - 1)))
    BY <1>3, <2>2, <2>3
  <2>5. d + b \in 0 .. (d + k) - 1 /\ d + (b + 1) = (d + b) + 1 /\ d + (k - 1) = (d + k) - 1
    BY <2>1
  <2> QED
    BY <1>2, <1>4, <2>1, <2>2, <2>3, <2>4, <2>5 DEF Pending
<1> QED
  BY <1>6, <1>7

(* A line is read, or as much of it as fits into buf. *)
LEMMA StreamDrops ==
  ASSUME NEW s, Whole(s), NEW d \in Nat \ {0}, d <= Len(s), \A j \in 1 .. d - 1 : s[j] # NL,
         s[d] = NL \/ d = BUFSIZE - 1,
         NEW r \in Seq(Char), Len(s) = Len(r) + d, \A i \in 1 .. Len(r) : r[i] = s[d + i]
  PROVE  Whole(r) /\ Cardinality(Pending(r)) + Count(Piece(s, 1, d - 1)) <= Cardinality(Pending(s))
<1>0. s \in Seq(Char) /\ BUFSIZE \in Nat
  BY ShellAssumption DEF Whole
<1>1. PICK n \in Nat : n = Len(r)
  OBVIOUS
<1>2. Len(s) = n + d /\ \A i \in 1 .. n : r[i] = s[d + i]
  BY <1>1
<1>3. Whole(r) /\ \A k \in Pending(r) : k \in Nat \ {0} /\ k + d \in Pending(s)
  BY StreamCut
<1>4. ASSUME StartsShell(Piece(s, 1, d - 1)) PROVE d \in Pending(s)
  <2>1. CASE s[d] = NL
    <3>1. 0 \in 0 .. d - 1 /\ 0 + 1 = 1 /\ d \in 1 .. n + d
      OBVIOUS
    <3>2. Segment(s, 0, d)
      BY <2>1, <3>1 DEF Segment
    <3> QED
      BY <1>2, <1>4, <3>1, <3>2 DEF Pending
  <2>2. CASE s[d] # NL
    <3> DEFINE N == {j \in 1 .. n + d : s[j] = NL}
    <3>1. n + d \in N
      <4>1. n + d # 0 /\ n + d \in 1 .. n + d
        OBVIOUS
      <4> QED
        BY <1>2, <4>1 DEF Whole
    <3>2. PICK K \in N : \A j \in N : K <= j
      <4>1. N \in SUBSET Nat
        OBVIOUS
      <4>2. N # {}
        BY <3>1
      <4> QED
        BY <4>1, <4>2, LeastExists
    <3>3. K \in 1 .. n + d /\ s[K] = NL /\ \A j \in 1 .. K - 1 : s[j] # NL
      BY <3>2
    <3>4. ~(K <= d)
      <4>1. K <= d => K = d \/ K \in 1 .. d - 1
        BY <3>3
      <4> QED
        BY <2>2, <3>3, <4>1
    <3>5. /\ 0 \in 0 .. K - 1 /\ K - 0 >= BUFSIZE
          /\ 1 \in 0 + 1 .. K /\ d - 1 \in 0 .. K - 1
      BY <1>0, <2>2, <3>3, <3>4
    <3>6. Segment(s, 0, K)
      BY <3>3 DEF Segment
    <3>7. Tame(s, 0, K)
      BY <1>2, <3>3, <3>5, <3>6 DEF Whole
    <3> QED
      BY <1>4, <3>5, <3>7 DEF Tame
  <2> QED
    BY <2>1, <2>2
<1>5. Cardinality(Pending(r)) + Count(Piece(s, 1, d - 1)) <= Cardinality(Pending(s))
  <2>0. /\ IsFiniteSet(Pending(s)) /\ IsFiniteSet(Pending(r))
        /\ Cardinality(Pending(s)) \in Nat /\ Cardinality(Pending(r)) \in Nat
        /\ Pending(r) \in SUBSET Nat /\ Pending(s) \in SUBSET Nat
    BY <1>0, PendingFinite
  <2>1. CASE StartsShell(Piece(s, 1, d - 1))
    <3>1. d \in Pending(s)
      BY <1>4, <2>1
    <3>2. /\ IsFiniteSet(Pending(s) \ {d})
          /\ Cardinality(Pending(s) \ {d}) = Cardinality(Pending(s)) - 1
      BY <2>0, <3>1, FS_RemoveElement
    <3>3. Pending(s) \ {d} \in SUBSET Nat /\ \A k \in Pending(r) : k + d \in Pending(s) \ {d}
      <4>1. \A k \in Nat \ {0} : k + d # d
        OBVIOUS
      <4> QED
        BY <1>3, <2>0, <4>1
    <3>4. Cardinality(Pending(r)) <= Cardinality(Pending(s) \ {d})
      BY <2>0, <3>2, <3>3, ShiftedInto
    <3> QED
      BY <2>0, <2>1, <3>2, <3>4 DEF Count
  <2>2. CASE ~StartsShell(Piece(s, 1, d - 1))
    <3>1. Cardinality(Pending(r)) <= Cardinality(Pending(s))
      BY <1>3, <2>0, ShiftedInto
    <3> QED
      BY <2>0, <2>2, <3>1 DEF Count
  <2> QED
    BY <2>1, <2>2
<1> QED
  BY <1>3, <1>5

-----------------------------------------------------------------------------
(* Shells in shells.                                                       *)

(* A shell that has not been asked to become something else, and init, that *)
(* becomes one.                                                             *)
NestAt(regs) ==
  \/ regs.eip[1] = "init"
  \/ regs.eip[1] = "sh" /\ regs.eip[2] \in {"main", "prompt", "read", "token", "fork"}
  \/ regs.eip[1] = "sh" /\ regs.eip[2] = "forked" /\ regs.eax # 0

(* A shell with a line that starts a shell, and the child it forks for it. *)
StartAt(regs, m) ==
  /\ StartsShell(Kept(m.line))
  /\ \/ regs.eip \in {<<"sh", "token">>, <<"sh", "fork">>}
     \/ regs.eip = <<"sh", "forked">> /\ regs.eax = 0

(* In read_line. *)
ReadAt(regs) == regs.eip = <<"sh", "read">>

(* The shells beside the first one. *)
Nested == {t \in Tasks \ {scheduler_task, init_task} : Live(t) /\ NestAt(user[t])}

(* The tasks that are about to start one. *)
Starting == {t \in Tasks : Live(t) /\ StartAt(user[t], mem[t])}

(* The shells in read_line. *)
Readers == {t \in Tasks \ {scheduler_task} : Live(t) /\ ReadAt(user[t])}

(* What was typed and is not in anybody's hands yet. *)
Streams == IF Readers = {} THEN {input} ELSE {Partial(mem[t]) \o input : t \in Readers}

(* No more shells are nested, about to start or asked for than were typed. *)
NestInv ==
  \A s \in Streams :
    /\ Whole(s)
    /\ Cardinality(Nested) + Cardinality(Starting) + Cardinality(Pending(s)) <= typed.shells

(* Sets of tasks are finite. *)
LEMMA SetOfTasks ==
  ASSUME NEW A \in SUBSET Tasks
  PROVE  IsFiniteSet(A) /\ Cardinality(A) \in Nat
<1>1. IsFiniteSet(Tasks)
  BY FS_Interval
<1>2. IsFiniteSet(A)
  BY <1>1, FS_Subset, Zenon
<1> QED
  BY <1>2, FS_CardinalityType

(* A subset is not larger. *)
LEMMA NotMore ==
  ASSUME NEW A \in SUBSET Tasks, NEW B \in SUBSET A
  PROVE  Cardinality(B) <= Cardinality(A)
<1>1. IsFiniteSet(A)
  BY SetOfTasks
<1> QED
  BY <1>1, FS_Subset, Zenon

(* At most one more. *)
LEMMA OneMore ==
  ASSUME NEW A \in SUBSET Tasks, NEW x \in Tasks, NEW B, B \in SUBSET (A \cup {x})
  PROVE  Cardinality(B) <= Cardinality(A) + 1
<1>1. A \cup {x} \in SUBSET Tasks
  OBVIOUS
<1>2. Cardinality(B) <= Cardinality(A \cup {x})
  BY <1>1, NotMore
<1>3. IsFiniteSet(A) /\ Cardinality(A) \in Nat /\ Cardinality(B) \in Nat
  BY <1>1, SetOfTasks
<1>4. Cardinality(A \cup {x}) = IF x \in A THEN Cardinality(A) ELSE Cardinality(A) + 1
  BY <1>3, FS_AddElement
<1> QED
  BY <1>2, <1>3, <1>4

(* At least one less. *)
LEMMA OneLess ==
  ASSUME NEW A \in SUBSET Tasks, NEW x \in A, NEW B, B \in SUBSET (A \ {x})
  PROVE  Cardinality(B) + 1 <= Cardinality(A)
<1>1. A \ {x} \in SUBSET Tasks
  OBVIOUS
<1>2. Cardinality(B) <= Cardinality(A \ {x})
  BY <1>1, NotMore
<1>3. IsFiniteSet(A) /\ Cardinality(A) \in Nat /\ Cardinality(B) \in Nat
  BY <1>1, SetOfTasks
<1>4. Cardinality(A \ {x}) = Cardinality(A) - 1
  BY <1>3, FS_RemoveElement
<1> QED
  BY <1>2, <1>3, <1>4

(* How many shells there are or will be, but for the lines not yet read. *)
Shells == Cardinality(Nested) + Cardinality(Starting)

(* Shells is a number. *)
LEMMA ShellsIs ==
  /\ Nested \in SUBSET Tasks /\ Starting \in SUBSET Tasks
  /\ Cardinality(Nested) \in Nat /\ Cardinality(Starting) \in Nat /\ Shells \in Nat
<1>1. Nested \in SUBSET Tasks /\ Starting \in SUBSET Tasks
  BY DEF Nested, Starting
<1> QED
  BY <1>1, SetOfTasks DEF Shells

(* So it is after a step. *)
LEMMA ShellsIsNext ==
  /\ Nested' \in SUBSET Tasks /\ Starting' \in SUBSET Tasks
  /\ Cardinality(Nested') \in Nat /\ Cardinality(Starting') \in Nat /\ Shells' \in Nat
  /\ Shells' = Cardinality(Nested') + Cardinality(Starting')
<1>1. Nested' \in SUBSET Tasks /\ Starting' \in SUBSET Tasks
  BY DEF Nested, Starting
<1> QED
  BY <1>1, SetOfTasks DEF Shells

(* NestInv of a state with at most as many shells and the same lines. *)
LEMMA NestKept ==
  ASSUME NestInv, TypedInv, typed' = typed, Streams' \in SUBSET Streams, Shells' <= Shells
  PROVE  NestInv'
<1> SUFFICES ASSUME NEW s \in Streams'
             PROVE  Whole(s) /\ Shells' + Cardinality(Pending(s)) <= typed'.shells
  BY DEF NestInv, Shells
<1>1. Whole(s) /\ Shells + Cardinality(Pending(s)) <= typed.shells
  BY DEF NestInv, Shells
<1>2. Cardinality(Pending(s)) \in Nat
  BY <1>1, PendingFinite DEF Whole
<1>3. typed.shells \in Int /\ typed'.shells = typed.shells
  BY ShellAssumption DEF TypedInv
<1> QED
  BY <1>1, <1>2, <1>3, ShellsIs, ShellsIsNext

(* A step that starts no shell. *)
LEMMA BecameShells ==
  ASSUME NEW r, NEW m, Became(r, m), curr_task \in Tasks,
         Live(curr_task) /\ NestAt(r) => NestAt(user[curr_task]),
         Live(curr_task) /\ StartAt(r, m) => StartAt(user[curr_task], me)
  PROVE  Nested' \in SUBSET Nested /\ Starting' \in SUBSET Starting /\ Shells' <= Shells
<1>1. \A t \in Tasks : Live(t)' /\ NestAt(user'[t]) => Live(t) /\ NestAt(user[t])
  BY DEF Became
<1>2. \A t \in Tasks : Live(t)' /\ StartAt(user'[t], mem'[t]) => Live(t) /\ StartAt(user[t], mem[t])
  BY DEF Became, me
<1>3. Nested' \in SUBSET Nested
  BY <1>1 DEF Nested, NestAt
<1>4. Starting' \in SUBSET Starting
  BY <1>2 DEF Starting, StartAt
<1>5. Cardinality(Nested') <= Cardinality(Nested) /\ Cardinality(Starting') <= Cardinality(Starting)
  BY <1>3, <1>4, ShellsIs, NotMore
<1> QED
  BY <1>3, <1>4, <1>5, ShellsIs, ShellsIsNext DEF Shells

(* The lines after a step. *)
LEMMA StreamsNext ==
  Streams' = IF Readers' = {} THEN {input'} ELSE {Partial(mem'[t]) \o input' : t \in Readers'}
BY DEF Streams, Partial

(* A step that reads nothing. *)
LEMMA BecameStreams ==
  ASSUME NEW r, NEW m, Became(r, m), curr_task \in Tasks,
         Live(curr_task) => (ReadAt(r) <=> ReadAt(user[curr_task])),
         Live(curr_task) /\ ReadAt(r) => Partial(m) = Partial(me)
  PROVE  Readers' = Readers /\ \A t \in Readers : Partial(mem'[t]) = Partial(mem[t])
<1>1. \A t \in Tasks : Live(t)' /\ ReadAt(user'[t]) <=> Live(t) /\ ReadAt(user[t])
  BY DEF Became
<1>2. \A t \in Tasks : Live(t) /\ ReadAt(user[t]) => Partial(mem'[t]) = Partial(mem[t])
  BY DEF Became, me
<1> QED
  BY <1>1, <1>2 DEF Readers, ReadAt

(* The unread lines stay when input and what was read of it stay. *)
LEMMA SameStreams ==
  ASSUME Readers' = Readers, \A t \in Readers : Partial(mem'[t]) = Partial(mem[t]), input' = input
  PROVE  Streams' \in SUBSET Streams
<1> DEFINE q(t) == Partial(mem'[t]) \o input'
           o(t) == Partial(mem[t]) \o input
<1>1. \A t \in Readers : q(t) = o(t)
  OBVIOUS
<1>2. Streams' = IF Readers = {} THEN {input} ELSE {q(t) : t \in Readers}
  BY StreamsNext
<1>3. Streams = IF Readers = {} THEN {input} ELSE {o(t) : t \in Readers}
  BY DEF Streams
<1> HIDE DEF q, o
<1> QED
  BY <1>1, <1>2, <1>3

(* A program that neither starts nor becomes a shell by its step. *)
LEMMA BecameNest ==
  ASSUME NestInv, TypedInv, NEW r, NEW m, Became(r, m), curr_task \in Tasks,
         Live(curr_task) /\ NestAt(r) => NestAt(user[curr_task]),
         Live(curr_task) /\ StartAt(r, m) => StartAt(user[curr_task], me),
         Live(curr_task) => (ReadAt(r) <=> ReadAt(user[curr_task])),
         Live(curr_task) /\ ReadAt(r) => Partial(m) = Partial(me),
         input' = input, typed' = typed
  PROVE  NestInv'
<1>1. Shells' <= Shells
  BY BecameShells
<1>2. Readers' = Readers /\ \A t \in Readers : Partial(mem'[t]) = Partial(mem[t])
  BY BecameStreams
<1>3. Streams' \in SUBSET Streams
  BY <1>2, SameStreams
<1> QED
  BY <1>1, <1>3, NestKept

(* A task that reads is the one that executes. *)
LEMMA OnlyReader ==
  ASSUME ShellInv, SleepsInWait, InUser, Childless
  PROVE  Readers \in SUBSET {curr_task}
<1> SUFFICES ASSUME NEW t \in Readers PROVE t = curr_task
  OBVIOUS
<1>0. /\ Inv /\ TypeOK /\ OneRunning /\ AwaitsChild /\ OneChild
      /\ ParentIsTask /\ CtxInv /\ ResumesIntact /\ Tables
  BY DEF ShellInv, Inv, CtxInv, Tree
<1>1. /\ curr_task \in Tasks /\ curr_task # scheduler_task /\ state[curr_task] = "RUNNING"
      /\ machine = "up"
  BY <1>0 DEF InUser, TypeOK, OneRunning
<1>2. \A c \in Tasks : parent[c] # curr_task
  BY <1>0, ChildlessIs
<1>3. t \in Tasks /\ Live(t) /\ user[t].eip = <<"sh", "read">>
  BY DEF Readers, ReadAt
<1>4. wpid[t] = NULL
  BY <1>3 DEF SleepsInWait
<1>5. \A c \in Tasks : parent[c] # t
  BY <1>0, <1>3, <1>4 DEF AwaitsChild, Forked
<1>6. t # scheduler_task
  BY DEF Readers
<1>7. state[t] # "UNUSED" /\ state[curr_task] # "UNUSED"
  BY <1>1, <1>3 DEF Live
<1> QED
  BY <1>0, <1>1, <1>2, <1>3, <1>5, <1>6, <1>7, OneLeaf

(* What the steps below start from. *)
ProgramInv == ShellInv /\ MemoryInv /\ TypedInv /\ SleepsInWait

(* A shell that goes on without reading. *)
LEMMA GoesNest ==
  ASSUME ProgramInv, NestInv, InUser, ~ReadAt(cpu), NEW l, NEW m, Goes(l, m),
         l # "read", l # "forked", l \in {"main", "prompt", "token", "fork"} => NestAt(cpu),
         l \in {"token", "fork"} /\ StartsShell(Kept(m.line)) => StartAt(cpu, me),
         input' = input, typed' = typed
  PROVE  NestInv'
<1>1. PICK eax, esp : Became([eip |-> <<"sh", l>>, eax |-> eax, esp |-> esp], m)
  BY DEF Goes
<1>2. curr_task \in Tasks /\ cpu = user[curr_task] /\ TypedInv
  BY CurrentInOrder DEF ProgramInv
<1>3. PICK r : r = [eip |-> <<"sh", l>>, eax |-> eax, esp |-> esp]
  OBVIOUS
<1>4. ~ReadAt(r) /\ (NestAt(r) => NestAt(cpu)) /\ (StartAt(r, m) => StartAt(cpu, me))
  BY <1>3 DEF ReadAt, NestAt, StartAt
<1> QED
  BY <1>1, <1>2, <1>3, <1>4, BecameNest

(* Steps of sh that read nothing and start nothing. *)
LEMMA QuietNest ==
  ASSUME ProgramInv, NestInv, typed' = typed,
         sh_main \/ sh_token \/ sh_token_end \/ sh_execv_fails \/ sh_wait \/ call("sh", "failed", "exit")
  PROVE  NestInv'
<1>0. ShellInv /\ MemoryInv
  BY DEF ProgramInv
<1>1. /\ InUser /\ input' = input
      /\ \/ cpu.eip \in {<<"sh", "main">>, <<"sh", "token">>, <<"sh", "failed">>}
         \/ cpu.eip = <<"sh", "forked">>
  BY DEF sh_main, sh_token, sh_token_end, sh_execv_fails, sh_wait, call, At, goto
<1>2. ~ReadAt(cpu) /\ IsMem(me)
  BY <1>0, <1>1, CurrentInOrder DEF ReadAt
<1>3. CASE sh_main
  <2> DEFINE m == [me EXCEPT !.line = <<>>]
  <2>1. Goes("prompt", m) /\ NestAt(cpu)
    BY <1>0, <1>3, ShGoes DEF sh_main, At, NestAt
  <2> HIDE DEF m
  <2> QED
    BY <1>1, <1>2, <2>1, GoesNest
<1>4. CASE sh_token
  <2> DEFINE end == WordEnd(me.buf, me.rp)
             b == [me.buf EXCEPT ![end] = NUL]
  <2>1. PICK m1 : m1 = [me EXCEPT !.buf = b, !.argv = <<>>]
    OBVIOUS
  <2>2. PICK m2 : m2 = [me EXCEPT !.buf = b, !.argv = Append(@, me.rp), !.rp = SkipSpaces(b, end + 1)]
    OBVIOUS
  <2>3. Goes("prompt", m1) \/ Goes("token", m2)
    BY <1>0, <1>4, <2>1, <2>2, ShGoes
  <2> HIDE DEF b, end
  <2>4. m2.line = me.line
    <3>1. m2 = [args |-> me.args, buf |-> b, argv |-> Append(me.argv, me.rp), i |-> me.i,
                len |-> me.len, rp |-> SkipSpaces(b, end + 1), line |-> me.line]
      BY <1>2, <2>2, Zenon DEF IsMem
    <3> QED
      BY <3>1
  <2>5. NestAt(cpu) /\ (StartsShell(Kept(m2.line)) => StartAt(cpu, me))
    BY <1>4, <2>4 DEF sh_token, At, NestAt, StartAt
  <2> QED
    BY <1>1, <1>2, <2>3, <2>5, GoesNest
<1>5. CASE sh_token_end
  <2>1. PICK l \in {"prompt", "fork"} : Goes(l, me)
    BY <1>0, <1>5, ShGoes
  <2>2. NestAt(cpu) /\ (StartsShell(Kept(me.line)) => StartAt(cpu, me))
    BY <1>5 DEF sh_token_end, At, NestAt, StartAt
  <2> QED
    BY <1>1, <1>2, <2>1, <2>2, GoesNest
<1>6. CASE sh_execv_fails \/ call("sh", "failed", "exit")
  <2>1. PICK l \in {"failed", "exit"} : Goes(l, me)
    BY <1>0, <1>6, ShGoes
  <2> QED
    BY <1>1, <1>2, <2>1, GoesNest
<1>7. CASE sh_wait
  <2>1. Goes("prompt", me) /\ NestAt(cpu)
    BY <1>0, <1>7, ShGoes DEF sh_wait, At, NestAt
  <2> QED
    BY <1>1, <1>2, <2>1, GoesNest
<1> QED
  BY <1>3, <1>4, <1>5, <1>6, <1>7

(* The shell prompts: from now on it has the stream. *)
LEMMA PromptNest ==
  ASSUME ProgramInv, NestInv, typed' = typed, sh_prompt
  PROVE  NestInv'
<1>0. ShellInv /\ MemoryInv /\ TypedInv /\ SleepsInWait
  BY DEF ProgramInv
<1>1. InUser /\ cpu.eip = <<"sh", "prompt">> /\ input' = input
  BY DEF sh_prompt, At
<1>2. /\ curr_task \in Tasks /\ curr_task # scheduler_task /\ cpu = user[curr_task] /\ IsMem(me)
      /\ Sound(me, cpu.eip) /\ input \in Seq(Char) /\ Live(curr_task)
  BY <1>0, <1>1, CurrentInOrder
<1>3. PICK m : m = [me EXCEPT !.argv = <<>>, !.line = <<>>, !.len = 0, !.rp = 0]
  OBVIOUS
<1>4. m.i = 0
  <2>1. m = [args |-> me.args, buf |-> me.buf, argv |-> <<>>, i |-> me.i, len |-> 0, rp |-> 0,
             line |-> <<>>]
    BY <1>2, <1>3, Zenon DEF IsMem
  <2> QED
    BY <1>1, <1>2, <2>1 DEF Sound
<1>5. PICK eax, esp : Became([eip |-> <<"sh", "read">>, eax |-> eax, esp |-> esp], m)
  BY <1>0, <1>3, ShGoes DEF Goes
<1>6. PICK r : r = [eip |-> <<"sh", "read">>, eax |-> eax, esp |-> esp]
  OBVIOUS
<1>7. ReadAt(r) /\ NestAt(cpu) /\ ~StartAt(r, m) /\ ~ReadAt(cpu)
  BY <1>1, <1>6 DEF ReadAt, NestAt, StartAt
<1>8. Shells' <= Shells
  BY <1>2, <1>5, <1>6, <1>7, BecameShells
<1>9. Readers = {}
  <2>1. Readers \in SUBSET {curr_task}
    BY <1>0, <1>1, OnlyReader DEF Childless
  <2> QED
    BY <1>2, <1>7, <2>1 DEF Readers
<1>10. Readers' = {curr_task}
  <2>1. \A t \in Tasks : Live(t)' /\ ReadAt(user'[t]) <=> (Live(t) /\ ReadAt(user[t])) \/ t = curr_task
    BY <1>2, <1>5, <1>6, <1>7 DEF Became
  <2> QED
    BY <1>2, <1>9, <2>1 DEF Readers, ReadAt
<1>11. mem'[curr_task] = m
  BY <1>2, <1>5 DEF Became
<1>12. Partial(m) \o input = input
  <2>1. 1 .. m.i = {}
    BY <1>4
  <2>2. Partial(m) = <<>>
    BY <2>1 DEF Partial
  <2> QED
    BY <1>2, <2>2
<1>13. Streams' \in SUBSET Streams
  BY <1>1, <1>9, <1>10, <1>11, <1>12, StreamsNext DEF Streams
<1> QED
  BY <1>0, <1>8, <1>13, NestKept

(* x is a, of length n, and behind it b, of length l. *)
Joined(x, a, n, b, l) ==
  Len(x) = n + l /\ \A i \in 1 .. n + l : x[i] = IF i <= n THEN a[i] ELSE b[i - n]

(* Concatenation, by length. *)
LEMMA ConcatIs ==
  ASSUME NEW C, NEW a \in Seq(C), NEW b \in Seq(C), NEW n \in Nat, Len(a) = n, NEW l \in Nat, Len(b) = l
  PROVE  a \o b \in Seq(C) /\ Joined(a \o b, a, n, b, l)
<1>1. /\ a \o b \in Seq(C) /\ Len(a \o b) = Len(a) + Len(b)
      /\ \A i \in 1 .. Len(a) + Len(b) : (a \o b)[i] = IF i <= Len(a) THEN a[i] ELSE b[i - Len(a)]
  BY ConcatProperties, Zenon
<1> QED
  BY <1>1, Zenon DEF Joined

(* A character moves from one sequence to another. *)
LEMMA HandOver ==
  ASSUME NEW C, NEW p \in Seq(C), NEW q \in Seq(C), q # <<>>, NEW p2 \in Seq(C),
         Len(p2) = Len(p) + 1, p2[Len(p) + 1] = Head(q), \A i \in 1 .. Len(p) : p2[i] = p[i]
  PROVE  p2 \o Tail(q) = p \o q
<1>1. PICK n \in Nat : n = Len(p)
  OBVIOUS
<1>2. PICK l \in Nat : Len(q) = l + 1
  <2>1. Len(q) \in Nat /\ Len(q) # 0
    BY EmptySeq
  <2>2. Len(q) - 1 \in Nat /\ Len(q) = (Len(q) - 1) + 1
    BY <2>1
  <2> QED
    BY <2>2
<1>3. PICK t \in Seq(C) : t = Tail(q)
  <2>1. Tail(q) \in Seq(C)
    BY HeadTailProperties
  <2> QED
    BY <2>1
<1>4. Len(t) = l /\ \A i \in 1 .. l : t[i] = q[i + 1]
  BY <1>2, <1>3, HeadTailProperties
<1>5. Head(q) = q[1]
  OBVIOUS
<1>6. /\ p \o q \in Seq(C) /\ Len(p \o q) = n + (l + 1)
      /\ \A i \in 1 .. n + (l + 1) : (p \o q)[i] = IF i <= n THEN p[i] ELSE q[i - n]
  <2>1. l + 1 \in Nat /\ Len(p) = n /\ Len(q) = l + 1
    BY <1>1, <1>2
  <2>2. p \o q \in Seq(C) /\ Joined(p \o q, p, n, q, l + 1)
    BY <2>1, ConcatIs
  <2> QED
    BY <2>2 DEF Joined
<1>7. /\ p2 \o t \in Seq(C) /\ Len(p2 \o t) = (n + 1) + l
      /\ \A i \in 1 .. (n + 1) + l : (p2 \o t)[i] = IF i <= n + 1 THEN p2[i] ELSE t[i - (n + 1)]
  <2>1. n + 1 \in Nat /\ Len(p2) = n + 1
    BY <1>1
  <2>2. p2 \o t \in Seq(C) /\ Joined(p2 \o t, p2, n + 1, t, l)
    BY <1>4, <2>1, ConcatIs
  <2> QED
    BY <2>2 DEF Joined
<1>8. ASSUME NEW i \in 1 .. n + (l + 1) PROVE (p2 \o t)[i] = (p \o q)[i]
  <2>0. i \in 1 .. (n + 1) + l
    OBVIOUS
  <2>1. CASE i <= n
    <3>1. i \in 1 .. n /\ i <= n + 1
      BY <2>1
    <3> QED
      BY <1>1, <1>6, <1>7, <2>0, <3>1
  <2>2. CASE i = n + 1
    <3>1. ~(i <= n) /\ i - n = 1 /\ i <= n + 1
      BY <2>2
    <3>2. (p \o q)[i] = q[1] /\ (p2 \o t)[i] = p2[n + 1]
      BY <1>6, <1>7, <2>0, <2>2, <3>1
    <3> QED
      BY <1>1, <1>5, <3>2
  <2>3. CASE i > n + 1
    <3>1. ~(i <= n) /\ ~(i <= n + 1) /\ i - (n + 1) \in 1 .. l /\ (i - (n + 1)) + 1 = i - n
      BY <2>3
    <3>2. (p \o q)[i] = q[i - n] /\ (p2 \o t)[i] = t[i - (n + 1)]
      BY <1>6, <1>7, <2>0, <3>1
    <3> QED
      BY <1>4, <3>1, <3>2
  <2>4. i <= n \/ i = n + 1 \/ i > n + 1
    OBVIOUS
  <2> QED
    BY <2>1, <2>2, <2>3, <2>4, Zenon
<1>9. Len(p2 \o t) = Len(p \o q) /\ Len(p \o q) = n + (l + 1)
  BY <1>6, <1>7
<1>10. p2 \o t = p \o q
  BY <1>6, <1>7, <1>8, <1>9, SeqEqual
<1> QED
  BY <1>3, <1>10

(* What read_line has. *)
LEMMA PartialIs ==
  ASSUME NEW m, Reading(m)
  PROVE  /\ m.i \in Nat /\ m.i <= BUFSIZE - 2 /\ Partial(m) \in Line /\ Len(Partial(m)) = m.i
         /\ Partial(m) \in Seq(Char)
         /\ \A k \in 1 .. m.i : Partial(m)[k] = m.buf[k - 1] /\ Partial(m)[k] # NL
<1>1. m.i \in 0 .. BUFSIZE - 2 /\ BUFSIZE \in Nat
  BY ShellAssumption DEF Reading
<1>2. \A k \in 1 .. m.i : k - 1 \in 0 .. m.i - 1
  BY <1>1
<1>3. \A k \in 1 .. m.i : m.buf[k - 1] \in Letters \cup {SPACE}
  BY <1>2 DEF Reading
<1>4. m.i \in Nat /\ m.i <= BUFSIZE - 2
  BY <1>1
<1>5. \A k \in 1 .. m.i : Partial(m)[k] = m.buf[k - 1] /\ Partial(m)[k] # NL
  BY <1>3, ShellAssumption DEF Partial
<1>6. Partial(m) \in [1 .. m.i -> Letters \cup {SPACE}]
  BY <1>3 DEF Partial
<1>7. Partial(m) \in Line /\ Len(Partial(m)) = m.i
  BY <1>4, <1>6 DEF Line
<1>8. Partial(m) \in Seq(Char)
  BY <1>7 DEF Line, Char
<1> QED
  BY <1>4, <1>5, <1>7, <1>8

(* The shell has read something. *)
LEMMA ReadNest ==
  ASSUME ProgramInv, NestInv, typed' = typed, sh_read_nothing \/ sh_read
  PROVE  NestInv'
<1>0. ShellInv /\ MemoryInv /\ TypedInv /\ SleepsInWait
  BY DEF ProgramInv
<1>1. InUser /\ cpu.eip = <<"sh", "read">>
  BY DEF sh_read_nothing, sh_read, call, At
<1>2. /\ curr_task \in Tasks /\ curr_task # scheduler_task /\ cpu = user[curr_task] /\ IsMem(me)
      /\ Sound(me, cpu.eip) /\ input \in Seq(Char) /\ Live(curr_task)
  BY <1>0, <1>1, CurrentInOrder
<1>3. Reading(me) /\ me.buf \in Buffer /\ BUFSIZE \in Nat
  BY <1>1, <1>2, ShellAssumption DEF Sound
<1>4. ReadAt(cpu) /\ NestAt(cpu)
  BY <1>1 DEF ReadAt, NestAt
<1>5. ASSUME NEW eax, NEW esp, NEW r, r = [eip |-> <<"sh", "read">>, eax |-> eax, esp |-> esp]
      PROVE  ReadAt(r) /\ \A m : ~StartAt(r, m)
  BY <1>5 DEF ReadAt, StartAt
<1>6. CASE sh_read_nothing
  <2>1. PICK eax, esp : Became([eip |-> <<"sh", "read">>, eax |-> eax, esp |-> esp], me)
    BY <1>0, <1>6, ShGoes DEF Goes
  <2>2. PICK r : r = [eip |-> <<"sh", "read">>, eax |-> eax, esp |-> esp]
    OBVIOUS
  <2>3. input' = input
    BY <1>6 DEF sh_read_nothing, call
  <2> QED
    BY <1>0, <1>2, <1>4, <1>5, <2>1, <2>2, <2>3, BecameNest
<1>7. CASE sh_read
  <2> DEFINE b == [me.buf EXCEPT ![me.i] = Head(input)]
  <2>0. PICK m : m = [me EXCEPT !.buf[me.i] = Head(input), !.i = @ + 1]
    OBVIOUS
  <2>1. input # <<>> /\ Head(input) # NL /\ me.i + 1 # BUFSIZE - 1 /\ input' = Tail(input)
    BY <1>7 DEF sh_read, LineDone
  <2>2. m.buf = b /\ m.i = me.i + 1
    <3>1. m = [args |-> me.args, buf |-> b, argv |-> me.argv, i |-> me.i + 1, len |-> me.len,
               rp |-> me.rp, line |-> me.line]
      BY <1>2, <2>0, Zenon DEF IsMem
    <3> QED
      BY <3>1
  <2>3. PICK eax, esp : Became([eip |-> <<"sh", "read">>, eax |-> eax, esp |-> esp], m)
    BY <1>0, <1>7, <2>0, ShGoes DEF Goes
  <2>4. PICK r : r = [eip |-> <<"sh", "read">>, eax |-> eax, esp |-> esp]
    OBVIOUS
  <2>5. Shells' <= Shells
    BY <1>2, <1>4, <1>5, <2>3, <2>4, BecameShells
  <2>6. Readers = {curr_task}
    <3>1. Readers \in SUBSET {curr_task}
      BY <1>0, <1>1, OnlyReader DEF Childless
    <3> QED
      BY <1>2, <1>4, <3>1 DEF Readers
  <2>7. Readers' = {curr_task}
    <3>1. ReadAt(r)
      BY <1>5, <2>4
    <3>2. \A t \in Tasks : Live(t)' /\ ReadAt(user'[t]) <=> Live(t) /\ ReadAt(user[t])
      BY <1>2, <1>4, <2>3, <2>4, <3>1 DEF Became
    <3>3. Readers' = Readers
      BY <3>2 DEF Readers, ReadAt
    <3> QED
      BY <2>6, <3>3
  <2>8. mem'[curr_task] = m
    BY <1>2, <2>3 DEF Became
  <2>9. Head(input) \in Char /\ Head(input) \in Letters \cup {SPACE}
    BY <1>2, <2>1 DEF Char
  <2>10. PICK n \in Nat : n = me.i /\ n <= BUFSIZE - 2
    BY <1>3, PartialIs
  <2>11. /\ b[n] = Head(input) /\ \A k \in 0 .. n - 1 : b[k] = me.buf[k]
    BY <1>3, <2>10 DEF Buffer
  <2> HIDE DEF b
  <2>12. Reading(m)
    <3>1. m.argv = <<>>
      <4>1. m.argv = me.argv
        BY <1>2, <2>0, Zenon DEF IsMem
      <4> QED
        BY <1>3, <4>1 DEF Reading
    <3>2. m.i \in 0 .. BUFSIZE - 2
      BY <1>3, <2>1, <2>2, <2>10
    <3>3. ASSUME NEW k \in 0 .. m.i - 1 PROVE b[k] \in Letters \cup {SPACE}
      <4>1. k \in 0 .. n - 1 \/ k = n
        BY <2>2, <2>10
      <4> QED
        BY <1>3, <2>9, <2>10, <2>11, <4>1 DEF Reading
    <3> QED
      BY <2>2, <3>1, <3>2, <3>3 DEF Reading
  <2>13. Partial(m) \o Tail(input) = Partial(me) \o input
    <3>1. /\ Partial(me) \in Seq(Char) /\ Len(Partial(me)) = n
          /\ Partial(m) \in Seq(Char) /\ Len(Partial(m)) = n + 1
          /\ \A k \in 1 .. n : Partial(me)[k] = me.buf[k - 1]
          /\ \A k \in 1 .. n + 1 : Partial(m)[k] = b[k - 1]
      BY <1>3, <2>2, <2>10, <2>12, PartialIs
    <3>2. n + 1 \in 1 .. n + 1 /\ (n + 1) - 1 = n /\ \A k \in 1 .. n : k \in 1 .. n + 1 /\ k - 1 \in 0 .. n - 1
      OBVIOUS
    <3>3. Partial(m)[n + 1] = Head(input) /\ \A k \in 1 .. n : Partial(m)[k] = Partial(me)[k]
      BY <2>11, <3>1, <3>2
    <3> QED
      BY <1>2, <2>1, <3>1, <3>3, HandOver
  <2>14. Streams' \in SUBSET Streams
    BY <2>1, <2>6, <2>7, <2>8, <2>13, StreamsNext DEF Streams, me
  <2> QED
    BY <1>0, <2>5, <2>14, NestKept
<1> QED
  BY <1>6, <1>7

(* The shell has read a line. *)
LEMMA LineNest ==
  ASSUME ProgramInv, NestInv, typed' = typed, sh_read_last
  PROVE  NestInv'
<1>0. ShellInv /\ MemoryInv /\ TypedInv /\ SleepsInWait
  BY DEF ProgramInv
<1>1. /\ InUser /\ cpu.eip = <<"sh", "read">> /\ input # <<>> /\ input' = Tail(input)
      /\ Head(input) = NL \/ me.i + 1 = BUFSIZE - 1
  BY DEF sh_read_last, At, LineDone
<1>2. /\ curr_task \in Tasks /\ curr_task # scheduler_task /\ cpu = user[curr_task] /\ IsMem(me)
      /\ Sound(me, cpu.eip) /\ input \in Seq(Char) /\ Live(curr_task)
  BY <1>0, <1>1, CurrentInOrder
<1>3. Reading(me)
  BY <1>1, <1>2 DEF Sound
<1>4. ReadAt(cpu) /\ NestAt(cpu) /\ ~StartAt(cpu, me)
  BY <1>1 DEF ReadAt, NestAt, StartAt
<1> DEFINE buf == Terminated([me.buf EXCEPT ![me.i] = Head(input)], me.i + 1)
<1>5. PICK m : m = [me EXCEPT !.buf = buf, !.len = strlen(buf), !.rp = SkipSpaces(buf, 0), !.i = 0,
                              !.line = IF Head(input) = NL THEN Partial(me)
                                       ELSE Append(Partial(me), Head(input))]
  OBVIOUS
<1>6. PICK eax, esp : Became([eip |-> <<"sh", "token">>, eax |-> eax, esp |-> esp], m)
  BY <1>0, <1>5, ShGoes DEF Goes
<1> HIDE DEF buf
<1>7. Kept(m.line) = Partial(me)
  <2> DEFINE line == IF Head(input) = NL THEN Partial(me) ELSE Append(Partial(me), Head(input))
  <2> HIDE DEF line
  <2>1. m = [args |-> me.args, buf |-> buf, argv |-> me.argv, i |-> 0, len |-> strlen(buf),
             rp |-> SkipSpaces(buf, 0), line |-> line]
    BY <1>2, <1>5, Zenon DEF IsMem, line
  <2>2. m.line = line
    BY <2>1
  <2>3. /\ Partial(me) \in Line /\ Len(Partial(me)) <= BUFSIZE - 2
        /\ Head(input) = NL \/ Len(Partial(me)) + 1 = BUFSIZE - 1
    <3>1. Partial(me) \in Line /\ Len(Partial(me)) = me.i /\ me.i <= BUFSIZE - 2
      BY <1>3, PartialIs
    <3> QED
      BY <1>1, <3>1
  <2>4. Head(input) \in Char
    BY <1>1, <1>2
  <2> QED
    BY <2>2, <2>3, <2>4, KeptIs DEF line
<1>8. PICK r : r = [eip |-> <<"sh", "token">>, eax |-> eax, esp |-> esp]
  OBVIOUS
<1>9. ~ReadAt(r) /\ (StartAt(r, m) => StartsShell(Partial(me)))
  BY <1>7, <1>8 DEF ReadAt, StartAt
<1>10. Readers = {curr_task} /\ Readers' = {}
  <2>1. Readers \in SUBSET {curr_task}
    BY <1>0, <1>1, OnlyReader DEF Childless
  <2>2. Readers = {curr_task}
    BY <1>2, <1>4, <2>1 DEF Readers
  <2>3. \A t \in Tasks : Live(t)' /\ ReadAt(user'[t]) => Live(t) /\ ReadAt(user[t]) /\ t # curr_task
    BY <1>2, <1>6, <1>8, <1>9 DEF Became
  <2>4. Readers' = Readers \ {curr_task}
    BY <2>2, <2>3 DEF Readers, ReadAt
  <2> QED
    BY <2>2, <2>4
<1>11. Cardinality(Nested') <= Cardinality(Nested)
  <2>1. \A t \in Tasks : Live(t)' /\ NestAt(user'[t]) => Live(t) /\ NestAt(user[t])
    BY <1>2, <1>4, <1>6 DEF Became
  <2>2. Nested' \in SUBSET Nested
    BY <2>1 DEF Nested, NestAt
  <2> QED
    BY <2>2, ShellsIs, NotMore
<1>12. Cardinality(Starting') <= Cardinality(Starting) + Count(Partial(me))
  <2>1. \A t \in Tasks : Live(t)' /\ StartAt(user'[t], mem'[t]) =>
          \/ Live(t) /\ StartAt(user[t], mem[t])
          \/ t = curr_task /\ StartsShell(Partial(me))
    BY <1>2, <1>6, <1>8, <1>9 DEF Became
  <2>2. Starting' \in SUBSET (Starting \cup IF StartsShell(Partial(me)) THEN {curr_task} ELSE {})
    BY <2>1 DEF Starting, StartAt
  <2>3. CASE StartsShell(Partial(me))
    <3>1. Starting' \in SUBSET (Starting \cup {curr_task})
      BY <2>2, <2>3
    <3>2. Cardinality(Starting') <= Cardinality(Starting) + 1
      BY <1>2, <3>1, ShellsIs, OneMore
    <3> QED
      BY <2>3, <3>2 DEF Count
  <2>4. CASE ~StartsShell(Partial(me))
    <3>1. Starting' \in SUBSET Starting
      BY <2>2, <2>4
    <3>2. Cardinality(Starting') <= Cardinality(Starting)
      BY <3>1, ShellsIs, NotMore
    <3> QED
      BY <2>4, <3>2, ShellsIs DEF Count
  <2> QED
    BY <2>3, <2>4
<1>13. PICK s : s = Partial(me) \o input
  OBVIOUS
<1>14. Streams = {s} /\ Streams' = {Tail(input)}
  BY <1>1, <1>10, <1>13, StreamsNext DEF Streams, me
<1>15. Whole(s) /\ Shells + Cardinality(Pending(s)) <= typed.shells
  BY <1>14 DEF NestInv, Shells
<1>16. /\ Whole(Tail(input))
       /\ Cardinality(Pending(Tail(input))) + Count(Partial(me)) <= Cardinality(Pending(s))
  <2>1. PICK n \in Nat : n = me.i /\ n <= BUFSIZE - 2
    BY <1>3, PartialIs
  <2>2. /\ Partial(me) \in Seq(Char) /\ Len(Partial(me)) = n
        /\ \A k \in 1 .. n : Partial(me)[k] = me.buf[k - 1] /\ Partial(me)[k] # NL
    BY <1>3, <2>1, PartialIs
  <2>3. PICK t \in Seq(Char) : t = Tail(input)
    <3>1. Tail(input) \in Seq(Char)
      BY <1>1, <1>2, HeadTailProperties
    <3> QED
      BY <3>1
  <2>4. PICK l \in Nat : l = Len(t)
    OBVIOUS
  <2>5. Len(input) = l + 1 /\ l + 1 \in Nat /\ \A i \in 1 .. l : t[i] = input[i + 1]
    <3>1. Len(t) = Len(input) - 1 /\ \A i \in 1 .. Len(t) : t[i] = input[i + 1]
      BY <1>1, <1>2, <2>3, HeadTailProperties
    <3>2. Len(input) \in Nat
      BY <1>2
    <3> QED
      BY <2>4, <3>1, <3>2
  <2>6. s \in Seq(Char) /\ Joined(s, Partial(me), n, input, l + 1)
    BY <1>2, <1>13, <2>2, <2>5, ConcatIs
  <2>7. Len(s) = n + (l + 1) /\ \A i \in 1 .. n + (l + 1) : s[i] = IF i <= n THEN Partial(me)[i] ELSE input[i - n]
    BY <2>6 DEF Joined
  <2>8. PICK d \in Nat \ {0} : d = n + 1
    OBVIOUS
  <2>9. d <= Len(s) /\ Len(s) = Len(t) + d
    BY <2>4, <2>7, <2>8
  <2>10. \A j \in 1 .. d - 1 : s[j] = Partial(me)[j] /\ s[j] # NL
    <3>1. \A j \in 1 .. d - 1 : j \in 1 .. n /\ j <= n /\ j \in 1 .. n + (l + 1)
      BY <2>8
    <3> QED
      BY <2>2, <2>7, <3>1
  <2>11. s[d] = NL \/ d = BUFSIZE - 1
    <3>1. d \in 1 .. n + (l + 1) /\ ~(d <= n) /\ d - n = 1
      BY <2>8
    <3>2. s[d] = Head(input)
      BY <1>2, <2>7, <3>1
    <3> QED
      BY <1>1, <2>1, <2>8, <3>2
  <2>12. \A i \in 1 .. Len(t) : t[i] = s[d + i]
    <3> SUFFICES ASSUME NEW i \in 1 .. l PROVE t[i] = s[d + i]
      BY <2>4
    <3>1. d + i \in 1 .. n + (l + 1) /\ ~(d + i <= n) /\ (d + i) - n = i + 1
      BY <2>8
    <3>2. s[d + i] = input[i + 1]
      BY <2>7, <3>1
    <3> QED
      BY <2>5, <3>2
  <2>13. Piece(s, 1, d - 1) = Partial(me)
    <3>1. (d - 1) - 1 + 1 = n /\ d - 1 = n /\ \A i \in 1 .. n : 1 + i - 1 = i
      BY <2>8
    <3>2. Piece(s, 1, d - 1) = [i \in 1 .. n |-> Partial(me)[i]]
      BY <2>10, <3>1 DEF Piece
    <3>3. Partial(me) = [i \in 1 .. n |-> Partial(me)[i]]
      BY <2>1 DEF Partial
    <3> QED
      BY <3>2, <3>3
  <2>14. Whole(t) /\ Cardinality(Pending(t)) + Count(Piece(s, 1, d - 1)) <= Cardinality(Pending(s))
    BY <1>15, <2>9, <2>10, <2>11, <2>12, StreamDrops
  <2> QED
    BY <2>3, <2>13, <2>14
<1>17. /\ Cardinality(Pending(s)) \in Nat /\ Cardinality(Pending(Tail(input))) \in Nat
       /\ Count(Partial(me)) \in Nat /\ typed.shells \in Int
  <2>1. s \in Seq(Char) /\ Tail(input) \in Seq(Char)
    BY <1>15, <1>16 DEF Whole
  <2>2. Cardinality(Pending(s)) \in Nat /\ Cardinality(Pending(Tail(input))) \in Nat
    BY <2>1, PendingFinite
  <2>3. Count(Partial(me)) \in Nat
    BY DEF Count
  <2>4. typed.shells \in Int
    BY <1>0, ShellAssumption DEF TypedInv
  <2> QED
    BY <2>2, <2>3, <2>4
<1>18. Shells' + Cardinality(Pending(Tail(input))) <= typed.shells
  BY <1>11, <1>12, <1>15, <1>16, <1>17, ShellsIs, ShellsIsNext DEF Shells
<1> QED
  BY <1>14, <1>16, <1>18 DEF NestInv, Shells

(* fork: the child is to start the shell. *)
LEMMA ForkNest ==
  ASSUME ProgramInv, NestInv, typed' = typed, sh_fork
  PROVE  NestInv'
<1>0. ShellInv /\ MemoryInv /\ TypedInv /\ SleepsInWait
  BY DEF ProgramInv
<1>1. InUser /\ cpu.eip = <<"sh", "fork">> /\ input' = input
  BY DEF sh_fork, At
<1>2. /\ curr_task \in Tasks /\ curr_task # scheduler_task /\ cpu = user[curr_task]
      /\ Live(curr_task) /\ mem = [t \in Tasks |-> mem[t]]
  BY <1>0, <1>1, CurrentInOrder
<1>3. PICK tp \in Tasks : Spawned(tp, <<"sh", "forked">>)
  <2>1. Childless
    BY <1>1 DEF Childless
  <2> QED
    BY <1>0, <1>2, <2>1, ForkSpawns DEF sh_fork
<1>4. PICK r : r = Returned(<<"sh", "forked">>, tp)
  OBVIOUS
<1>5. PICK q : q = Returned(<<"sh", "forked">>, 0)
  OBVIOUS
<1>6. tp # 0 /\ tp # curr_task /\ ~Live(tp)
  BY <1>3 DEF Spawned
<1>7. /\ NestAt(cpu) /\ ~StartAt(r, me) /\ ~ReadAt(r) /\ ~ReadAt(cpu)
      /\ ~NestAt(q) /\ ~ReadAt(q) /\ (StartAt(q, me) => StartsShell(Kept(me.line)))
      /\ StartsShell(Kept(me.line)) => StartAt(cpu, me)
  BY <1>1, <1>4, <1>5, <1>6 DEF NestAt, StartAt, ReadAt, Returned
<1>8. \A t \in Tasks : Live(t)' =>
        \/ t = curr_task /\ user'[t] = r /\ mem'[t] = me
        \/ t = tp /\ user'[t] = q /\ mem'[t] = me
        \/ t # curr_task /\ t # tp /\ Live(t) /\ user'[t] = user[t] /\ mem'[t] = mem[t]
  BY <1>3, <1>4, <1>5 DEF Spawned
<1>9. Cardinality(Nested') <= Cardinality(Nested)
  <2>1. \A t \in Tasks : Live(t)' /\ NestAt(user'[t]) => Live(t) /\ NestAt(user[t])
    BY <1>2, <1>7, <1>8
  <2>2. Nested' \in SUBSET Nested
    BY <2>1 DEF Nested, NestAt
  <2> QED
    BY <2>2, ShellsIs, NotMore
<1>10. Cardinality(Starting') <= Cardinality(Starting)
  <2>1. \A t \in Tasks : Live(t)' /\ StartAt(user'[t], mem'[t]) =>
          \/ Live(t) /\ t # curr_task /\ StartAt(user[t], mem[t])
          \/ t = tp /\ StartsShell(Kept(me.line))
    BY <1>7, <1>8
  <2>2. CASE StartsShell(Kept(me.line))
    <3>1. curr_task \in Starting
      BY <1>2, <1>7, <2>2 DEF Starting, me
    <3>2. Starting' \in SUBSET ((Starting \ {curr_task}) \cup {tp})
      BY <2>1 DEF Starting, StartAt
    <3>3. Starting \ {curr_task} \in SUBSET Tasks
      BY ShellsIs
    <3>4. Cardinality(Starting') <= Cardinality(Starting \ {curr_task}) + 1
      BY <3>2, <3>3, OneMore
    <3>5. Cardinality(Starting \ {curr_task}) + 1 <= Cardinality(Starting)
      BY <3>1, ShellsIs, OneLess
    <3>6. Cardinality(Starting \ {curr_task}) \in Nat
      BY <3>3, SetOfTasks
    <3> QED
      BY <3>4, <3>5, <3>6, ShellsIs, ShellsIsNext
  <2>3. CASE ~StartsShell(Kept(me.line))
    <3>1. Starting' \in SUBSET Starting
      BY <2>1, <2>3 DEF Starting, StartAt
    <3> QED
      BY <3>1, ShellsIs, NotMore
  <2> QED
    BY <2>2, <2>3
<1>11. Shells' <= Shells
  BY <1>9, <1>10, ShellsIs, ShellsIsNext DEF Shells
<1>12. Readers = {}
  <2>1. Readers \in SUBSET {curr_task}
    BY <1>0, <1>1, OnlyReader DEF Childless
  <2> QED
    BY <1>2, <1>7, <2>1 DEF Readers
<1>13. Readers' = {}
  <2>1. \A t \in Tasks : Live(t)' /\ ReadAt(user'[t]) => Live(t) /\ ReadAt(user[t])
    BY <1>2, <1>7, <1>8
  <2>2. Readers' \in SUBSET Readers
    BY <2>1 DEF Readers, ReadAt
  <2> QED
    BY <1>12, <2>2
<1>14. Streams' \in SUBSET Streams
  BY <1>1, <1>12, <1>13, StreamsNext DEF Streams
<1> QED
  BY <1>0, <1>11, <1>14, NestKept

(* execv: a shell starts, or a tool. *)
LEMMA ExecNest ==
  ASSUME ProgramInv, NestInv, typed' = typed, init \/ sh_execv
  PROVE  NestInv'
<1>0. ShellInv /\ MemoryInv /\ TypedInv
  BY DEF ProgramInv
<1>1. InUser
  BY DEF init, sh_execv, At
<1>2. curr_task \in Tasks /\ cpu = user[curr_task] /\ Live(curr_task) /\ Sound(me, cpu.eip)
  BY <1>0, <1>1, CurrentInOrder
<1>3. ASSUME NEW p, NEW stack, exec(p, stack)
      PROVE  /\ input' = input
             /\ \E r, m : Became(r, m) /\ r.eip = <<p, "main">>
  <2>1. /\ input' = input
        /\ \E m : Became([eip |-> <<p, "main">>, eax |-> 0, esp |-> stack.esp], m)
    BY <1>0, <1>1, <1>3, ExecBecomes
  <2>2. [eip |-> <<p, "main">>, eax |-> 0, esp |-> stack.esp].eip = <<p, "main">>
    OBVIOUS
  <2> QED
    BY <2>1, <2>2
<1>4. ASSUME NEW p, NEW r, r.eip = <<p, "main">>
      PROVE  ~ReadAt(r) /\ (\A m : ~StartAt(r, m)) /\ (NestAt(r) => p \in {"sh", "init"})
  BY <1>4 DEF ReadAt, StartAt, NestAt
<1>5. CASE init
  <2>1. PICK stack : exec("sh", stack)
    BY <1>5 DEF init
  <2>2. PICK r, m : Became(r, m) /\ r.eip = <<"sh", "main">>
    BY <1>3, <2>1
  <2>3. NestAt(cpu) /\ ~ReadAt(cpu)
    BY <1>5 DEF init, At, NestAt, ReadAt
  <2> QED
    BY <1>0, <1>2, <1>3, <1>4, <2>1, <2>2, <2>3, BecameNest
<1>6. CASE sh_execv
  <2> DEFINE p == Elf[argv[1]]
  <2>1. /\ cpu.eip = <<"sh", "forked">> /\ cpu.eax = 0 /\ argv[1] \in DOMAIN Elf
        /\ \E stack : exec(p, stack)
    BY <1>6 DEF sh_execv, At
  <2>2. Words(Kept(me.line))[1] \in DOMAIN Elf /\ p = Elf[Words(Kept(me.line))[1]] /\ Words(Kept(me.line)) # <<>>
    <3>1. Tokenized(me)
      BY <1>2, <2>1 DEF Sound
    <3>2. argv = Words(Kept(me.line)) /\ Len(Words(Kept(me.line))) \in 1 .. MAX_ARG - 1
      BY <3>1 DEF Tokenized, argv
    <3>3. Words(Kept(me.line)) # <<>>
      <4>1. Len(<<>>) = 0 /\ 0 \notin 1 .. MAX_ARG - 1
        BY ShellAssumption
      <4> QED
        BY <3>2, <4>1
    <3> QED
      BY <2>1, <3>2, <3>3
  <2>3. p \in {"sh", "init"} => StartsShell(Kept(me.line))
    BY <2>2 DEF StartsShell, Named
  <2>4. ~ReadAt(cpu) /\ (StartsShell(Kept(me.line)) => StartAt(cpu, me))
    BY <2>1 DEF ReadAt, StartAt
  <2> HIDE DEF p
  <2>5. PICK r, m : Became(r, m) /\ r.eip = <<p, "main">>
    BY <1>3, <2>1
  <2>6. ~ReadAt(r) /\ ~StartAt(r, m) /\ (NestAt(r) => p \in {"sh", "init"}) /\ input' = input
    BY <1>3, <1>4, <2>1, <2>5
  <2>7. CASE ~NestAt(r)
    BY <1>0, <1>2, <2>4, <2>5, <2>6, <2>7, BecameNest
  <2>8. CASE NestAt(r)
    <3>1. StartAt(cpu, me)
      BY <2>3, <2>4, <2>6, <2>8
    <3>2. curr_task \in Starting
      BY <1>2, <3>1 DEF Starting, me
    <3>3. Starting' \in SUBSET (Starting \ {curr_task})
      <4>1. \A t \in Tasks : Live(t)' /\ StartAt(user'[t], mem'[t]) =>
              Live(t) /\ StartAt(user[t], mem[t]) /\ t # curr_task
        BY <1>2, <2>5, <2>6 DEF Became
      <4> QED
        BY <4>1 DEF Starting, StartAt
    <3>4. Nested' \in SUBSET (Nested \cup {curr_task})
      <4>1. \A t \in Tasks : Live(t)' /\ NestAt(user'[t]) => (Live(t) /\ NestAt(user[t])) \/ t = curr_task
        BY <1>2, <2>5 DEF Became
      <4> QED
        BY <4>1 DEF Nested, NestAt
    <3>5. Cardinality(Nested') <= Cardinality(Nested) + 1
      BY <1>2, <3>4, ShellsIs, OneMore
    <3>6. Cardinality(Starting') + 1 <= Cardinality(Starting)
      BY <3>2, <3>3, ShellsIs, OneLess
    <3>7. Shells' <= Shells
      BY <3>5, <3>6, ShellsIs, ShellsIsNext DEF Shells
    <3>8. Readers' = Readers /\ \A t \in Readers : Partial(mem'[t]) = Partial(mem[t])
      BY <1>2, <2>4, <2>5, <2>6, BecameStreams
    <3>9. Streams' \in SUBSET Streams
      BY <2>6, <3>8, SameStreams
    <3> QED
      BY <1>0, <3>7, <3>9, NestKept
  <2> QED
    BY <2>7, <2>8
<1> QED
  BY <1>5, <1>6

(* exit: no shell more, and nobody else reads. *)
LEMMA LeaveShells ==
  ASSUME ProgramInv, Left, InUser, ~ReadAt(cpu)
  PROVE  /\ Shells' <= Shells /\ Readers' = Readers
         /\ \A t \in Readers : Partial(mem'[t]) = Partial(mem[t])
<1>1. curr_task \in Tasks /\ cpu = user[curr_task]
  BY CurrentInOrder DEF ProgramInv
<1>2. \A t \in Tasks : Live(t)' => Live(t) /\ user'[t] = user[t] /\ mem'[t] = mem[t]
  BY DEF Left
<1>3. Nested' \in SUBSET Nested
  BY <1>2 DEF Nested, NestAt
<1>4. Starting' \in SUBSET Starting
  BY <1>2 DEF Starting, StartAt
<1>5. Cardinality(Nested') <= Cardinality(Nested) /\ Cardinality(Starting') <= Cardinality(Starting)
  BY <1>3, <1>4, ShellsIs, NotMore
<1>6. Shells' <= Shells
  BY <1>5, ShellsIs, ShellsIsNext DEF Shells
<1>7. Readers' = Readers
  <2>1. \A t \in Tasks : Live(t)' /\ ReadAt(user'[t]) <=> Live(t) /\ ReadAt(user[t])
    BY <1>1 DEF Left
  <2> QED
    BY <2>1 DEF Readers, ReadAt
<1> QED
  BY <1>6, <1>7 DEF Left

(* The exit of a shell. *)
LEMMA LeaveNest ==
  ASSUME ProgramInv, NestInv, typed' = typed, Left, input' = input, InUser, ~ReadAt(cpu)
  PROVE  NestInv'
<1>1. Shells' <= Shells /\ Streams' \in SUBSET Streams
  BY LeaveShells, SameStreams
<1> QED
  BY <1>1, NestKept DEF ProgramInv

(* A tool goes on: no shell more, and nobody else reads. *)
LEMMA ToolShells ==
  ASSUME ProgramInv, ToolGoes, InUser, cpu.eip[1] \in {"echo", "hello", "ls", "cat"}
  PROVE  /\ Shells' <= Shells /\ Readers' = Readers
         /\ \A t \in Readers : Partial(mem'[t]) = Partial(mem[t])
<1>1. ~ReadAt(cpu) /\ curr_task \in Tasks /\ cpu = user[curr_task]
  BY CurrentInOrder DEF ReadAt, ProgramInv
<1>2. PICK p \in {"echo", "hello", "ls", "cat"} : \E l, ret, m : Became(Returned(<<p, l>>, ret), m)
  BY DEF ToolGoes
<1>3. PICK l, ret, m : Became(Returned(<<p, l>>, ret), m)
  BY <1>2
<1>4. PICK r : r = Returned(<<p, l>>, ret)
  OBVIOUS
<1>5. ~NestAt(r) /\ ~StartAt(r, m) /\ ~ReadAt(r)
  BY <1>4 DEF NestAt, StartAt, ReadAt, Returned
<1>6. Became(r, m)
  BY <1>3, <1>4
<1> QED
  BY <1>1, <1>5, <1>6, BecameShells, BecameStreams

(* cat takes input from the console: nobody else was reading it, and the    *)
(* lines that it leaves start no more shells than before.                   *)
LEMMA CatReads ==
  ASSUME ProgramInv, NestInv, typed' = typed, InUser, cpu.eip = <<"cat", "read">>,
         NEW n \in 0 .. Len(input), input' = SubSeq(input, n + 1, Len(input)),
         Shells' <= Shells, Readers' = Readers
  PROVE  NestInv'
<1>0. ShellInv /\ MemoryInv /\ TypedInv /\ SleepsInWait
  BY DEF ProgramInv
<1>1. curr_task \in Tasks /\ cpu = user[curr_task] /\ input \in Seq(Char)
  BY <1>0, CurrentInOrder
<1>2. Readers = {}
  <2>1. Childless /\ ~ReadAt(cpu)
    BY DEF Childless, ReadAt
  <2>2. Readers \in SUBSET {curr_task}
    BY <1>0, <2>1, OnlyReader
  <2> QED
    BY <1>1, <2>1, <2>2 DEF Readers
<1>3. Streams = {input} /\ Streams' = {input'}
  BY <1>2, StreamsNext DEF Streams
<1>4. Whole(input) /\ Shells + Cardinality(Pending(input)) <= typed.shells
  BY <1>3 DEF NestInv, Shells
<1>5. PICK k \in Nat : k = Len(input)
  BY <1>1
<1>6. PICK r : r = SubSeq(input, n + 1, k)
  OBVIOUS
<1>7. r \in Seq(Char) /\ Len(r) = k - n /\ \A j \in 1 .. k - n : r[j] = input[n + j]
  <2>1. \A j \in n + 1 .. k : input[j] \in Char
    BY <1>1, <1>5
  <2> QED
    BY <1>1, <1>5, <1>6, <2>1
<1>8. Whole(r) /\ \A j \in Pending(r) : j \in Nat \ {0} /\ j + n \in Pending(input)
  <2>1. n \in Nat /\ Len(input) = Len(r) + n /\ \A j \in 1 .. Len(r) : r[j] = input[n + j]
    BY <1>5, <1>7
  <2> QED
    BY <1>4, <1>7, <2>1, StreamCut
<1>9. Cardinality(Pending(r)) <= Cardinality(Pending(input))
  <2>1. /\ IsFiniteSet(Pending(input)) /\ Pending(input) \in SUBSET Nat
        /\ Pending(r) \in SUBSET Nat /\ n \in Nat
    BY <1>1, <1>7, PendingFinite
  <2> QED
    BY <1>8, <2>1, ShiftedInto
<1>10. /\ Cardinality(Pending(r)) \in Nat /\ Cardinality(Pending(input)) \in Nat
       /\ typed.shells \in Int
  BY <1>0, <1>1, <1>7, PendingFinite, ShellAssumption DEF TypedInv
<1>11. Shells' + Cardinality(Pending(r)) <= typed'.shells
  BY <1>4, <1>9, <1>10, ShellsIs, ShellsIsNext
<1>12. input' = r
  BY <1>5, <1>6
<1> SUFFICES ASSUME NEW s \in Streams'
             PROVE  Whole(s) /\ Shells' + Cardinality(Pending(s)) <= typed'.shells
  BY DEF NestInv, Shells
<1>13. s = r
  BY <1>3, <1>12
<1> QED
  BY <1>8, <1>11, <1>13

(* The tools. *)
LEMMA ToolNest ==
  ASSUME ProgramInv, NestInv, typed' = typed, echo \/ hello \/ ls \/ cat
  PROVE  NestInv'
<1>1. /\ InUser /\ cpu.eip[1] \in {"echo", "hello", "ls", "cat"}
      /\ ToolReads /\ (Left \/ ToolGoes)
  BY ToolStep DEF ProgramInv
<1>2. ~ReadAt(cpu)
  BY <1>1 DEF ReadAt
<1>3. /\ Shells' <= Shells /\ Readers' = Readers
      /\ \A t \in Readers : Partial(mem'[t]) = Partial(mem[t])
  BY <1>1, <1>2, LeaveShells, ToolShells
<1>4. CASE input' = input
  <2>1. Streams' \in SUBSET Streams
    BY <1>3, <1>4, SameStreams
  <2> QED
    BY <1>3, <2>1, NestKept DEF ProgramInv
<1>5. CASE input' # input
  <2>1. /\ cpu.eip = <<"cat", "read">>
        /\ \E n \in 0 .. Len(input) : input' = SubSeq(input, n + 1, Len(input))
    BY <1>1, <1>5 DEF ToolReads
  <2> QED
    BY <1>1, <1>3, <2>1, CatReads
<1> QED
  BY <1>4, <1>5

(* A line is typed. *)
LEMMA TypedNest ==
  ASSUME LongLinesHarmless, ProgramInv, NestInv, serial_irq
  PROVE  NestInv'
<1>0. ShellInv /\ MemoryInv /\ TypedInv
  BY DEF ProgramInv
<1>1. PICK line \in Lines[typed.lines + 1] :
        /\ input' = input \o Append(line, NL)
        /\ typed'.shells = typed.shells + (IF line \in ShellLines THEN 1 ELSE 0)
  <2>1. PICK line \in Lines[typed.lines + 1] :
          /\ input' = input \o Append(line, NL)
          /\ typed' = [lines |-> typed.lines + 1,
                       shells |-> typed.shells + (IF line \in ShellLines THEN 1 ELSE 0),
                       failing |-> typed.failing + (IF line \in FailingLines THEN 1 ELSE 0)]
    BY Zenon DEF serial_irq
  <2>2. typed'.shells = typed.shells + (IF line \in ShellLines THEN 1 ELSE 0)
    BY <2>1
  <2> QED
    BY <2>1, <2>2
<1>2. line \in Line /\ line \in AllLines
  <2>1. typed.lines + 1 \in 1 .. Len(Lines)
    <3>1. PICK n \in Nat : n = Len(Lines)
      BY ShellAssumption
    <3>2. typed.lines \in Nat /\ typed.lines < n
      BY <1>0, <3>1 DEF serial_irq, TypedInv
    <3> QED
      BY <3>1, <3>2
  <2>2. Lines[typed.lines + 1] \in SUBSET Seq(Letters \cup {SPACE})
    BY <2>1, ShellAssumption
  <2>3. DOMAIN Lines = 1 .. Len(Lines)
    BY ShellAssumption
  <2>4. Lines[typed.lines + 1] \in Range(Lines)
    BY <2>1, <2>3 DEF Range
  <2> QED
    BY <2>2, <2>4 DEF Line, AllLines
<1>3. /\ IsLong(line) => Announced(line) = 0
      /\ typed'.shells = typed.shells + Announced(line)
  <2>1. line \in ShellLines <=> \E p \in Pieces(line) : StartsShell(p)
    BY <1>2 DEF ShellLines
  <2> QED
    BY <1>1, <2>1 DEF LongLinesHarmless, Announced
<1>4. curr_task \in Tasks /\ mem = [t \in Tasks |-> mem[t]] /\ input \in Seq(Char)
  BY <1>0 DEF MemoryInv, ShellInv, Inv, TypeOK
<1>5. Became(user[curr_task], me)
  BY <1>0, <1>4, IdleBecomes DEF serial_irq
<1>6. Shells' <= Shells
  BY <1>4, <1>5, BecameShells
<1>7. Readers' = Readers /\ \A t \in Readers : Partial(mem'[t]) = Partial(mem[t])
  BY <1>4, <1>5, BecameStreams
<1>8. PICK e \in Seq(Char) : e = Append(line, NL)
  <2>1. Append(line, NL) \in Seq(Char)
    BY <1>2 DEF Line, Char
  <2> QED
    BY <2>1
<1>9. ASSUME NEW s \in Streams' PROVE \E o \in Streams : s = o \o e
  <2>1. CASE Readers = {}
    <3>1. s = input \o e /\ Streams = {input}
      BY <1>1, <1>7, <1>8, <1>9, <2>1, StreamsNext DEF Streams
    <3> QED
      BY <3>1
  <2>2. CASE Readers # {}
    <3>1. PICK t \in Readers : s = Partial(mem'[t]) \o input'
      BY <1>7, <1>9, <2>2, StreamsNext
    <3>2. Partial(mem[t]) \in Seq(Char)
      <4>1. t \in Tasks /\ Live(t) /\ user[t].eip = <<"sh", "read">>
        BY DEF Readers, ReadAt
      <4>2. Sound(mem[t], user[t].eip)
        BY <1>0, <4>1 DEF MemoryInv, InOrder
      <4>3. Reading(mem[t])
        BY <4>1, <4>2 DEF Sound
      <4> QED
        BY <4>3, PartialIs
    <3>3. s = Partial(mem[t]) \o (input \o e)
      BY <1>1, <1>7, <1>8, <3>1
    <3>4. s = (Partial(mem[t]) \o input) \o e
      <4>1. \A a \in Seq(Char) : (a \o input) \o e = a \o (input \o e)
        <5> TAKE a \in Seq(Char)
        <5>1. input \in Seq(Char) /\ e \in Seq(Char)
          BY <1>4, <1>8
        <5> QED
          BY <5>1, ConcatAssociative
      <4> QED
        BY <3>2, <3>3, <4>1, Zenon
    <3>5. Partial(mem[t]) \o input \in Streams
      BY <2>2 DEF Streams
    <3> QED
      BY <3>4, <3>5
  <2> QED
    BY <2>1, <2>2
<1> SUFFICES ASSUME NEW s \in Streams'
             PROVE  Whole(s) /\ Shells' + Cardinality(Pending(s)) <= typed'.shells
  BY DEF NestInv, Shells
<1>10. PICK o \in Streams : s = o \o Append(line, NL)
  BY <1>8, <1>9
<1>11. Whole(o) /\ Shells + Cardinality(Pending(o)) <= typed.shells
  BY DEF NestInv, Shells
<1>12. Whole(s) /\ Cardinality(Pending(s)) <= Cardinality(Pending(o)) + Announced(line)
  BY <1>2, <1>3, <1>10, <1>11, StreamGrows
<1>13. o \in Seq(Char) /\ s \in Seq(Char)
  BY <1>11, <1>12 DEF Whole
<1>14. Cardinality(Pending(s)) \in Nat /\ Cardinality(Pending(o)) \in Nat
  BY <1>13, PendingFinite
<1>15. typed.shells \in Int /\ Announced(line) \in Nat
  BY <1>0, ShellAssumption DEF TypedInv, Announced
<1> QED
  BY <1>3, <1>6, <1>11, <1>12, <1>14, <1>15, ShellsIs, ShellsIsNext

(* The kernel. *)
LEMMA KernelNest ==
  ASSUME ProgramInv, NestInv, kernel \/ UNCHANGED shell_vars
  PROVE  NestInv'
<1>0. ShellInv /\ MemoryInv /\ TypedInv
  BY DEF ProgramInv
<1>1. mem = [t \in Tasks |-> mem[t]] /\ curr_task \in Tasks
  BY <1>0 DEF MemoryInv, ShellInv, Inv, TypeOK
<1>2. Became(user[curr_task], me)
  <2>1. CASE ctx_wait_return /\ mem' = Surviving(mem, Blank)
    BY <1>0, <1>1, <2>1, WaitReturnBecomes
  <2>2. CASE (ctx_schedule \/ ctx_timer \/ UNCHANGED <<vars, ctx_vars>>) /\ UNCHANGED mem
    BY <1>0, <1>1, <2>2, IdleBecomes
  <2> QED
    BY <2>1, <2>2 DEF kernel, shell_vars
<1>3. input' = input /\ typed' = typed
  BY DEF kernel, shell_vars
<1> QED
  BY <1>0, <1>1, <1>2, <1>3, BecameNest

(* Every step keeps the count. *)
LEMMA NestStep ==
  ASSUME LongLinesHarmless, ProgramInv, NestInv, [ShellNext]_shell_vars
  PROVE  NestInv'
<1>1. ASSUME typed' = typed, init \/ sh_execv PROVE NestInv'
  BY <1>1, ExecNest
<1>2. ASSUME typed' = typed,
             sh_main \/ sh_token \/ sh_token_end \/ sh_execv_fails \/ sh_wait \/ call("sh", "failed", "exit")
      PROVE  NestInv'
  BY <1>2, QuietNest
<1>3. ASSUME typed' = typed, sh_prompt PROVE NestInv'
  BY <1>3, PromptNest
<1>4. ASSUME typed' = typed, sh_read_nothing \/ sh_read PROVE NestInv'
  BY <1>4, ReadNest
<1>5. ASSUME typed' = typed, sh_read_last PROVE NestInv'
  BY <1>5, LineNest
<1>6. ASSUME typed' = typed, sh_fork PROVE NestInv'
  BY <1>6, ForkNest
<1>7. ASSUME typed' = typed, leave("sh") PROVE NestInv'
  <2>1. Left
    BY <1>7, ExitLeaves DEF leave, ProgramInv
  <2>2. InUser /\ ~ReadAt(cpu) /\ input' = input
    BY <1>7 DEF leave, At, ReadAt
  <2> QED
    BY <1>7, <2>1, <2>2, LeaveNest
<1>8. ASSUME typed' = typed, echo \/ hello \/ ls \/ cat PROVE NestInv'
  BY <1>8, ToolNest
<1>9. CASE serial_irq
  BY <1>9, TypedNest
<1>10. CASE kernel \/ UNCHANGED shell_vars
  BY <1>10, KernelNest
<1> QED
  BY <1>1, <1>2, <1>3, <1>4, <1>5, <1>6, <1>7, <1>8, <1>9, <1>10, Zenon
     DEF ShellNext, user_programs, sh

(* A step that does not leave the current program inside wait, unless it is *)
(* to go on at its prompt.                                                  *)
LEMMA BecameSleeps ==
  ASSUME SleepsInWait, NEW r, NEW m, Became(r, m),
         Live(curr_task) /\ wpid'[curr_task] # NULL => r.eip = <<"sh", "prompt">>
  PROVE  SleepsInWait'
BY DEF SleepsInWait, Became

(* A program that calls anything but wait is not inside wait after it. *)
LEMMA KeepsWpid ==
  ASSUME init \/ sh \/ echo \/ hello \/ ls \/ cat, ~sh_wait
  PROVE  wpid' = wpid
<1>1. \A next, ret : ctx_open(next, ret) \/ ctx_other(next, ret) \/ ctx_close(next) \/ compute(next)
                     \/ ctx_fork(next) \/ ctx_execv_fails(next) => wpid' = wpid
  BY DEF ctx_open, ctx_other, ctx_close, compute, ctx_fork, ctx_execv_fails, sys_open, sys_other,
         sys_close, sys_fork, vars
<1>2. \A p, esp : ctx_execv(p, esp) => wpid' = wpid
  BY DEF ctx_execv, sys_execv
<1>3. ctx_exit => wpid' = wpid
  BY DEF ctx_exit, sys_exit
<1>4. \A p, l, next : call(p, l, next) \/ open_file(p, l, next) \/ leave(p) => wpid' = wpid
  BY <1>1, <1>3 DEF call, open_file, leave
<1>5. \A p, stack : exec(p, stack) => wpid' = wpid
  BY <1>2 DEF exec
<1>6. \A l, m : goto(l, m) => wpid' = wpid
  BY <1>1 DEF goto
<1>7. init => wpid' = wpid
  BY <1>5 DEF init
<1>8. sh => wpid' = wpid
  <2>1. sh_main \/ sh_prompt \/ sh_read_nothing \/ sh_read \/ sh_read_last => wpid' = wpid
    BY <1>1, <1>4 DEF sh_main, sh_prompt, sh_read_nothing, sh_read, sh_read_last
  <2>2. sh_token \/ sh_token_end => wpid' = wpid
    BY <1>6 DEF sh_token, sh_token_end
  <2>3. sh_fork \/ sh_execv \/ sh_execv_fails => wpid' = wpid
    BY <1>1, <1>5 DEF sh_fork, sh_execv, sh_execv_fails
  <2> QED
    BY <1>4, <2>1, <2>2, <2>3 DEF sh
<1>9. echo \/ hello \/ ls => wpid' = wpid
  BY <1>4 DEF echo, hello, ls, prints
<1>10. cat => wpid' = wpid
  BY <1>1, <1>4 DEF cat, cat_main, cat_open, cat_read, cat_close
<1> QED
  BY <1>7, <1>8, <1>9, <1>10

(* A step of a program changes the registers of no other. *)
LEMMA ProgramMoves ==
  ASSUME ShellInv, MemoryInv, init \/ sh \/ echo \/ hello \/ ls \/ cat
  PROVE  InUser /\ \A t \in Tasks : Live(t) /\ t # curr_task => user'[t] = user[t]
<1> DEFINE Others == \A t \in Tasks : Live(t) /\ t # curr_task => user'[t] = user[t]
<1>1. ASSUME NEW r, NEW m, Became(r, m) PROVE Others
  BY <1>1 DEF Became
<1>2. ASSUME NEW l, NEW m, Goes(l, m) PROVE Others
  BY <1>1, <1>2 DEF Goes
<1>3. Left => Others
  BY DEF Left
<1>4. ASSUME NEW tp, NEW next, Spawned(tp, next) PROVE Others
  BY <1>4 DEF Spawned
<1> HIDE DEF Others
<1>5. InUser
  <2>1. \A p, l : At(p, l) => InUser
    BY DEF At
  <2>2. \A p, l, next : call(p, l, next) \/ open_file(p, l, next) \/ leave(p) => InUser
    BY <2>1 DEF call, open_file, leave
  <2>3. init \/ echo \/ hello \/ ls \/ cat => InUser
    BY <2>1, <2>2 DEF init, echo, hello, ls, prints, cat, cat_main, cat_open, cat_read, cat_close
  <2>4. sh => InUser
    BY <2>1, <2>2 DEF sh, sh_main, sh_prompt, sh_read_nothing, sh_read, sh_read_last, sh_token,
         sh_token_end, sh_fork, sh_execv, sh_execv_fails, sh_wait
  <2> QED
    BY <2>3, <2>4
<1>6. CASE init \/ sh_execv
  <2>1. PICK p, stack : exec(p, stack)
    BY <1>6 DEF init, sh_execv
  <2> QED
    BY <1>1, <1>5, <2>1, ExecBecomes DEF Others
<1>7. CASE echo \/ hello \/ ls \/ cat
  BY <1>1, <1>3, <1>5, <1>7, ToolStep DEF ToolGoes, Others
<1>8. CASE leave("sh")
  BY <1>3, <1>5, <1>8, ExitLeaves DEF leave, Others
<1>9. CASE sh_fork
  <2>1. Childless /\ mem = [t \in Tasks |-> mem[t]]
    BY <1>9 DEF sh_fork, At, Childless, MemoryInv
  <2> QED
    BY <1>4, <1>5, <1>9, <2>1, ForkSpawns DEF sh_fork, Others
<1>10. CASE sh_main \/ sh_prompt \/ sh_read_nothing \/ sh_read \/ sh_read_last
  BY <1>2, <1>5, <1>10, ShGoes DEF Others
<1>11. CASE sh_token \/ sh_token_end \/ sh_execv_fails \/ sh_wait \/ call("sh", "failed", "exit")
  BY <1>2, <1>5, <1>11, ShGoes DEF Others
<1> QED
  BY <1>6, <1>7, <1>8, <1>9, <1>10, <1>11, Zenon DEF sh

(* Only shells sleep. *)
LEMMA SleepsStep ==
  ASSUME ProgramInv, [ShellNext]_shell_vars
  PROVE  SleepsInWait'
<1>0. ShellInv /\ MemoryInv /\ TypedInv /\ SleepsInWait /\ WaitersLive
  BY DEF ProgramInv, ShellInv, Inv
<1>1. mem = [t \in Tasks |-> mem[t]] /\ curr_task \in Tasks
  BY <1>0 DEF MemoryInv, ShellInv, Inv, TypeOK
<1>2. CASE kernel \/ serial_irq \/ UNCHANGED shell_vars
  <2>1. CASE ctx_wait_return /\ mem' = Surviving(mem, Blank)
    BY <1>0, <1>1, <2>1, WaitReturnBecomes, BecameSleeps
  <2>2. CASE (ctx_schedule \/ ctx_timer \/ UNCHANGED <<vars, ctx_vars>>) /\ UNCHANGED mem
    <3>1. Became(user[curr_task], me) /\ wpid' = wpid
      BY <1>0, <1>1, <2>2, IdleBecomes
    <3>2. Live(curr_task) /\ wpid'[curr_task] # NULL => user[curr_task].eip = <<"sh", "prompt">>
      BY <1>0, <1>1, <3>1 DEF SleepsInWait
    <3> QED
      BY <1>0, <3>1, <3>2, BecameSleeps
  <2> QED
    BY <1>2, <2>1, <2>2 DEF kernel, serial_irq, shell_vars
<1>3. CASE sh_wait
  <2>1. PICK eax, esp : Became([eip |-> <<"sh", "prompt">>, eax |-> eax, esp |-> esp], me)
    BY <1>0, <1>3, ShGoes DEF Goes
  <2>2. PICK r : r = [eip |-> <<"sh", "prompt">>, eax |-> eax, esp |-> esp]
    OBVIOUS
  <2> QED
    BY <1>0, <2>1, <2>2, BecameSleeps
<1>4. CASE user_programs /\ ~sh_wait
  <2>1. wpid' = wpid
    BY <1>4, KeepsWpid DEF user_programs
  <2>2. InUser /\ \A t \in Tasks : Live(t) /\ t # curr_task => user'[t] = user[t]
    BY <1>0, <1>4, ProgramMoves DEF user_programs
  <2>3. wpid[curr_task] = NULL
    BY <1>0, <2>2, CurrentInOrder
  <2> QED
    BY <1>0, <2>1, <2>2, <2>3 DEF SleepsInWait, WaitersLive
<1> QED
  BY <1>2, <1>3, <1>4 DEF ShellNext, user_programs

(* Nothing is typed, and only init is there. *)
LEMMA NestInit == ShellInit => NestInv /\ SleepsInWait
<1> SUFFICES ASSUME ShellInit PROVE NestInv /\ SleepsInWait
  OBVIOUS
<1>1. /\ input = <<>> /\ typed = [lines |-> 0, shells |-> 0, failing |-> 0]
      /\ user = [t \in Tasks |-> IF t = init_task THEN [eip |-> <<"init", "main">>, eax |-> 0, esp |-> USTACK]
                                 ELSE NoRegs]
      /\ wpid = [t \in Tasks |-> NULL]
  BY DEF ShellInit, CtxInit, build_int_frame, e_entry, init_tasks
<1>2. \A t \in Tasks : user[t].eip = IF t = init_task THEN <<"init", "main">> ELSE <<"", "">>
  BY <1>1 DEF NoRegs
<1>3. SleepsInWait
  BY <1>1 DEF SleepsInWait
<1>4. \A t \in Tasks : ~ReadAt(user[t]) /\ ~StartAt(user[t], mem[t]) /\ (t # init_task => ~NestAt(user[t]))
  <2>1. \A t \in Tasks : user[t].eip[1] # "sh" /\ (t # init_task => user[t].eip[1] # "init")
    <3> TAKE t \in Tasks
    <3>1. CASE t = init_task
      <4>1. user[t].eip = <<"init", "main">>
        BY <1>2, <3>1
      <4> QED
        BY <3>1, <4>1
    <3>2. CASE t # init_task
      <4>1. user[t].eip = <<"", "">>
        BY <1>2, <3>2
      <4>2. <<"", "">>[1] # "sh" /\ <<"", "">>[1] # "init"
        BY Zenon
      <4> QED
        BY <4>1, <4>2, Zenon
    <3> QED
      BY <3>1, <3>2
  <2>2. \A l : <<"sh", l>>[1] = "sh"
    OBVIOUS
  <2> QED
    BY <2>1, <2>2 DEF ReadAt, StartAt, NestAt
<1>5. Nested = {} /\ Starting = {} /\ Readers = {}
  BY <1>4 DEF Nested, Starting, Readers
<1>6. Streams = {<<>>}
  BY <1>1, <1>5 DEF Streams
<1>7. Len(<<>>) = 0 /\ <<>> \in Seq(Char) /\ 1 .. 0 = {}
  OBVIOUS
<1>8. Whole(<<>>) /\ Pending(<<>>) = {}
  BY <1>7 DEF Whole, Pending
<1>9. Cardinality({}) = 0
  BY FS_EmptySet
<1>10. typed.shells = 0
  BY <1>1
<1>11. NestInv
  <2>1. Cardinality(Nested) = 0 /\ Cardinality(Starting) = 0 /\ Cardinality(Pending(<<>>)) = 0
    BY <1>5, <1>8, <1>9
  <2>2. Cardinality(Nested) + Cardinality(Starting) + Cardinality(Pending(<<>>)) <= typed.shells
    BY <1>10, <2>1
  <2>3. \A s \in Streams : s = <<>>
    BY <1>6
  <2> QED
    BY <1>8, <2>2, <2>3 DEF NestInv
<1> QED
  BY <1>3, <1>11

(* Every task but the one without a child is a shell that waits. *)
LEMMA AllNested ==
  ASSUME ProgramInv, At("sh", "fork"), \A t \in Tasks : state[t] # "UNUSED"
  PROVE  Nested = Tasks \ {scheduler_task, init_task}
<1>0. /\ ShellInv /\ MemoryInv /\ SleepsInWait /\ Inv /\ TypeOK /\ OneRunning /\ AwaitsChild /\ OneChild
      /\ ParentIsTask /\ CtxInv /\ ResumesIntact /\ FixedSlots
  BY DEF ProgramInv, ShellInv, Inv, CtxInv, Tree
<1>1. InUser /\ cpu.eip = <<"sh", "fork">> /\ Childless
  BY DEF At, Childless
<1>2. /\ curr_task \in Tasks \ {scheduler_task} /\ cpu = user[curr_task] /\ machine = "up"
  BY <1>0, <1>1, CurrentInOrder
<1>3. \A c \in Tasks : parent[c] # curr_task
  BY <1>0, <1>1, ChildlessIs
<1>4. \A z \in Tasks : state[z] # "ZOMBIE"
  BY <1>0, <1>2, <1>3, NoZombie
<1>5. \A t \in Tasks : Live(t)
  BY <1>0, <1>4 DEF TypeOK, Live
<1> SUFFICES ASSUME NEW t \in Tasks \ {scheduler_task, init_task} PROVE NestAt(user[t])
  BY <1>5 DEF Nested
<1>6. CASE t = curr_task
  BY <1>1, <1>2, <1>6 DEF NestAt
<1>7. CASE t # curr_task
  <2>1. PICK c \in Tasks : parent[c] = t
    <3> SUFFICES ASSUME \A c \in Tasks : parent[c] # t PROVE FALSE
      OBVIOUS
    <3>1. \A c \in Tasks : parent[c] # t /\ parent[c] # curr_task
      BY <1>3
    <3>2. t = curr_task
      BY <1>0, <1>2, <3>1, OneLeaf
    <3> QED
      BY <1>7, <3>2
  <2>2. c # 0
    BY <1>0, <2>1 DEF FixedSlots
  <2>3. CASE wpid[t] = c
    <3>1. user[t].eip = <<"sh", "prompt">>
      BY <1>0, <1>5, <2>3 DEF SleepsInWait
    <3> QED
      BY <3>1 DEF NestAt
  <2>4. CASE Forked(user[t], c)
    BY <2>2, <2>4 DEF Forked, NestAt
  <2> QED
    BY <1>0, <2>1, <2>3, <2>4 DEF AwaitsChild
<1> QED
  BY <1>6, <1>7

(* With more slots than shells there is a free one. *)
LEMMA RoomToFork ==
  ASSUME MAX_TASKS >= NEST + 3, ProgramInv, NestInv
  PROVE  NeverFull
<1> SUFFICES ASSUME At("sh", "fork"), \A t \in Tasks : state[t] # "UNUSED" PROVE FALSE
  BY DEF NeverFull
<1>1. Nested = 2 .. MAX_TASKS - 1
  <2>1. Nested = Tasks \ {scheduler_task, init_task}
    BY AllNested
  <2>2. (0 .. MAX_TASKS - 1) \ {0, 1} = 2 .. MAX_TASKS - 1
    BY ProcAssumption
  <2> QED
    BY <2>1, <2>2
<1>2. NEST \in Nat /\ MAX_TASKS \in Nat
  BY ShellAssumption
<1>3. Cardinality(Nested) = MAX_TASKS - 2
  <2>1. Cardinality(2 .. MAX_TASKS - 1) = (MAX_TASKS - 1) - 2 + 1
    BY <1>2, FS_Interval
  <2> QED
    BY <1>1, <1>2, <2>1
<1>4. PICK s : s \in Streams
  BY DEF Streams
<1>5. Whole(s) /\ Cardinality(Nested) + Cardinality(Starting) + Cardinality(Pending(s)) <= typed.shells
  BY <1>4 DEF NestInv
<1>6. Cardinality(Pending(s)) \in Nat
  BY <1>5, PendingFinite DEF Whole
<1>7. typed.shells \in 0 .. NEST
  BY DEF ProgramInv, TypedInv
<1> QED
  BY <1>2, <1>3, <1>5, <1>6, <1>7, ShellsIs

(* The shell finds a free slot for every program it starts, so allocate_task *)
(* never returns the null pointer that sys_fork would write through.         *)
THEOREM RoomForEveryProgram ==
  ASSUME MAX_OPEN_FILES >= 2, MAX_OPEN_FILES >= MAX_ARG - 1,
         MAX_TASKS >= NEST + 3, LongLinesHarmless
  PROVE  ShellSpec => []NeverFull
<1> DEFINE J == NestInv /\ SleepsInWait
<1>1. ShellInv /\ MemoryInv /\ TypedInv /\ J /\ [ShellNext]_shell_vars => J'
  BY NestStep, SleepsStep DEF ProgramInv
<1>2. ShellInv /\ MemoryInv /\ TypedInv /\ J => NeverFull
  BY RoomToFork DEF ProgramInv
<1>3. ShellInit => J
  BY NestInit
<1>4. ShellSpec => [](ShellInv /\ MemoryInv /\ TypedInv)
  <2>1. ShellInv /\ MemoryInv /\ TypedInv /\ FilesHeld => ShellInv /\ MemoryInv /\ TypedInv
    OBVIOUS
  <2> QED
    BY <2>1, ShellAlways, PTL
<1> HIDE DEF J
<1> QED
  BY <1>1, <1>2, <1>3, <1>4, PTL DEF ShellSpec

=============================================================================
