------------------------------ MODULE Context ------------------------------
(***************************************************************************)
(* The registers of user programs across traps, switches and fork.  Proc   *)
(* says which task runs; this module says what it runs with.               *)
(*                                                                         *)
(* A trap makes the processor and int_common push the program's registers  *)
(* on the kernel stack that task_state.esp0 names.  If the handler returns *)
(* they are popped from there.  If it calls switch_to they stay, a context *)
(* is saved above them, and tasks[t].context says on which stack and where *)
(* in the kernel the task goes on.                                         *)
(***************************************************************************)
EXTENDS Proc

CONSTANTS
  Programs,  \* the ELF files
  Labels,    \* places in the code of a program; "main" is the entry point
  USTACK,    \* PGSIZE - 8, where the stack of a new program starts
  BAD_ARGV   \* may a program pass execv an argv that cannot be read?

ASSUME ContextAssumption == "main" \in Labels /\ USTACK \in Nat /\ BAD_ARGV \in BOOLEAN

VARIABLES
  cpu,       \* registers of the user program, NoRegs while the kernel stays
  frame,     \* the struct int_regs at the top of the kernel stack of a task
  context,   \* tasks[t].context: the stack it points into, and its eip
  esp0,      \* the task whose kernel stack task_state.esp0 names
  image,     \* the program that is loaded at address 0 of a task
  user       \* history: the registers a task's program has to find next

ctx_vars == <<cpu, frame, context, esp0, image, user>>

(* Of the registers of struct int_regs: eax returns the result of a system  *)
(* call; a code address is a program and a place in it.                     *)
NoRegs == [eip |-> <<"", "">>, eax |-> 0, esp |-> 0]

NoContext == [kstack |-> NULL, eip |-> ""]

e_entry(p) == <<p, "main">>

build_int_frame(entry) == [eip |-> entry, eax |-> 0, esp |-> USTACK]

build_context(tp) == [kstack |-> tp, eip |-> "ret_to_int_site"]

(* register_task gave init the frames it starts from. *)
CtxInit ==
  /\ init_tasks
  /\ cpu = NoRegs
  /\ frame = [t \in Tasks |-> IF t = init_task THEN build_int_frame(e_entry("init")) ELSE NoRegs]
  /\ context = [t \in Tasks |-> IF t = init_task THEN build_context(t) ELSE NoContext]
  /\ esp0 = scheduler_task
  /\ image = [t \in Tasks |-> IF t = init_task THEN "init" ELSE ""]
  /\ user = [t \in Tasks |-> IF t = init_task THEN build_int_frame(e_entry("init")) ELSE NoRegs]

---------------------------------------------------------------------------
(* The frames after the processor and int_common pushed the registers of    *)
(* the program, which is to go on at next.                                  *)
int_common(next) == [frame EXCEPT ![esp0] = [cpu EXCEPT !.eip = next]]

(* f without the tasks that this step has destroyed. *)
Surviving(f, none) == [t \in Tasks |-> IF state'[t] = "UNUSED" THEN none ELSE f[t]]

(* Registers are popped from kernel stack k.  Proc's part of the step comes *)
(* first: it says which tasks are gone.                                     *)
ret_to_int_site(fr, k) ==
  /\ cpu' = fr[k]
  /\ frame' = Surviving([fr EXCEPT ![k] = NoRegs], NoRegs)

(* The rest of a system call that returns ret: kill_off_zombies (its part   *)
(* in Proc has chosen the dead) and the way back; result are the registers  *)
(* that the program is to find.                                             *)
trampoline_returns(fr, result) ==
  /\ ret_to_int_site(fr, esp0)
  /\ context' = Surviving(context, NoContext)
  /\ user' = Surviving([user EXCEPT ![curr_task] = result], NoRegs)
  /\ UNCHANGED esp0

Returned(next, ret) == [eip |-> next, eax |-> ret, esp |-> cpu.esp]

(* A system call that changes nothing of another task's registers. *)
syscall_returns(next, ret) ==
  /\ trampoline_returns([int_common(next) EXCEPT ![esp0].eax = ret], Returned(next, ret))
  /\ image' = Surviving(image, "")

(* Mutant: task_state.esp0 is not set. *)
Esp0_kept(next) == esp0

(* The kernel stack that switch_to makes the next trap use. *)
Esp0(next) == next

(* context_switch: the context of the current task is saved on the stack it *)
(* is running on.                                                           *)
context_switch(next, eip) ==
  /\ context' = [context EXCEPT ![curr_task] = [kstack |-> esp0, eip |-> eip]]
  /\ esp0' = Esp0(next)

(* A trap whose handler switches to the scheduler.                          *)
trap_and_leave(next, eip) ==
  /\ frame' = int_common(next)
  /\ context_switch(scheduler_task, eip)
  /\ cpu' = NoRegs
  /\ UNCHANGED image

---------------------------------------------------------------------------
(* The next task goes on where its context says: on the way out of the      *)
(* kernel, or inside sys_wait.                                              *)
ctx_schedule ==
  /\ schedule
  /\ context_switch(curr_task', "schedule")
  /\ \/ /\ context[curr_task'].eip # "sys_wait"
        /\ ret_to_int_site(frame, context[curr_task'].kstack)
     \/ /\ context[curr_task'].eip = "sys_wait"
        /\ UNCHANGED <<cpu, frame>>
  /\ UNCHANGED <<image, user>>

ctx_timer ==
  /\ timer_irq
  /\ trap_and_leave(cpu.eip, "trampoline")
  /\ UNCHANGED user

(* The child starts from a new frame with the parent's registers in it. *)
Child(fr) == [build_int_frame(fr.eip) EXCEPT !.esp = fr.esp, !.eax = 0]

ctx_fork(next) ==
  /\ sys_fork
  /\ \E tp \in Tasks :
       /\ alloc_task(tp)
       /\ LET fr == int_common(next) IN
            ret_to_int_site([fr EXCEPT ![tp] = Child(fr[esp0]), ![esp0].eax = tp], esp0)
       /\ context' = Surviving([context EXCEPT ![tp] = build_context(tp)], NoContext)
       /\ image' = Surviving([image EXCEPT ![tp] = image[curr_task]], "")
       /\ user' = Surviving([user EXCEPT ![tp] = Returned(next, 0),
                                         ![curr_task] = Returned(next, tp)], NoRegs)
  /\ UNCHANGED esp0

ctx_exit ==
  /\ sys_exit
  /\ \/ machine' = "up" /\ trap_and_leave(cpu.eip, "sys_exit")
     \/ machine' # "up" /\ frame' = int_common(cpu.eip) /\ UNCHANGED <<cpu, context, esp0, image>>
  /\ user' = [user EXCEPT ![curr_task] = NoRegs]

(* wait returns at once, with the pid of a zombie or -1. *)
ctx_wait(next) ==
  /\ sys_wait
  /\ \E ret \in Tasks \cup {-1} :
       /\ IF ret = -1 THEN Children(curr_task) = {} ELSE FirstChild(ret)
       /\ syscall_returns(next, ret)

ctx_sleep(next) ==
  /\ sleep
  /\ trap_and_leave(next, "sys_wait")
  /\ user' = [user EXCEPT ![curr_task] = Returned(next, wpid'[curr_task])]

ctx_wait_return ==
  /\ sys_wait_return
  /\ LET k == context[curr_task].kstack IN
       ret_to_int_site([frame EXCEPT ![k].eax = wpid[curr_task]], k)
  /\ context' = Surviving(context, NoContext)
  /\ image' = Surviving(image, "")
  /\ user' = Surviving(user, NoRegs)
  /\ UNCHANGED esp0

ctx_open(next, fd) == sys_open /\ syscall_returns(next, fd)

ctx_close(next) == sys_close /\ syscall_returns(next, 0)

ctx_other(next, ret) == sys_other /\ syscall_returns(next, ret)

(* execv loads p and leaves esp as the new program's stack pointer. *)
ctx_execv(p, esp) ==
  /\ sys_execv
  /\ LET regs == [eip |-> e_entry(p), eax |-> 0, esp |-> esp] IN
       trampoline_returns([frame EXCEPT ![esp0] = regs], regs)
  /\ image' = Surviving([image EXCEPT ![curr_task] = p], "")

(* An argument, the file or its ELF header is wrong: back to the caller.    *)
ctx_execv_fails(next) == ctx_other(next, -1)

(* prepare_ustack cannot read argv.  The handler returns -1 as well, but    *)
(* the frame has been changed by then and stays changed.                    *)
ctx_execv_bad_argv(p, next) ==
  /\ sys_other
  /\ trampoline_returns([frame EXCEPT ![esp0] = [eip |-> e_entry(p), eax |-> -1, esp |-> USTACK]],
                        Returned(next, -1))
  /\ image' = Surviving(image, "")

---------------------------------------------------------------------------
(* Programs that compute and issue system calls as they like.               *)
compute(next) ==
  /\ InUser
  /\ cpu' = [cpu EXCEPT !.eip = next]
  /\ user' = [user EXCEPT ![curr_task] = cpu']
  /\ UNCHANGED <<vars, frame, context, esp0, image>>

AnyProgram == \E l \in Labels : LET next == <<image[curr_task], l>> IN
  \/ compute(next)
  \/ ctx_fork(next) \/ ctx_exit
  \/ ctx_wait(next) \/ ctx_sleep(next)
  \/ ctx_open(next, 0) \/ ctx_close(next) \/ ctx_other(next, 0)
  \/ ctx_execv_fails(next)
  \/ \E p \in Programs : ctx_execv(p, USTACK) \/ (BAD_ARGV /\ ctx_execv_bad_argv(p, next))

CtxNext ==
  \/ ctx_schedule \/ ctx_timer \/ ctx_wait_return
  \/ AnyProgram
  \/ (panic \/ sys_fork_full \/ stopped) /\ UNCHANGED ctx_vars

CtxSpec == CtxInit /\ [][CtxNext]_<<vars, ctx_vars>>
---------------------------------------------------------------------------
(* What a program finds in its registers whenever it gets the CPU is what   *)
(* it left in them, or the result of the system call it made: no trap of    *)
(* another task, switch or reuse of a kernel stack in between shows.  The   *)
(* child of a fork finds its parent's registers and 0.                      *)
ResumesIntact == InUser => cpu = user[curr_task]

(* The CPU executes the program that is loaded in the current task's        *)
(* address space.  In particular an execv that failed goes on in the        *)
(* program that called it.                                                  *)
RunsOwnImage == InUser => cpu.eip[1] = image[curr_task]
===========================================================================
