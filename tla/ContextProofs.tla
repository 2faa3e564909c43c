---------------------------- MODULE ContextProofs ----------------------------
(***************************************************************************)
(* Proofs about the registers of programs, for any number of tasks and any *)
(* programs, overruns of open_files included.                              *)
(*                                                                         *)
(* The argument: a program's registers are in one of two places.  While it *)
(* executes they are in the CPU, and the next trap will push them on its   *)
(* own kernel stack.  While it does not, its context leads to its own      *)
(* stack and the frame there holds what the program is to find (Parked);   *)
(* a task that sleeps in sys_wait still has to get its result.             *)
(***************************************************************************)
EXTENDS Context, ProcProofs

(* r is a struct int_regs. *)
IsRegs(r) == r = [eip |-> r.eip, eax |-> r.eax, esp |-> r.esp]

(* The registers of t wait on the kernel stack of t. *)
Parked(t) ==
  /\ IsRegs(frame[t])
  /\ context[t].kstack = t
  /\ (context[t].eip = "sys_wait") <=> (wpid[t] # NULL)
  /\ user[t] = IF wpid[t] = NULL THEN frame[t] ELSE [frame[t] EXCEPT !.eax = wpid[t]]

(* The tables are indexed by tasks. *)
Tables ==
  /\ frame = [t \in Tasks |-> frame[t]]
  /\ context = [t \in Tasks |-> context[t]]
  /\ user = [t \in Tasks |-> user[t]]
  /\ image = [t \in Tasks |-> image[t]]

(* Every program but the one that executes is parked. *)
OthersParked ==
  machine = "up" =>
    \A t \in Tasks : t # scheduler_task /\ Live(t) /\ (t # curr_task \/ wpid[t] # NULL) => Parked(t)

(* A program is to go on in the code that is loaded for it. *)
OwnCode ==
  machine = "up" => \A t \in Tasks : t # scheduler_task /\ Live(t) => user[t].eip[1] = image[t]

CtxInv ==
  /\ Core
  /\ WaitersLive
  /\ Tables
  /\ IsRegs(cpu)
  /\ machine = "up" => esp0 = curr_task
  /\ ResumesIntact
  /\ OthersParked
  /\ OwnCode

(* What the programs of any specification on top of Context may do: go on   *)
(* anywhere in their own code, and make any call with any result but an     *)
(* execv whose argv cannot be read.                                         *)
ProgramStep ==
  \/ \E next : /\ next[1] = image[curr_task]
               /\ \/ compute(next) \/ ctx_fork(next) \/ ctx_wait(next) \/ ctx_sleep(next)
                  \/ ctx_close(next)
                  \/ \E ret : ctx_open(next, ret) \/ ctx_other(next, ret)
  \/ \E p, esp : ctx_execv(p, esp)
  \/ ctx_exit

CtxStep ==
  \/ ctx_schedule \/ ctx_timer \/ ctx_wait_return
  \/ ProgramStep
  \/ (panic \/ sys_fork_full \/ stopped) /\ UNCHANGED ctx_vars

USE ProcAssumption, ContextAssumption
    DEF Tasks, scheduler_task, init_task, NULL, FILE, procstate

(* Every step is a step of the task table, or leaves it alone. *)
LEMMA CtxStepIsStep == [CtxStep]_<<vars, ctx_vars>> => [Next]_vars
  BY DEF CtxStep, ProgramStep, ctx_schedule, ctx_timer, ctx_wait_return, compute, ctx_fork,
     ctx_wait, ctx_sleep, ctx_close, ctx_open, ctx_other, ctx_execv, ctx_exit, Next

(* register_task leaves init parked. *)
LEMMA CtxInitInv == CtxInit => CtxInv
<1> SUFFICES ASSUME CtxInit PROVE CtxInv
  OBVIOUS
<1> USE DEF CtxInit, init_tasks
<1>1. Core /\ WaitersLive
  BY InitInv DEF Inv, FixedSlots, Core
<1>2. Tables /\ IsRegs(cpu) /\ esp0 = curr_task
  BY DEF Tables, IsRegs, NoRegs
<1>3. ResumesIntact
  BY DEF ResumesIntact, InUser
<1>4. OthersParked
  BY DEF OthersParked, Parked, Live, IsRegs, build_int_frame, build_context
<1>5. OwnCode
  BY DEF OwnCode, Live, build_int_frame, e_entry
<1> QED
  BY <1>1, <1>2, <1>3, <1>4, <1>5 DEF CtxInv
(* A system call that returns: the caller finds its result in the CPU, and  *)
(* every other task is as it was or has been parked by the call.            *)
LEMMA ReturnCtx ==
  ASSUME CtxInv, Core', WaitersLive', Tables', IsRegs(cpu)',
         machine = "up", machine' = "up", curr_task' = curr_task,
         curr_task # scheduler_task, esp0' = esp0,
         \A t \in Tasks : wpid'[t] = IF t = curr_task THEN NULL ELSE wpid[t],
         cpu' = user'[curr_task], cpu'.eip[1] = image'[curr_task],
         \A t \in Tasks : t # curr_task /\ t # scheduler_task /\ Live(t)' =>
           \/ /\ Live(t) /\ frame'[t] = frame[t] /\ context'[t] = context[t]
              /\ user'[t] = user[t] /\ image'[t] = image[t]
           \/ Parked(t)' /\ user'[t].eip[1] = image'[t]
  PROVE  CtxInv'
<1>1. curr_task \in Tasks
  BY DEF CtxInv, Core, TypeOK
<1>2. ResumesIntact'
  BY <1>1 DEF ResumesIntact, InUser
<1>3. ASSUME NEW t \in Tasks, t # scheduler_task, Live(t)', t # curr_task
      PROVE  Parked(t)' /\ user'[t].eip[1] = image'[t]
  <2>1. CASE /\ Live(t) /\ frame'[t] = frame[t] /\ context'[t] = context[t]
             /\ user'[t] = user[t] /\ image'[t] = image[t]
    <3>1. Parked(t) /\ user[t].eip[1] = image[t]
      BY <1>3, <2>1 DEF CtxInv, OthersParked, OwnCode
    <3>2. wpid'[t] = wpid[t]
      BY <1>3
    <3> QED
      BY <2>1, <3>1, <3>2 DEF Parked
  <2> QED
    BY <1>3, <2>1
<1>4. OthersParked'
  BY <1>1, <1>3 DEF OthersParked
<1>5. OwnCode'
  BY <1>1, <1>3 DEF OwnCode
<1>6. (machine = "up" => esp0 = curr_task)'
  BY DEF CtxInv
<1> QED
  BY <1>2, <1>4, <1>5, <1>6 DEF CtxInv

(* A call that forks nothing: the frame it pops is the one the trap pushed  *)
(* with the result in it, or the one execv built.                           *)
LEMMA PlainCtx ==
  ASSUME CtxInv, Core', WaitersLive', InUser,
         NEW par, NEW nf, kill_off_zombies(state, par, nf),
         UNCHANGED <<wpid, curr_task, machine>>,
         NEW fr, NEW result, trampoline_returns(fr, result), IsRegs(result),
         \A t \in Tasks : fr[t] = IF t = curr_task THEN result ELSE frame[t],
         fr = [t \in Tasks |-> fr[t]],
         NEW im, image' = Surviving(im, ""),
         \A t \in Tasks : im[t] = IF t = curr_task THEN result.eip[1] ELSE image[t]
  PROVE  CtxInv'
<1>1. /\ machine = "up" /\ machine' = "up" /\ curr_task # scheduler_task
      /\ curr_task' = curr_task /\ curr_task \in Tasks /\ wpid[curr_task] = NULL
      /\ esp0 = curr_task /\ esp0' = esp0
      /\ state[curr_task] = "RUNNING" /\ state'[curr_task] = "RUNNING"
      /\ Tables
  BY DEF InUser, CtxInv, Core, TypeOK, OneRunning, trampoline_returns
<1>2. \A t \in Tasks : Live(t)' => Live(t) /\ state'[t] # "UNUSED"
  BY DEF kill_off_zombies, destroy_task, Reaped, Live
<1>3. /\ cpu' = fr[curr_task]
      /\ frame' = Surviving([fr EXCEPT ![curr_task] = NoRegs], NoRegs)
      /\ context' = Surviving(context, NoContext)
      /\ user' = Surviving([user EXCEPT ![curr_task] = result], NoRegs)
  BY <1>1 DEF trampoline_returns, ret_to_int_site
<1>4. Tables'
  <2>1. frame' = [t \in Tasks |-> frame'[t]]
    BY <1>3 DEF Surviving
  <2>2. context' = [t \in Tasks |-> context'[t]]
    BY <1>3 DEF Surviving
  <2>3. user' = [t \in Tasks |-> user'[t]]
    <3> DEFINE u == [user EXCEPT ![curr_task] = result]
    <3>1. user' = Surviving(u, NoRegs)
      BY <1>3
    <3> HIDE DEF u
    <3> QED
      BY <3>1 DEF Surviving
  <2>4. image' = [t \in Tasks |-> image'[t]]
    BY DEF Surviving
  <2> QED
    BY <2>1, <2>2, <2>3, <2>4 DEF Tables
<1>5. /\ [user EXCEPT ![curr_task] = result][curr_task] = result
      /\ \A t \in Tasks : t # curr_task => [user EXCEPT ![curr_task] = result][t] = user[t]
      /\ \A t \in Tasks : t # curr_task => [fr EXCEPT ![curr_task] = NoRegs][t] = frame[t]
  <2>1. user = [t \in Tasks |-> user[t]]
    BY <1>1 DEF Tables
  <2> QED
    BY <1>1, <2>1
<1>6. cpu' = user'[curr_task] /\ cpu' = result /\ cpu'.eip[1] = image'[curr_task]
  BY <1>1, <1>3, <1>5 DEF Surviving
<1>7. \A t \in Tasks : t # curr_task /\ Live(t)' =>
        /\ frame'[t] = frame[t] /\ context'[t] = context[t]
        /\ user'[t] = user[t] /\ image'[t] = image[t]
  BY <1>2, <1>3, <1>5 DEF Surviving
<1>8. \A t \in Tasks : wpid'[t] = IF t = curr_task THEN NULL ELSE wpid[t]
  BY <1>1
<1>9. IsRegs(cpu)'
  BY <1>6 DEF IsRegs
<1> QED
  BY <1>1, <1>2, <1>4, <1>6, <1>7, <1>8, <1>9, ReturnCtx

(* The frame that a trap leaves, with a result in it. *)
LEMMA PushedFrame ==
  ASSUME CtxInv, InUser, NEW next, NEW ret
  PROVE  LET fr == [int_common(next) EXCEPT ![esp0].eax = ret] IN
           /\ fr = [t \in Tasks |-> fr[t]]
           /\ \A t \in Tasks : fr[t] = IF t = curr_task THEN Returned(next, ret) ELSE frame[t]
           /\ Returned(next, ret) = [eip |-> next, eax |-> ret, esp |-> cpu.esp]
           /\ IsRegs(Returned(next, ret))
<1>1. esp0 = curr_task /\ curr_task \in Tasks /\ frame = [t \in Tasks |-> frame[t]]
  BY DEF CtxInv, InUser, Core, TypeOK, Tables
<1>2. cpu = [eip |-> cpu.eip, eax |-> cpu.eax, esp |-> cpu.esp]
  BY DEF CtxInv, IsRegs
<1>3. Returned(next, ret) = [eip |-> next, eax |-> ret, esp |-> cpu.esp]
  BY DEF Returned
<1>4. [cpu EXCEPT !.eip = next] = [eip |-> next, eax |-> cpu.eax, esp |-> cpu.esp]
  BY <1>2
<1>5. /\ int_common(next) = [t \in Tasks |-> int_common(next)[t]]
      /\ \A t \in Tasks : int_common(next)[t] =
           IF t = curr_task THEN [eip |-> next, eax |-> cpu.eax, esp |-> cpu.esp] ELSE frame[t]
  BY <1>1, <1>4 DEF int_common
<1> DEFINE g == int_common(next)
           fr == [g EXCEPT ![esp0].eax = ret]
<1>6. g[curr_task] = [eip |-> next, eax |-> cpu.eax, esp |-> cpu.esp]
  BY <1>1, <1>5
<1>7. fr = [t \in Tasks |-> IF t = curr_task THEN [g[t] EXCEPT !.eax = ret] ELSE g[t]]
  <2> HIDE DEF g
  <2>1. g = [t \in Tasks |-> g[t]]
    BY <1>5 DEF g
  <2> QED
    BY <1>1, <2>1
<1>8. [g[curr_task] EXCEPT !.eax = ret] = [eip |-> next, eax |-> ret, esp |-> cpu.esp]
  <2> HIDE DEF g
  <2> QED
    BY <1>6
<1>9. IsRegs(Returned(next, ret))
  BY <1>3 DEF IsRegs
<1> QED
  <2> HIDE DEF g
  <2>1. \A t \in Tasks : fr[t] = IF t = curr_task THEN Returned(next, ret) ELSE frame[t]
    BY <1>1, <1>3, <1>5, <1>7, <1>8 DEF g
  <2>2. fr = [t \in Tasks |-> fr[t]]
    BY <1>7
  <2> QED
    BY <1>3, <1>9, <2>1, <2>2 DEF g

-----------------------------------------------------------------------------
(* The calls that fork nothing. *)
LEMMA PlainCallStep ==
  ASSUME CtxInv, Core', WaitersLive', NEW next, next[1] = image[curr_task],
         \/ ctx_wait(next) \/ ctx_close(next)
         \/ \E ret : ctx_open(next, ret) \/ ctx_other(next, ret)
  PROVE  CtxInv'
<1>1. PICK ret : syscall_returns(next, ret)
  BY DEF ctx_wait, ctx_close, ctx_open, ctx_other
<1>2. /\ InUser /\ UNCHANGED <<wpid, curr_task, machine>>
      /\ \E par, nf : kill_off_zombies(state, par, nf)
  BY DEF ctx_wait, ctx_close, ctx_open, ctx_other, sys_wait, sys_close, sys_open, sys_other
<1> DEFINE fr == [int_common(next) EXCEPT ![esp0].eax = ret]
<1>3. /\ fr = [t \in Tasks |-> fr[t]]
      /\ \A t \in Tasks : fr[t] = IF t = curr_task THEN Returned(next, ret) ELSE frame[t]
      /\ IsRegs(Returned(next, ret))
  BY <1>2, PushedFrame
<1>4. trampoline_returns(fr, Returned(next, ret)) /\ image' = Surviving(image, "")
  BY <1>1 DEF syscall_returns
<1>5. \A t \in Tasks : image[t] = IF t = curr_task THEN Returned(next, ret).eip[1] ELSE image[t]
  BY DEF Returned
<1> HIDE DEF fr
<1> QED
  BY <1>2, <1>3, <1>4, <1>5, PlainCtx

(* execv replaces the frame and the program together. *)
LEMMA ExecvCtxStep ==
  ASSUME CtxInv, Core', WaitersLive', NEW p, NEW esp, ctx_execv(p, esp)
  PROVE  CtxInv'
<1> DEFINE regs == [eip |-> e_entry(p), eax |-> 0, esp |-> esp]
           fr == [frame EXCEPT ![esp0] = regs]
           im == [image EXCEPT ![curr_task] = p]
<1>1. /\ InUser /\ UNCHANGED <<wpid, curr_task, machine>>
      /\ \E nf : kill_off_zombies(state, parent, nf)
      /\ trampoline_returns(fr, regs) /\ image' = Surviving(im, "")
  BY DEF ctx_execv, sys_execv
<1>2. /\ esp0 = curr_task /\ curr_task \in Tasks
      /\ frame = [t \in Tasks |-> frame[t]] /\ image = [t \in Tasks |-> image[t]]
  BY <1>1 DEF CtxInv, InUser, Core, TypeOK, Tables
<1>3. IsRegs(regs) /\ regs.eip[1] = p
  BY DEF IsRegs, e_entry
<1> HIDE DEF regs
<1>4. fr = [t \in Tasks |-> fr[t]] /\ \A t \in Tasks : fr[t] = IF t = curr_task THEN regs ELSE frame[t]
  BY <1>2
<1>5. \A t \in Tasks : im[t] = IF t = curr_task THEN regs.eip[1] ELSE image[t]
  BY <1>2, <1>3
<1> HIDE DEF fr, im
<1> QED
  BY <1>1, <1>3, <1>4, <1>5, PlainCtx

(* A program that executes. *)
LEMMA ComputeStep ==
  ASSUME CtxInv, Core', WaitersLive', NEW next, next[1] = image[curr_task], compute(next)
  PROVE  CtxInv'
<1>1. /\ InUser /\ UNCHANGED <<state, wpid, curr_task, machine>>
      /\ UNCHANGED <<frame, context, esp0, image>>
      /\ cpu' = [cpu EXCEPT !.eip = next] /\ user' = [user EXCEPT ![curr_task] = cpu']
  BY DEF compute, vars
<1>2. /\ machine = "up" /\ curr_task # scheduler_task /\ curr_task \in Tasks
      /\ wpid[curr_task] = NULL /\ user = [t \in Tasks |-> user[t]]
  BY <1>1 DEF CtxInv, InUser, Core, TypeOK, Tables
<1>3. cpu' = [eip |-> next, eax |-> cpu.eax, esp |-> cpu.esp]
  <2>1. cpu = [eip |-> cpu.eip, eax |-> cpu.eax, esp |-> cpu.esp]
    BY DEF CtxInv, IsRegs
  <2> QED
    BY <1>1, <2>1
<1>4. IsRegs(cpu)' /\ cpu'.eip[1] = image'[curr_task]
  BY <1>1, <1>3 DEF IsRegs
<1>5. /\ user'[curr_task] = cpu'
      /\ \A t \in Tasks : t # curr_task => user'[t] = user[t]
      /\ user' = [t \in Tasks |-> user'[t]]
  BY <1>1, <1>2
<1>6. Tables'
  BY <1>1, <1>5 DEF CtxInv, Tables
<1>7. \A t \in Tasks : wpid'[t] = IF t = curr_task THEN NULL ELSE wpid[t]
  BY <1>1, <1>2
<1>8. \A t \in Tasks : Live(t)' => Live(t)
  BY <1>1 DEF Live
<1> QED
  BY <1>1, <1>2, <1>4, <1>5, <1>6, <1>7, <1>8, ReturnCtx

(* sys_wait goes on after the sleep: the frame is where the trap left it.   *)
LEMMA WaitReturnStep ==
  ASSUME CtxInv, Core', WaitersLive', ctx_wait_return
  PROVE  CtxInv'
<1>1. /\ machine = "up" /\ machine' = "up" /\ curr_task # scheduler_task
      /\ curr_task' = curr_task /\ esp0' = esp0 /\ wpid[curr_task] # NULL
      /\ wpid' = [wpid EXCEPT ![curr_task] = NULL]
      /\ kill_off_zombies(state, parent, nopen)
      /\ context' = Surviving(context, NoContext)
      /\ image' = Surviving(image, "") /\ user' = Surviving(user, NoRegs)
  BY DEF ctx_wait_return, sys_wait_return
<1>2. /\ curr_task \in Tasks /\ state[curr_task] = "RUNNING" /\ state'[curr_task] = "RUNNING"
      /\ \A t \in Tasks : wpid'[t] = IF t = curr_task THEN NULL ELSE wpid[t]
      /\ frame = [t \in Tasks |-> frame[t]]
  BY <1>1 DEF CtxInv, Core, TypeOK, OneRunning, Tables
<1>3. Parked(curr_task) /\ user[curr_task].eip[1] = image[curr_task]
  BY <1>1, <1>2 DEF CtxInv, OthersParked, OwnCode, Live
<1> DEFINE fr == [frame EXCEPT ![curr_task].eax = wpid[curr_task]]
<1>4. cpu' = fr[curr_task] /\ frame' = Surviving([fr EXCEPT ![curr_task] = NoRegs], NoRegs)
  BY <1>3 DEF ctx_wait_return, ret_to_int_site, Parked
<1>5. /\ fr = [t \in Tasks |-> fr[t]]
      /\ fr[curr_task] = [frame[curr_task] EXCEPT !.eax = wpid[curr_task]]
      /\ \A t \in Tasks : t # curr_task => [fr EXCEPT ![curr_task] = NoRegs][t] = frame[t]
  BY <1>2
<1>6. fr[curr_task] = user[curr_task] /\ IsRegs(fr[curr_task])
  <2>1. frame[curr_task] = [eip |-> frame[curr_task].eip, eax |-> frame[curr_task].eax,
                            esp |-> frame[curr_task].esp]
    BY <1>3 DEF Parked, IsRegs
  <2>2. fr[curr_task] = [eip |-> frame[curr_task].eip, eax |-> wpid[curr_task],
                         esp |-> frame[curr_task].esp]
    <3> HIDE DEF fr
    <3> QED
      BY <1>5, <2>1
  <2> HIDE DEF fr
  <2>3. IsRegs(fr[curr_task])
    BY <2>2 DEF IsRegs
  <2> QED
    BY <1>1, <1>3, <1>5, <2>3 DEF Parked
<1>7. \A t \in Tasks : Live(t)' => Live(t) /\ state'[t] # "UNUSED"
  BY <1>1 DEF kill_off_zombies, destroy_task, Reaped, Live
<1>8. Tables'
  <2>1. frame' = [t \in Tasks |-> frame'[t]]
    BY <1>4 DEF Surviving
  <2>2. context' = [t \in Tasks |-> context'[t]] /\ image' = [t \in Tasks |-> image'[t]]
    BY <1>1 DEF Surviving
  <2>3. user' = [t \in Tasks |-> user'[t]]
    BY <1>1 DEF Surviving
  <2> QED
    BY <2>1, <2>2, <2>3 DEF Tables
<1> HIDE DEF fr
<1>9. cpu' = user'[curr_task] /\ cpu' = fr[curr_task] /\ cpu'.eip[1] = image'[curr_task]
  BY <1>1, <1>2, <1>3, <1>4, <1>6 DEF Surviving
<1>10. \A t \in Tasks : t # curr_task /\ Live(t)' =>
         /\ frame'[t] = frame[t] /\ context'[t] = context[t]
         /\ user'[t] = user[t] /\ image'[t] = image[t]
  BY <1>1, <1>4, <1>5, <1>7 DEF Surviving
<1>11. IsRegs(cpu)'
  BY <1>6, <1>9 DEF IsRegs
<1> QED
  BY <1>1, <1>2, <1>7, <1>8, <1>9, <1>10, <1>11, ReturnCtx

(* fork parks the child with its parent's registers and 0. *)
LEMMA ForkCtxStep ==
  ASSUME CtxInv, Core', WaitersLive', NEW next, next[1] = image[curr_task], ctx_fork(next)
  PROVE  CtxInv'
<1>1. /\ InUser /\ machine = "up" /\ machine' = "up" /\ curr_task # scheduler_task
      /\ curr_task' = curr_task /\ esp0' = esp0 /\ wpid[curr_task] = NULL /\ wpid' = wpid
  BY DEF ctx_fork, sys_fork, InUser
<1>2. /\ curr_task \in Tasks /\ state[curr_task] = "RUNNING" /\ state'[curr_task] = "RUNNING"
      /\ esp0 = curr_task /\ Tables /\ TypeOK
      /\ cpu = [eip |-> cpu.eip, eax |-> cpu.eax, esp |-> cpu.esp]
  BY <1>1 DEF CtxInv, Core, TypeOK, OneRunning, IsRegs
<1>3. PICK tp \in Tasks :
        /\ alloc_task(tp)
        /\ LET fr == int_common(next) IN
             ret_to_int_site([fr EXCEPT ![tp] = Child(fr[esp0]), ![esp0].eax = tp], esp0)
        /\ context' = Surviving([context EXCEPT ![tp] = build_context(tp)], NoContext)
        /\ image' = Surviving([image EXCEPT ![tp] = image[curr_task]], "")
        /\ user' = Surviving([user EXCEPT ![tp] = Returned(next, 0),
                                          ![curr_task] = Returned(next, tp)], NoRegs)
  BY DEF ctx_fork
<1>4. kill_off_zombies([state EXCEPT ![tp] = "RUNNABLE"], [parent EXCEPT ![tp] = curr_task],
                       [nopen EXCEPT ![tp] = nopen[curr_task]])
  <2>1. PICK tq \in Tasks :
          /\ alloc_task(tq)
          /\ kill_off_zombies([state EXCEPT ![tq] = "RUNNABLE"], [parent EXCEPT ![tq] = curr_task],
                              [nopen EXCEPT ![tq] = nopen[curr_task]])
    BY DEF ctx_fork, sys_fork
  <2>2. tq = tp
    <3>1. state[tp] = "UNUSED" /\ \A i \in Tasks : i < tp => state[i] # "UNUSED"
      BY <1>3 DEF alloc_task
    <3>2. state[tq] = "UNUSED" /\ \A i \in Tasks : i < tq => state[i] # "UNUSED"
      BY <2>1 DEF alloc_task
    <3>3. ~(tp < tq) /\ ~(tq < tp)
      BY <3>1, <3>2
    <3> QED
      BY <3>3
  <2> QED
    BY <2>1, <2>2
<1>5. /\ tp # curr_task /\ state[tp] = "UNUSED" /\ wpid[tp] = NULL
      /\ state'[tp] = "RUNNABLE"
  <2>1. tp # curr_task /\ state[tp] = "UNUSED"
    BY <1>2, <1>3 DEF alloc_task
  <2>2. wpid[tp] = NULL
    BY <2>1 DEF CtxInv, WaitersLive, Live
  <2>3. state'[tp] = "RUNNABLE"
    BY <1>2, <1>4 DEF kill_off_zombies, destroy_task, Reaped, TypeOK
  <2> QED
    BY <2>1, <2>2, <2>3
<1>6. \A t \in Tasks : t # tp /\ Live(t)' => Live(t) /\ state'[t] # "UNUSED"
  BY <1>2, <1>4 DEF kill_off_zombies, destroy_task, Reaped, Live, TypeOK
<1> DEFINE g == int_common(next)
           fr == [g EXCEPT ![tp] = Child(g[esp0]), ![esp0].eax = tp]
           usr == [user EXCEPT ![tp] = Returned(next, 0), ![curr_task] = Returned(next, tp)]
           ctx == [context EXCEPT ![tp] = build_context(tp)]
           im == [image EXCEPT ![tp] = image[curr_task]]
<1>7. /\ g = [t \in Tasks |-> g[t]]
      /\ g[curr_task] = [eip |-> next, eax |-> cpu.eax, esp |-> cpu.esp]
      /\ \A t \in Tasks : t # curr_task => g[t] = frame[t]
  <2>1. [cpu EXCEPT !.eip = next] = [eip |-> next, eax |-> cpu.eax, esp |-> cpu.esp]
    BY <1>2
  <2> QED
    BY <1>2, <2>1 DEF int_common, Tables
<1>8. Child(g[curr_task]) = [eip |-> next, eax |-> 0, esp |-> cpu.esp]
  <2> HIDE DEF g
  <2>1. g[curr_task].eip = next /\ g[curr_task].esp = cpu.esp
    BY <1>7
  <2>2. build_int_frame(next) = [eip |-> next, eax |-> 0, esp |-> USTACK]
    BY DEF build_int_frame
  <2>3. [build_int_frame(next) EXCEPT !.esp = cpu.esp] = [eip |-> next, eax |-> 0, esp |-> cpu.esp]
    BY <2>2
  <2> QED
    BY <2>1, <2>3 DEF Child
<1>9. /\ fr = [t \in Tasks |-> fr[t]]
      /\ fr[curr_task] = [g[curr_task] EXCEPT !.eax = tp]
      /\ fr[tp] = Child(g[curr_task])
      /\ \A t \in Tasks : t # curr_task /\ t # tp => fr[t] = g[t]
  <2> HIDE DEF g
  <2> QED
    BY <1>2, <1>5, <1>7
<1>10. fr[curr_task] = [eip |-> next, eax |-> tp, esp |-> cpu.esp]
  <2> HIDE DEF g, fr
  <2>1. fr[curr_task] = [g[curr_task] EXCEPT !.eax = tp]
    BY <1>9
  <2>2. g[curr_task] = [eip |-> next, eax |-> cpu.eax, esp |-> cpu.esp]
    BY <1>7
  <2> QED
    BY <2>1, <2>2
<1>11. cpu' = fr[curr_task] /\ frame' = Surviving([fr EXCEPT ![curr_task] = NoRegs], NoRegs)
  BY <1>2, <1>3 DEF ret_to_int_site
<1> HIDE DEF g, fr
<1>12. \A t \in Tasks : t # curr_task => [fr EXCEPT ![curr_task] = NoRegs][t] = fr[t]
  BY <1>2, <1>9
<1>13. /\ usr[curr_task] = Returned(next, tp) /\ usr[tp] = Returned(next, 0)
       /\ \A t \in Tasks : t # curr_task /\ t # tp => usr[t] = user[t]
       /\ ctx[tp] = build_context(tp) /\ \A t \in Tasks : t # tp => ctx[t] = context[t]
       /\ im[tp] = image[curr_task] /\ \A t \in Tasks : t # tp => im[t] = image[t]
  BY <1>2, <1>5 DEF Tables
<1>14. /\ user' = Surviving(usr, NoRegs) /\ context' = Surviving(ctx, NoContext)
       /\ image' = Surviving(im, "")
  BY <1>3
<1> HIDE DEF usr, ctx, im
<1>15. Tables'
  <2>1. frame' = [t \in Tasks |-> frame'[t]]
    BY <1>11 DEF Surviving
  <2>2. context' = [t \in Tasks |-> context'[t]] /\ image' = [t \in Tasks |-> image'[t]]
    BY <1>14 DEF Surviving
  <2>3. user' = [t \in Tasks |-> user'[t]]
    BY <1>14 DEF Surviving
  <2> QED
    BY <2>1, <2>2, <2>3 DEF Tables
<1>16. /\ cpu' = Returned(next, tp) /\ user'[curr_task] = Returned(next, tp)
       /\ image'[curr_task] = image[curr_task]
  BY <1>2, <1>5, <1>10, <1>11, <1>13, <1>14 DEF Surviving, Returned
<1>17. IsRegs(cpu)' /\ cpu'.eip[1] = image'[curr_task]
  BY <1>16 DEF IsRegs, Returned
<1>18. Parked(tp)' /\ user'[tp].eip[1] = image'[tp]
  <2>1. /\ user'[tp] = Returned(next, 0) /\ context'[tp] = build_context(tp)
        /\ image'[tp] = image[curr_task]
    BY <1>5, <1>13, <1>14 DEF Surviving
  <2>2. frame'[tp] = Returned(next, 0)
    BY <1>5, <1>8, <1>9, <1>11, <1>12 DEF Surviving, Returned
  <2>3. IsRegs(frame[tp])'
    BY <2>2 DEF IsRegs, Returned
  <2> QED
    BY <1>1, <1>5, <2>1, <2>2, <2>3 DEF Parked, build_context, Returned
<1>19. \A t \in Tasks : t # curr_task /\ t # tp /\ Live(t)' =>
         /\ frame'[t] = frame[t] /\ context'[t] = context[t]
         /\ user'[t] = user[t] /\ image'[t] = image[t]
  <2> SUFFICES ASSUME NEW t \in Tasks, t # curr_task, t # tp, Live(t)'
               PROVE  /\ frame'[t] = frame[t] /\ context'[t] = context[t]
                      /\ user'[t] = user[t] /\ image'[t] = image[t]
    OBVIOUS
  <2>1. state'[t] # "UNUSED"
    BY <1>6
  <2>2. frame'[t] = [fr EXCEPT ![curr_task] = NoRegs][t]
    BY <1>11, <2>1 DEF Surviving
  <2>3. user'[t] = usr[t] /\ context'[t] = ctx[t] /\ image'[t] = im[t]
    BY <1>14, <2>1 DEF Surviving
  <2> QED
    BY <1>7, <1>9, <1>12, <1>13, <2>2, <2>3
<1>20. \A t \in Tasks : wpid'[t] = IF t = curr_task THEN NULL ELSE wpid[t]
  BY <1>1
<1> QED
  BY <1>1, <1>2, <1>6, <1>15, <1>16, <1>17, <1>18, <1>19, <1>20, ReturnCtx

-----------------------------------------------------------------------------
(* The timer, sleep and an exit that switches: the trap parked the caller,  *)
(* or the caller is dead.                                                   *)
LEMMA LeaveStep ==
  ASSUME CtxInv, Core', WaitersLive', InUser,
         machine' = "up", curr_task' = scheduler_task,
         NEW next, NEW eip, trap_and_leave(next, eip),
         \A t \in Tasks : t # scheduler_task /\ Live(t)' => Live(t),
         \A t \in Tasks : t # curr_task => wpid'[t] = wpid[t],
         \A t \in Tasks : t # curr_task => user'[t] = user[t],
         user' = [t \in Tasks |-> user'[t]],
         state'[curr_task] \in {"SLEEPING", "RUNNABLE", "RUNNING"} =>
           /\ next[1] = image[curr_task] /\ user'[curr_task].eip = next
           /\ (eip = "sys_wait") <=> (wpid'[curr_task] # NULL)
           /\ user'[curr_task] = IF wpid'[curr_task] = NULL THEN [cpu EXCEPT !.eip = next]
                                 ELSE [[cpu EXCEPT !.eip = next] EXCEPT !.eax = wpid'[curr_task]]
  PROVE  CtxInv'
<1>1. /\ machine = "up" /\ curr_task # scheduler_task /\ curr_task \in Tasks /\ esp0 = curr_task
      /\ Tables /\ cpu = [eip |-> cpu.eip, eax |-> cpu.eax, esp |-> cpu.esp]
  BY DEF CtxInv, InUser, Core, TypeOK, IsRegs
<1>2. /\ frame' = int_common(next) /\ cpu' = NoRegs /\ image' = image
      /\ context' = [context EXCEPT ![curr_task] = [kstack |-> curr_task, eip |-> eip]]
      /\ esp0' = scheduler_task
  BY <1>1 DEF trap_and_leave, context_switch, Esp0
<1>3. /\ frame' = [t \in Tasks |-> frame'[t]] /\ frame'[curr_task] = [cpu EXCEPT !.eip = next]
      /\ \A t \in Tasks : t # curr_task => frame'[t] = frame[t]
  BY <1>1, <1>2 DEF int_common, Tables
<1>4. /\ context' = [t \in Tasks |-> context'[t]]
      /\ context'[curr_task] = [kstack |-> curr_task, eip |-> eip]
      /\ \A t \in Tasks : t # curr_task => context'[t] = context[t]
  BY <1>1, <1>2 DEF Tables
<1>5. Tables'
  BY <1>1, <1>2, <1>3, <1>4 DEF Tables
<1>6. IsRegs(cpu)' /\ ResumesIntact'
  BY <1>2 DEF IsRegs, NoRegs, ResumesIntact, InUser
<1>7. ASSUME NEW t \in Tasks, t # scheduler_task, Live(t)'
      PROVE  Parked(t)' /\ user'[t].eip[1] = image'[t]
  <2>1. CASE t = curr_task
    <3>1. IsRegs(frame[t])'
      <4>1. frame'[t] = [eip |-> next, eax |-> cpu.eax, esp |-> cpu.esp]
        BY <1>1, <1>3, <2>1
      <4> QED
        BY <4>1 DEF IsRegs
    <3>2. /\ user'[t].eip[1] = image'[t]
          /\ (eip = "sys_wait") <=> (wpid'[t] # NULL)
          /\ user'[t] = IF wpid'[t] = NULL THEN frame'[t] ELSE [frame'[t] EXCEPT !.eax = wpid'[t]]
      <4>1. frame'[t] = [cpu EXCEPT !.eip = next] /\ image'[t] = image[t]
        BY <1>2, <1>3, <2>1
      <4>2. /\ next[1] = image[t] /\ user'[t].eip = next
            /\ (eip = "sys_wait") <=> (wpid'[t] # NULL)
            /\ user'[t] = IF wpid'[t] = NULL THEN [cpu EXCEPT !.eip = next]
                          ELSE [[cpu EXCEPT !.eip = next] EXCEPT !.eax = wpid'[t]]
        BY <1>7, <2>1 DEF Live
      <4> QED
        BY <4>1, <4>2
    <3>3. context'[t].kstack = t /\ context'[t].eip = eip
      BY <1>4, <2>1
    <3> QED
      BY <3>1, <3>2, <3>3 DEF Parked
  <2>2. CASE t # curr_task
    <3>1. Parked(t) /\ user[t].eip[1] = image[t]
      BY <1>1, <1>7, <2>2 DEF CtxInv, OthersParked, OwnCode
    <3>2. /\ frame'[t] = frame[t] /\ context'[t] = context[t] /\ user'[t] = user[t]
          /\ wpid'[t] = wpid[t] /\ image'[t] = image[t]
      BY <1>2, <1>3, <1>4, <2>2
    <3> QED
      BY <3>1, <3>2 DEF Parked
  <2> QED
    BY <2>1, <2>2
<1>8. OthersParked' /\ OwnCode'
  BY <1>7 DEF OthersParked, OwnCode
<1> QED
  BY <1>2, <1>5, <1>6, <1>8 DEF CtxInv

(* A switch makes nobody alive. *)
LEMMA SwitchLive ==
  ASSUME Core, schedule \/ timer_irq \/ sleep \/ sys_exit
  PROVE  \A t \in Tasks : Live(t)' => Live(t)
<1>1. LegalChanges
  BY StepIsLegal DEF Next
<1>2. \A t \in Tasks : state'[t] = "UNUSED" <=> state[t] = "UNUSED"
  BY SwitchStates
<1>3. \A t \in Tasks : state[t] \in procstate
  BY DEF Core, TypeOK
<1> QED
  BY <1>1, <1>2, <1>3 DEF LegalChanges, Live

(* The timer interrupt. *)
LEMMA TimerCtxStep == ASSUME CtxInv, Core', WaitersLive', ctx_timer PROVE CtxInv'
<1>1. /\ InUser /\ machine = "up" /\ machine' = "up" /\ curr_task' = scheduler_task
      /\ wpid' = wpid /\ user' = user /\ trap_and_leave(cpu.eip, "trampoline")
      /\ wpid[curr_task] = NULL /\ curr_task # scheduler_task
  BY DEF ctx_timer, timer_irq, InUser
<1>2. /\ curr_task \in Tasks /\ Live(curr_task) /\ user = [t \in Tasks |-> user[t]]
      /\ cpu = [eip |-> cpu.eip, eax |-> cpu.eax, esp |-> cpu.esp]
  BY <1>1 DEF CtxInv, Core, TypeOK, OneRunning, Live, Tables, IsRegs
<1>3. user[curr_task] = cpu /\ cpu.eip[1] = image[curr_task]
  BY <1>1, <1>2 DEF CtxInv, ResumesIntact, OwnCode
<1>4. [cpu EXCEPT !.eip = cpu.eip] = cpu
  BY <1>2
<1>5. \A t \in Tasks : Live(t)' => Live(t)
  BY SwitchLive DEF ctx_timer, CtxInv
<1> QED
  BY <1>1, <1>2, <1>3, <1>4, <1>5, LeaveStep

(* sys_wait that sleeps: the result will be the pid it remembers. *)
LEMMA SleepCtxStep ==
  ASSUME CtxInv, Core', WaitersLive', NEW next, next[1] = image[curr_task], ctx_sleep(next)
  PROVE  CtxInv'
<1>1. /\ InUser /\ machine = "up" /\ machine' = "up" /\ curr_task' = scheduler_task
      /\ user' = [user EXCEPT ![curr_task] = Returned(next, wpid'[curr_task])]
      /\ trap_and_leave(next, "sys_wait") /\ curr_task # scheduler_task
  BY DEF ctx_sleep, sleep, InUser
<1>2. /\ curr_task \in Tasks /\ user = [t \in Tasks |-> user[t]]
      /\ cpu = [eip |-> cpu.eip, eax |-> cpu.eax, esp |-> cpu.esp]
      /\ wpid \in [Tasks -> Tasks \cup {NULL}]
  BY DEF CtxInv, Core, TypeOK, Tables, IsRegs
<1>3. PICK c \in Tasks : wpid' = [wpid EXCEPT ![curr_task] = c]
  BY DEF ctx_sleep, sleep
<1>4. wpid'[curr_task] = c /\ c # NULL /\ \A t \in Tasks : t # curr_task => wpid'[t] = wpid[t]
  BY <1>2, <1>3
<1>5. /\ user'[curr_task] = Returned(next, c) /\ user' = [t \in Tasks |-> user'[t]]
      /\ \A t \in Tasks : t # curr_task => user'[t] = user[t]
  BY <1>1, <1>2, <1>4
<1>6. Returned(next, c) = [[cpu EXCEPT !.eip = next] EXCEPT !.eax = c] /\ Returned(next, c).eip = next
  <2> DEFINE r == [cpu EXCEPT !.eip = next]
  <2>1. r = [eip |-> next, eax |-> cpu.eax, esp |-> cpu.esp]
    BY <1>2
  <2> HIDE DEF r
  <2>2. [r EXCEPT !.eax = c] = [eip |-> next, eax |-> c, esp |-> cpu.esp]
    BY <2>1
  <2> QED
    BY <2>2 DEF Returned, r
<1>7. \A t \in Tasks : Live(t)' => Live(t)
  BY SwitchLive DEF ctx_sleep, CtxInv
<1> QED
  BY <1>1, <1>2, <1>4, <1>5, <1>6, <1>7, LeaveStep

(* exit: the caller's registers are lost with it. *)
LEMMA ExitCtxStep == ASSUME CtxInv, Core', WaitersLive', ctx_exit PROVE CtxInv'
<1>1. /\ InUser /\ machine = "up" /\ curr_task # scheduler_task /\ wpid' = wpid
      /\ user' = [user EXCEPT ![curr_task] = NoRegs]
  BY DEF ctx_exit, sys_exit, InUser
<1>2. curr_task \in Tasks /\ Tables /\ esp0 = curr_task /\ IsRegs(cpu)
  BY <1>1 DEF CtxInv, Core, TypeOK
<1>3. /\ user' = [t \in Tasks |-> user'[t]]
      /\ \A t \in Tasks : t # curr_task => user'[t] = user[t]
  BY <1>1, <1>2 DEF Tables
<1>4. CASE machine' = "up" /\ trap_and_leave(cpu.eip, "sys_exit")
  <2>1. curr_task' = scheduler_task
    BY <1>4 DEF ctx_exit, sys_exit
  <2>2. state'[curr_task] = "ZOMBIE"
    <3>1. state' = switch_to(wakeup_parent([state EXCEPT ![curr_task] = "ZOMBIE"]), scheduler_task)
      BY <1>4 DEF ctx_exit, sys_exit
    <3> QED
      BY <1>1, <1>2, <3>1 DEF switch_to, wakeup_parent, CtxInv, Core, TypeOK
  <2>3. \A t \in Tasks : Live(t)' => Live(t)
    BY SwitchLive DEF ctx_exit, CtxInv
  <2> QED
    BY <1>1, <1>2, <1>3, <1>4, <2>1, <2>2, <2>3, LeaveStep
<1>5. CASE machine' # "up" /\ frame' = int_common(cpu.eip) /\ UNCHANGED <<cpu, context, esp0, image>>
  <2>1. frame' = [t \in Tasks |-> frame'[t]]
    BY <1>2, <1>5 DEF int_common, Tables
  <2>2. Tables'
    BY <1>2, <1>3, <1>5, <2>1 DEF Tables
  <2>3. IsRegs(cpu)'
    BY <1>2, <1>5 DEF IsRegs
  <2> QED
    BY <1>5, <2>2, <2>3 DEF CtxInv, ResumesIntact, InUser, OthersParked, OwnCode
<1> QED
  BY <1>4, <1>5 DEF ctx_exit

(* The scheduler unparks the task it switches to. *)
LEMMA ScheduleCtxStep == ASSUME CtxInv, Core', WaitersLive', ctx_schedule PROVE CtxInv'
<1>1. /\ machine = "up" /\ machine' = "up" /\ curr_task = scheduler_task
      /\ wpid' = wpid /\ user' = user /\ image' = image
      /\ context_switch(curr_task', "schedule")
  BY DEF ctx_schedule, schedule
<1>2. PICK j \in Tasks : state[j] = "RUNNABLE" /\ curr_task' = j
  BY DEF ctx_schedule, schedule
<1>3. Tables /\ j # scheduler_task /\ Live(j) /\ IsRegs(cpu) /\ state'[j] = "RUNNING"
  BY <1>1, <1>2 DEF CtxInv, Core, TypeOK, OneRunning, Live
<1>4. Parked(j)
  BY <1>1, <1>2, <1>3 DEF CtxInv, OthersParked
<1>5. /\ context' = [t \in Tasks |-> context'[t]] /\ esp0' = j
      /\ \A t \in Tasks : t # scheduler_task => context'[t] = context[t]
  BY <1>1, <1>2, <1>3 DEF context_switch, Esp0, Tables
<1>6. \A t \in Tasks : Live(t)' => Live(t) /\ state'[t] # "UNUSED"
  BY SwitchLive DEF ctx_schedule, CtxInv, Live
<1>7. OwnCode'
  BY <1>1, <1>6 DEF CtxInv, OwnCode
<1>8. \A t \in Tasks : t # scheduler_task /\ Live(t)' /\ t # j => Parked(t)
  BY <1>1, <1>6 DEF CtxInv, OthersParked
<1>9. CASE context[j].eip # "sys_wait" /\ ret_to_int_site(frame, context[j].kstack)
  <2>1. /\ wpid[j] = NULL /\ cpu' = frame[j] /\ IsRegs(frame[j]) /\ user[j] = frame[j]
        /\ frame' = Surviving([frame EXCEPT ![j] = NoRegs], NoRegs)
    BY <1>4, <1>9 DEF Parked, ret_to_int_site
  <2>2. \A t \in Tasks : t # j /\ Live(t)' => frame'[t] = frame[t]
    BY <1>3, <1>6, <2>1 DEF Surviving, Tables
  <2>3. frame' = [t \in Tasks |-> frame'[t]]
    BY <2>1 DEF Surviving
  <2>4. Tables'
    BY <1>1, <1>3, <1>5, <2>3 DEF Tables
  <2>5. IsRegs(cpu)' /\ ResumesIntact'
    BY <1>1, <1>2, <2>1 DEF IsRegs, ResumesIntact
  <2>6. OthersParked'
    <3> SUFFICES ASSUME NEW t \in Tasks, t # scheduler_task, Live(t)', t # j
                 PROVE  Parked(t)'
      BY <1>1, <1>2, <2>1 DEF OthersParked
    <3>1. Parked(t) /\ frame'[t] = frame[t] /\ context'[t] = context[t]
      BY <1>5, <1>8, <2>2
    <3> QED
      BY <1>1, <3>1 DEF Parked
  <2> QED
    BY <1>2, <1>5, <1>7, <2>4, <2>5, <2>6 DEF CtxInv
<1>10. CASE context[j].eip = "sys_wait" /\ UNCHANGED <<cpu, frame>>
  <2>1. wpid[j] # NULL
    BY <1>4, <1>10 DEF Parked
  <2>2. Tables' /\ IsRegs(cpu)'
    BY <1>1, <1>3, <1>5, <1>10 DEF Tables, IsRegs
  <2>3. ResumesIntact'
    BY <1>1, <1>2, <2>1 DEF ResumesIntact, InUser
  <2>4. OthersParked'
    <3> SUFFICES ASSUME NEW t \in Tasks, t # scheduler_task, Live(t)'
                 PROVE  Parked(t)'
      BY DEF OthersParked
    <3>1. Parked(t) /\ context'[t] = context[t]
      BY <1>4, <1>5, <1>8
    <3> QED
      BY <1>1, <1>10, <3>1 DEF Parked
  <2> QED
    BY <1>2, <1>5, <1>7, <2>2, <2>3, <2>4 DEF CtxInv
<1> QED
  BY <1>2, <1>9, <1>10 DEF ctx_schedule

-----------------------------------------------------------------------------
(* Every step keeps the invariant, whatever programs are run. *)
LEMMA CtxInvStep == CtxInv /\ Core' /\ [CtxStep]_<<vars, ctx_vars>> => CtxInv'
<1> SUFFICES ASSUME CtxInv, Core', [CtxStep]_<<vars, ctx_vars>> PROVE CtxInv'
  OBVIOUS
<1>0. WaitersLive'
  <2>1. [Next]_vars
    BY CtxStepIsStep
  <2> QED
    BY <2>1, WaitersStep DEF CtxInv
<1>1. CASE ctx_schedule
  BY <1>0, <1>1, ScheduleCtxStep
<1>2. CASE ctx_timer
  BY <1>0, <1>2, TimerCtxStep
<1>3. CASE ctx_wait_return
  BY <1>0, <1>3, WaitReturnStep
<1>4. CASE ProgramStep
  BY <1>0, <1>4, ComputeStep, ForkCtxStep, PlainCallStep, SleepCtxStep, ExecvCtxStep, ExitCtxStep
     DEF ProgramStep
<1>5. CASE (panic \/ sys_fork_full \/ stopped) /\ UNCHANGED ctx_vars
  <2>1. UNCHANGED <<state, wpid, curr_task, ctx_vars>> /\ (machine' = "up" => machine' = machine)
    BY <1>5 DEF panic, sys_fork_full, stopped, vars
  <2> QED
    BY <1>0, <2>1 DEF CtxInv, Tables, IsRegs, ResumesIntact, InUser, OthersParked, Parked, OwnCode,
       Live, ctx_vars
<1>6. CASE UNCHANGED <<vars, ctx_vars>>
  BY <1>0, <1>6 DEF CtxInv, Tables, IsRegs, ResumesIntact, InUser, OthersParked, Parked, OwnCode,
     Live, ctx_vars, vars
<1> QED
  BY <1>1, <1>2, <1>3, <1>4, <1>5, <1>6 DEF CtxStep

(* Every behaviour of Context is a behaviour of the task table. *)
THEOREM CtxImplementsProc == CtxSpec => Spec
<1>1. CtxInit => init_tasks
  BY DEF CtxInit
<1>2. [CtxNext]_<<vars, ctx_vars>> => [Next]_vars
  BY DEF CtxNext, AnyProgram, ctx_schedule, ctx_timer, ctx_wait_return, compute, ctx_fork,
     ctx_wait, ctx_sleep, ctx_close, ctx_open, ctx_other, ctx_execv, ctx_execv_fails,
     ctx_execv_bad_argv, ctx_exit, Next
<1> QED
  BY <1>1, <1>2, PTL DEF CtxSpec, Spec

(* Programs whose argv can be read keep every other program's registers     *)
(* parked.                                                                  *)
THEOREM CtxSafety ==
  ASSUME BAD_ARGV = FALSE
  PROVE  CtxSpec => []CtxInv
<1>1. CtxNext => CtxStep
  <2> SUFFICES ASSUME CtxNext PROVE CtxStep
    OBVIOUS
  <2>1. CASE AnyProgram
    <3>1. PICK l \in Labels : LET next == <<image[curr_task], l>> IN
            \/ compute(next)
            \/ ctx_fork(next) \/ ctx_exit
            \/ ctx_wait(next) \/ ctx_sleep(next)
            \/ ctx_open(next, 0) \/ ctx_close(next) \/ ctx_other(next, 0)
            \/ ctx_execv_fails(next)
            \/ \E p \in Programs : ctx_execv(p, USTACK)
      BY <2>1 DEF AnyProgram
    <3>2. <<image[curr_task], l>>[1] = image[curr_task]
      OBVIOUS
    <3> QED
      BY <3>1, <3>2 DEF CtxStep, ProgramStep, ctx_execv_fails
  <2> QED
    BY <2>1 DEF CtxNext, CtxStep
<1> QED
  BY <1>1, CtxInitInv, CtxInvStep, CtxImplementsProc, CoreAlways, PTL DEF CtxSpec

(* A program finds in its registers what it left there or the result of its *)
(* call, whatever ran in between.                                           *)
COROLLARY RegistersSurvive ==
  ASSUME BAD_ARGV = FALSE
  PROVE  CtxSpec => []ResumesIntact
<1>1. CtxInv => ResumesIntact
  BY DEF CtxInv
<1> QED
  BY <1>1, CtxSafety, PTL

(* A task executes the program that is loaded for it: an unreadable argv is *)
(* the only way an execv can leave one in another program's code.           *)
COROLLARY OwnProgramRuns ==
  ASSUME BAD_ARGV = FALSE
  PROVE  CtxSpec => []RunsOwnImage
<1>1. CtxInv => RunsOwnImage
  <2> SUFFICES ASSUME CtxInv, InUser PROVE cpu.eip[1] = image[curr_task]
    BY DEF RunsOwnImage
  <2>1. curr_task \in Tasks /\ Live(curr_task) /\ curr_task # scheduler_task /\ machine = "up"
    BY DEF CtxInv, InUser, Core, TypeOK, OneRunning, Live
  <2> QED
    BY <2>1 DEF CtxInv, ResumesIntact, OwnCode
<1> QED
  BY <1>1, CtxSafety, PTL

=============================================================================
