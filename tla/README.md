# A verification project for quaros

quaros is a small x86 operating system kernel: one CPU, preemptive round-robin
scheduling, paging, eight system calls, a serial console and a file system that
is unpacked from an archive at boot.  This directory holds TLA+ models of its
core and of the programs that run on it, TLC configurations that check them on
small instances, and TLAPS proofs of what matters most.

    tlc -workers 2 -config Proc.cfg Proc        # one of the runs below
    tlapm ProcProofs.tla                        # the proofs

1. Inventory
2. Modules and how they correspond to the code
3. Runs, bounds and what they show
4. Fairness
5. What is proved, and how
6. What is only model-checked
7. Findings
8. What is abstracted and what is left out
9. Plan

## 1. Inventory

| Part | Source | State | Operations |
|---|---|---|---|
| Task table and scheduler | proc.c, proc.h, context_switch.asm | `tasks[]` (state, pid, parent, kstack, pgdir, open_files), `curr_task`, `zombie_exists`, the loop index of `schedule` | `schedule`, `switch_to`, `sleep`, `wakeup_parent`, `alloc_task`, `destroy_task`, `kill_off_zombies` |
| Process system calls | sys_proc.c | the above, the interrupt frame, the stack of a new program | `sys_fork`, `sys_execv` with `prepare_ustack`, `sys_exit`, `sys_wait` |
| Interrupt dispatch | interrupt.c, int_common.asm, syscall.c | IDT (constant after boot) | `trampoline`: system call, timer, serial, spurious, error |
| Page allocator | memory.c | `free_pages` and the first word of each free page | `kmalloc`, `kfree`, `register_free_mem` |
| Address spaces | memory.c | page directories and tables, cr3 | `map_kernel`, `alloc_map_memory`, `unmap_memory`, `destroy_address_space` |
| Console input | io.c, uart.c | `circular_buf`, `edit_i`, `write_i`, `read_i`, `edit_len`, `buf_len` | `handle_uartintr`, `write_circular_buf`, `read_console` |
| File system | fs.c, sys_file.c | `filesystem[]`, `open_files[]` | `init_fs`, `sys_open`, `sys_read`, `sys_write`, `sys_close` |
| User programs | user/ | one page each: `buf`, `argv`, positions in them | init, sh (`read_line`, `tokenize`, fork, execv, wait), cat, ls, echo, hello |
| Start-up | main.c, start.asm | none of its own | runs once, then becomes the scheduler |
| Boot loader, segmentation, APICs, string helpers, build files | the rest | hardware tables | run once, or pure |

How the parts interact.  Everything in the kernel is entered through
`trampoline`.  All gates are interrupt gates (`set_interrupt_gate`) and nothing
in the kernel executes `sti`, so a handler cannot be interrupted; interrupts are
enabled only by the `iret` to a user program, whose saved eflags have `FL_IF`.
A handler leaves the CPU in the middle only by `switch_to`: from the timer, from
`sleep` in `sys_wait`, and from `sys_exit`.  The scheduler is task 0, a loop in
`main`'s thread; it is also entered with interrupts disabled and *stays* in the
loop until it finds a RUNNABLE slot.  At the end of every system call
`kill_off_zombies` reaps the caller's dead children and gives their pages back.

What is hard.  There is no locking and no wait queue: `wait` looks at the table
and sleeps, `exit` looks at its parent's state, and the two must not miss each
other under any preemption.  A pid is read before `sleep` and used after it.
Slots, pages, kernel stacks and parent pointers are reused.  The registers of a
preempted program wait on its kernel stack while others trap.  The free list
lives in the free pages.  The console indices are unsigned and wrap.  `PROJECT.json` lists these
hazards, each at its line, with the property that would catch it.

What makes each part correct:

* task table: one RUNNING task; no lost and no spurious wakeup; the pid `wait`
  returns is not stale; the scheduler never loops over a table with nothing to
  run; a zombie is not revived and is freed by its parent only; nobody starves;
* allocator: the list is intact and acyclic; no page is lost, or free and in use;
* address spaces: each has the whole kernel map and one user page of its own; a
  page has one owner; the CPU runs on pages that are not free;
* registers: a program finds in them what it left there, or the result of its
  call, whatever ran in between;
* file system: every member of the archive is found, a name is unique, the listing
  names the files there were when it was made, and programs that share a file's
  position read it up to its end;
* console: programs read the lines the user saw, in order, up to a full buffer;
* user programs: a line becomes the arguments of the program it names, no program
  opens more files than fit, the shell has the console for itself when it reads, and
  the prompt comes back.

## 2. Modules and how they correspond to the code

**`Proc`** is the task table.  A task is its slot, which is its pid.  `state`,
`parent`, `curr_task` and `zombie_exists` are the C variables of these names;
`nopen` counts the entries of `open_files`; `sched_i` is `i` in `schedule()`;
`wpid[t]` is the local variable `pid` of a `sys_wait` of task `t` that called
`sleep()`, and NULL otherwise, so it also tells that `t` is inside the kernel.
A step is one handler: `timer_irq`, `panic` and each `sys_...` start in user mode
(`InUser`) and include the trailing `kill_off_zombies`.  `sys_wait` is three
actions because the code has a switch in its middle: `sys_wait` (returns at
once), `sleep` (up to `switch_to`) and `sys_wait_return` (what follows when the
task is dispatched again).  `schedule` is one run of the scheduler's loop to the
next RUNNABLE slot in cyclic order.  `sys_open` with a full `open_files` stores
into the next field of the struct, which is `parent`; FILE stands for such a
pointer.  `sys_fork` with a full table writes through a NULL pointer: the model
goes to `machine = "wild"` and says nothing more.  User programs are arbitrary:
any task may issue any call whenever it runs.  Constant `OPEN_LIMIT` bounds how
many descriptors a program tries to hold, so that programs that stay within
`MAX_OPEN_FILES` and programs that do not are both instances; `ORPHANS` says
whether programs may exit before their children do.

**`PagePool`** is the abstract promise of `kmalloc` and `kfree`; **`PageAlloc`**
is the code: a list threaded through the first words of the free pages, with
callers (`use`) that write anything into pages they hold.  `main` calls
`register_free_mem` twice, each time with its own `start` and `end` and its own loop
(`register_page`), and allocates in between; `calls` says how far it has come and
`now` is the loop variable of the last call.  `held`, `nheld`, `depth` and `nfree`
are history variables.

**`TaskMemory`** extends `Proc`: each action is an action of `Proc` conjoined with
what the same handler does to pages (`kstack`, `pgdir`, the user page), to `cr3`
and to `task_state.esp0`.  It takes the allocator as the set `PageAlloc` shows it
to be.  A failing `execv` frees physical page 0 (`LowPage`), which is how the code
really behaves; after a page was freed twice (`corrupt = 1`) the model stops.

**`AddressSpace`** is the level below: page directories and page tables entry by
entry.  A step is one page mapped (`map_memory`, with `map_page` allocating a
table where there is none) or one page freed (`unmap_page`, `destroy_table`,
`destroy_address_space`), so that what the CPU sees through `cr3` between two
steps of `fork`, `execv` or `kill_off_zombies` is part of the state.  Memory that
is allocated still holds what it held before (`Scribbled`): the clearing of a
new directory matters.  Which task may be reaped by which is left to `Proc`.

**`Context`** extends `Proc` with the registers: `frame[t]` is the `struct
int_regs` at the top of the kernel stack of `t`, `context[t]` the stack and the
place in the kernel that `tasks[t].context` leads to, `esp0` the task whose stack
the next trap will use, `image[t]` the program in its address space.  A trap
pushes `cpu` on the stack `esp0` names, wherever that is; `switch_to` moves `esp0`
and leaves the frame behind; a dispatch pops what the context says.  Of the
registers eip, esp and eax are kept, and a code address is a program and a label
in it.  `user` is a history variable: what the program of `t` has to find.
`AnyProgram` issues any call; `ctx_execv_bad_argv` is the error path of `execv`
behind lines 129 and 130, and constant `BAD_ARGV` says whether programs take it.

**`UserStack`** holds `prepare_ustack` as an operator on pages of bytes, and what
`main` reads back.  A word is `PTR` cells that know which word they belong to, so
that an overlap of strings and pointers shows.  `Copies` are the calls of
`memcpy_to_another_space` in the order of the code, and a cell of the page holds what
the last of them that covers it has put there.

**`Shell`** extends both with the programs of user/: `mem[t]` is what the program
of `t` has in its page, and each label is a system call it stands before.
`read_line` reads one character a step; `tokenize` is one step per word on a `buf`
that keeps what earlier lines left (`Stale` is what it held before the first);
`echo`, `hello`, `ls` and `cat` are sequences of calls.  `input` is what
`LineDiscipline` promises of the console: finished lines, in order.  `cat` may be
given the console for a file: that open always succeeds (sys_file.c:34), the read
takes what input there is (`cat_read`), and the close fails (sys_file.c:138), so it
keeps the descriptor.  `line` is a history variable, what `read_line` has put into
`buf`; `Kept` is what sh makes of it, which for a text that fills `buf` is one
character less.  `MCShell` gives one-letter names to the programs and the lines that
are typed.

**`Archive`** says where ar puts members and how it writes sizes, and has
`init_fs`'s operators on headers: `null_out_space`, `atoi`, the step to the next
header.

**`Files`** extends it: the action `init_fs` unpacks one member a step, until the
system calls start.  It is `filesystem[]` with names, types, sizes, positions and contents by
cell, the descriptors of two programs, and `sys_open` with its four cases
(console, `/`, existing file, new file), `sys_read`, `sys_write` and `sys_close`.
Names are a small set; LONG is a path that does not fit the field `name`.  A cell
of data says where its byte came from, so that old data can be told from new.
`rewritten` and `written` are history variables.  `MCFiles` gives names and
symmetry.

**`LineDiscipline`** is what a reader of the console may rely on; **`Console`** is
the circular buffer with its unsigned arithmetic modulo `WORD`, the serial
interrupt with its echo, and `read_console`.  `screen` is a history variable: the
current line of the terminal.  `DISCIPLINED` restricts the user to deleting on
the unfinished line.

**`ProcProofs`**, **`PageAllocProofs`**, **`TaskMemoryProofs`**, **`AddressSpaceProofs`**,
**`ContextProofs`**, **`ConsoleProofs`**, **`FilesProofs`** and **`ShellProofs`** hold the
theorems about the modules they are named after (section 5).  The proofs about `TaskMemory` and
`Context` extend those about `Proc`, and the proofs about `Shell` those about
`Context`, as the modules do.

Operators whose comment starts with "Mutant" are deliberately wrong variants of
the definition below them.  No specification uses them; each is substituted for
that definition to see that a property can fail (`mutants` in `PROJECT.json`).

## 3. Runs, bounds and what they show

| Run | Instance | Shows |
|---|---|---|
| `proc` | 5 slots: scheduler, init, 3 programs; 1 descriptor each; orphans; `FairSpec` | `TypeOK`, `OneRunning`, `SleeperAwaitsLiveChild`, `WokenByExit`, `WaitPidNotStale`, `NoHang`, `Lifecycle`, and `RunnableRuns`: the scan starves nobody; 173 thousand states, no deadlock |
| `proc_parent` | 3 slots, one `open` too many | violation of `ParentIsTask` (finding 1) |
| `page_alloc` | pages of 4 bytes, kernel ends inside page 1, boundary at 16, memory ends at 24 | `TypeOK`, `ListIntact`, `Conservation`, refinement `PoolSpec`; 7 thousand states |
| `address_space` | 36 physical pages, tables of 12 entries, directories of 6, an unmapped table between the identity map and KERN_BASE, 3 tasks, 5 calls of fork, execv or reaping | `TypeOK`, `KernelMapped`, `UserIsolation`, `PagesAccounted`, `KernelReachable`; 76 thousand states |
| `memory` | 3 slots, 10 pages, 1 new file, 1 failing execv, one `open` too many allowed | `MemTypeOK`, `PagesDisjoint`, `NoLeak`, `CpuOnOwnPages`, also after a parent pointer was overwritten; 1.2 million states |
| `memory_execv` | 3 slots, 2 failing execv | violation of `NoDoubleFree` (finding 2) |
| `console` | 4 cells, words of 16 values, 2 characters | `TypeOK`, `Coherent`, `EchoMatchesLine`, refinement `DisciplineSpec` |
| `console_del` | same, undisciplined user | violation of `CommittedIsNotEdited` (finding 3) |
| `files` | 3 file slots, 1 descriptor each for 2 programs, pages of 3 bytes, sizes in binary, 5 archives of 1 to 3 members | `TypeOK`, `ArchiveUnpacked`, `UniqueNames`, `ListingAccurate`, `ReadsEndAtSize`; 341 thousand states |
| `files_truncate` | same | violation of `OldDataDeleted` (finding 4) |
| `context_execv` | 3 slots, 2 programs | violation of `RunsOwnImage` (finding 5) |
| `shell` | 4 slots, 3 descriptors, `buf` of 10 bytes, 3 words, pages of 60 bytes, 3 typed lines | `ResumesIntact`, `ParentIsTask`, `NoWaitCycle`, `ArgsArrive`, `TokensAreWords`, `Foreground`, `NeverFull`, `PromptReturns`; 281 thousand states |

Why the bounds are enough.  The task table is symmetric but for the order of
slots; the hazards need at most a parent, two children of it and an orphan or a
task that reuses a slot, which three programs besides init provide.  (Slots are
scanned in order, so they are not a symmetry set.)  One descriptor makes
`open_files` as full as eight do.  In `memory` the pool is a page or so larger
than two tasks need, so it also runs dry, which is the panic of `kmalloc`.  In
`address_space` three tasks fit, with four pages to spare, and an `execv` of one of
them exhausts memory in the middle of `map_memory`; five calls suffice to build, destroy and
rebuild a space from pages that were directories, tables, stacks and user pages.
In `page_alloc` the kernel's end is not aligned, so both rounding directions
matter, and both calls of `register_free_mem` add several pages, the second when the
callers hold any of those of the first.  In `console`
four cells are filled, wrapped and emptied in every order; `WORD` is a multiple
of `MAX_BUF`, as 2^32 is of 4096, which `edit_i - 1` at 0 depends on.  In `files`
a page of three bytes is read in two pieces of which the second is short, and
three slots hold the archive's file, `/` and one new file, or none is left for it.
The archives have members of odd and even size and of none, ar's symbol table
(a member whose name becomes empty), one member more than `init_fs` accepts and
one that is larger than a page; in binary a size of 2 or 3 already has two digits.

In `shell` there are slots for a shell, a shell in it and a tool, so a tool that
is not reaped before the next line leaves none.  `open_files` has 8 entries and
`argv` of sh room for 7 words and the null pointer; here they are 3, and 3 words
(`MAX_OPEN_FILES = MAX_ARG - 1`), which is the least that the proofs suppose: `cat`
with the console for each of its two arguments fills `open_files` to the last entry.
The first line leaves spaces or letters all over `buf`, has a `cat` take input
that is meant for the shell, lines or the beginning of one, or starts the inner
shell, by name or through init; the second is every line of up to four spaces and letters, or
one with files and the console for `cat`, too many words, an argument that is too
long or more characters than `buf` takes; `cat` with two files comes last.
Arguments of 1 and 2 letters meet both cases of the
alignment in `prepare_ustack`.  At most one line names no program: after a second
failing `execv` the free list is broken (finding 2).  A line may come to sh in pieces,
when it does not fit into `buf` or a `cat` took its beginning; `FailingLines` and
`ShellLines` count a line if any piece of it that sh could take for a line would
fail, or start a shell (`Pieces`).

Deadlock is checked in every run but `memory` and `proc_parent`.  In `proc` it is
again the question whether the scheduler can be left with nothing to run; in those
two it can, because a task whose parent pointer was overwritten does not wake its
parent.  In `shell` the last shell polls for ever.

## 4. Fairness

`RunnableRuns` and `PromptReturns` need fairness.  `FairSpec` assumes weak fairness
of `schedule` and `sys_wait_return`, kernel code that runs with interrupts disabled
and that nothing can stop, and of `timer_irq`: lapic.c programs the timer in
periodic mode, `trampoline` calls `eoi` before it switches (interrupt.c:60), and
user programs cannot disable interrupts.  Nothing is assumed of user programs:
none has to make a system call, exit or wait.

`ShellSpec` assumes the same of the kernel, and of each program that it takes its
next step if it gets the CPU again and again.  That is strong fairness, because
the timer takes the CPU away in between; a program resumes where it was
(`ResumesIntact`), and between two ticks it executes many instructions.  The
formula says `CanStep` where ENABLED would stand: the program has the CPU and is
not polling an empty console.  Nothing is assumed of the user: lines may come at
any time or never.

## 5. What is proved, and how

All theorems hold for every number of slots, pages, descriptors, cells and files
that the named assumptions allow; what a theorem assumes beyond that is said with
it.

`ProcProofs`:

* `TypeCorrect`, `OneTaskRuns` and `LegalLifecycle` need nothing of the programs,
  which may overrun `open_files` as well: types, one RUNNING task, and no zombie
  that is revived or freed by anybody but its parent.  The invariant behind them
  is `Core`: types, one RUNNING task, and a scheduler that never sleeps or dies.
* `Safety`, for programs within `open_files` (`OPEN_LIMIT <= MAX_OPEN_FILES`), and
  from it `NoLostWakeup`, `NoSpuriousWakeup`, `PidSurvivesSleep` and
  `EveryoneHasParent`: no lost or spurious wakeup, no stale pid, somebody to wake
  on exit.  The inductive invariant `Inv` adds: scheduler and init stay alive and
  are nobody's children (`FixedSlots`), no parent pointer leads to a file and a
  free slot has none (`ParentPointers`), and whoever has a remembered pid is asleep
  or woken, not dead (`WaitersLive`).
  `SleeperAwaitsLiveChild` alone is not inductive: with the awaited task's pointer
  replaced its exit would wake nobody, and without `ParentPointers` a free slot
  could already count as a child of the task that waits.  The steps are proved of
  `FittingNext`, what programs within `open_files` do, so that `Shell` can use them
  without a bound on how often its programs call `open`.
* `SchedulerNeverHangs`: `NoHang`.  When the scheduler runs no other task is
  RUNNING.  Were none RUNNABLE either, every live task would be asleep, each for
  a live child of its own; the map from sleepers to the children they await is
  injective and misses init, which is nobody's child: too few children for too
  many sleepers.
* `NoRingOfWaiters`: `NoWaitCycle` for programs that outlive their children
  (`OrderlyNext`).  The extra invariants are that the parent of a live task is live
  (`LiveParents`) and that no set of live tasks is closed under the parent pointer
  (`Ancestry`), so there is no ring of parents.

`PageAllocProofs`:

* `AllocatorTypes`, `AllocatorSafe` and `PagesConserved`: `TypeOK`, `ListIntact` and
  `Conservation` for every page size and memory layout allowed by
  `PageAllocAssumption`; only their conjunction is inductive.  The history variable
  `depth` gives each free page its place in the list, which makes the list's
  finiteness and acyclicity a first-order statement; lemmas about rounding and
  multiples of the page size show that the two loops of `register_free_mem` together
  meet each page once, the second starting where the first one ended.
* `ImplementsPool`: `Spec => PoolSpec`, each step of the list is a step of the
  pool or a stutter.

`TaskMemoryProofs`:

* `MemImplementsProc`: `MemSpec => Spec`, so `Core` holds here too.
* `MemSafety`, and from it `MemTypes`, `PagesHaveOneOwner`, `NoPageIsLost`,
  `CpuKeepsItsPages` and `OneFailureIsHarmless`, if at most one `execv` fails
  (`MAX_FAILED <= 1`).  The assumption is finding 2: with two failures the
  statements are false.  The invariant `MemInv` says which slots have which pages
  (`OwnersIn`), that no page has two uses (`ApartIn`) or none (`AccountedIn`), and
  that physical page 0 is nobody's until an `execv` has failed
  (`LowPageUnseen`), without which the failing `execv` could free a page in use.
  A handler changes the pages of its caller and then reaps; `Layout` is stated of
  any such table, so that each handler is one small change followed by the same
  lemma about `kill_off_zombies`.

`AddressSpaceProofs`, for directories, tables and memory of any size and any
number of tasks and calls, if at most one `execv` fails (finding 2 again):

* `AddressSpaceSafety`, and from it `AddressSpaceTypes`, `KernelIsMapped`,
  `ProgramsAreIsolated`, `PagesAreAccounted` and `KernelStaysReachable`.  The run's
  properties speak of finished directories and of the time between two handlers;
  none of them survives a step by itself.  The invariant `ASInv` holds at each
  page mapped or freed.  `Shape`, `Processor` and `TaskDirs` say which handler can be
  where, whose directory it is building or destroying and which one is loaded.
  `OneUse` says that a page is free or has one use, as directory, table, user page or
  stack (`Layout`), where a table counts until `destroy_address_space` has freed it
  and then is on the free list (`FreedTables`); and `PageZero` that physical page 0 is
  nobody's until an `execv` has failed.  `Contents` says what a walk of each directory
  finds, given how far `map_kernel` (`Frontier`) or `destroy_address_space` has come.
* The argument is one of frames: as no page has two uses, a write to a table, a
  directory or a freed page changes what a walk finds in one directory only.
  `map_memory` and `alloc_map_memory` share the lemmas about `map_page` with and without
  an existing table (`MapInTable`, `MapNewTable`); that the two indices of a
  virtual page determine it, and that the three regions of `kernel_map` follow each
  other up to the wrap at the end of the address space, are lemmas about
  division with remainder.

`ContextProofs`:

* `CtxImplementsProc`: `CtxSpec => Spec`.
* `CtxSafety`, and from it `RegistersSurvive` and `OwnProgramRuns`, for programs that
  pass `execv` a readable argv (`BAD_ARGV = FALSE`; with other programs the second
  is finding 5).  `ResumesIntact` speaks of the program that executes; inductive is
  what `CtxInv` says of all others: the context of a task off the CPU leads to its
  own kernel stack, and the frame there is what the program is to find, a sleeping
  `wait` still owing it the pid (`Parked`); and `esp0` names the stack of the
  current task.  The steps are proved of `ProgramStep`, any code of a program's own.

`ConsoleProofs`, for a user who deletes only on the unfinished line
(`DISCIPLINED = TRUE`; finding 3 is about other users):

* `ConsoleTypes` (of every user) and `RingIsCoherent`: the cells between the indices
  are as many as the counters say, through every wrap of the unsigned indices.
  This rests on `WORD` being a multiple of `MAX_BUF`, of which lemmas about
  remainders make use.
* `EchoIsFaithful`: `EchoMatchesLine`, if also `MAX_BUF < WORD \div 2`: uart.c reads
  `edit_len` as a signed number.
* `ImplementsDiscipline`: `Spec => DisciplineSpec`, the refinement of
  `LineDiscipline` step by step: a key stores, deletes or commits at the end of
  the line, and a read takes a prefix of what is ready.

`FilesProofs`:

* `SizeIsReadBack`: `atoi` reads back the size that `ar` wrote into a header, for
  every size and radix.  Both are recursive functions; induction is done on sets
  of natural numbers that are shown to be all of them (`SetInduction`), from the
  library's theorem that < is well-founded.
* `FilesTypes`, `ArchiveIsUnpacked`, `PathsAreUnique`, `ListingStaysAccurate` and
  `ReadsStayInFile` for every archive whose members have different names.  The
  invariant `FilesInv` adds to them where `init_fs` has got to (`Unpacking`): the
  next header is where ar put it, the first `file_cnt` slots have the names and
  sizes of the members up to there, and before the system calls start the others
  are empty.

`ShellProofs`, for the programs in user/, any lines and any number of slots; all
but the first need room in `open_files` for two descriptors, which is what `ls`
holds, and for `MAX_ARG - 1` (7 of 8 in the code): `cat` holds one for its output and
keeps one more for each argument that is the console:

* `ShellImplementsProc`: `ShellSpec => Spec`.
* `ShellSafety`, and from it `ProgramsResumeIntact`, `ToolsHaveParents`,
  `ShellsNeverWaitInRing` and `ShellHasConsole`.  `Foreground` says that a shell that
  prompts has no child.  The invariant `ShellInv` explains why: a task with a
  child is a shell between `fork` and the end of `wait` (`AwaitsChild`), so it has
  only that one (`OneChild`), and the tasks form a chain from init to the one task
  without a child, which is the only one that executes.  A zombie is at its end
  and has been announced (`ZombieAnnounced`), so the next task to lower
  `zombie_exists` is its parent, and that reaps it.  Programs outlive their
  children, which `NoRingOfWaiters` had to assume, and stay within `open_files`
  (`Room`): a program holds no more descriptors than the place it has come to and,
  in `cat`, the index of the argument account for (`Fits`, `FilesHeld`).
* `TokenizeFindsWords` and `ArgumentsArrive`: `TokensAreWords` and `ArgsArrive`, for
  every line, every size of `buf` and every page in which the arguments fit.  The
  invariant `MemoryInv` follows a line through the program.  While `read_line` runs,
  and until `fork`, `buf` starts with what sh keeps of the line and ends it with a NUL, behind which is
  whatever earlier lines left (`Sound`); at each turn of `tokenize` the words it has
  cut off are the first words of the line, each ended by a NUL, and the rest of
  `buf` is untouched (`Scanned`); at its end they are all of them (`Tokenized`).  That
  the words in `Words` are numbered without gaps is a lemma about the positions
  at which words start.  For `execv` the layout of the stack is
  computed: the strings lie below each other, the pointers and the two words below
  them, no copy touches another and all are on the page (`ArgsFit`), so that reading
  the page back yields the strings (`Started`).
* `RoomForEveryProgram`: `NeverFull`, with `MAX_TASKS >= NEST + 3`, where `NEST`
  bounds how many lines that start a shell are typed.  It counts: the invariant
  `NestInv` says that the shells beside the first one (`Nested`), the tasks about to
  become one (`Starting`) and the unread lines that name one (`Pending`) are together
  no more than were typed.  A shell in `read_line` has part of a line in
  `buf`; the unread lines are counted in what it has and the rest of the input
  together (`Streams`).  As a shell that waits stands before its prompt
  (`SleepsInWait`), and every task but the one in the foreground is the scheduler or
  a shell, a shell that forks leaves a slot free.  The count depends on a line
  starting one shell at most.  A `cat` that has taken the beginning of a line leaves
  one line still (`StreamCut`), but `read_line` cuts one that does not fit into
  `buf`: the theorem supposes that no piece of such a line names a shell
  (`LongLinesHarmless`).  `MCShell` has TLC evaluate these hypotheses on its instance.

The assumptions of `Shell` are those of the code: NUL, space, newline and the
letters are different characters, a typed line has no newline inside, and `ArgsFit`,
which with `MAX_ARG` and `MAX_ARGC` 8 and pages of 4096 bytes says that 1241 bytes fit
below 4088.

A note on the backend.  This version of tlapm tells its SMT solver that Len(s) = n
holds exactly if DOMAIN s = 1 .. n, for any s; as Len has an integer value for the
solver, a function on 0 .. n contradicts this, and from a contradiction a leaf could
follow that is false.  `buf`, pages and `argv_ps` are such functions.  The proofs have
therefore been checked a second time with only the implication from the domain to
the length; no leaf needs the other one.

## 6. What is only model-checked

* `RunnableRuns` and `PromptReturns`: liveness is outside the prover.

## 7. Findings

1. `sys_open` with a full `open_files` overwrites `parent` (sys_file.c:35, 63),
   although wakeup_parent (proc.c:243) asserts that a task has a parent to wake.
2. Two failing `execv` calls put physical page 0 on the free list twice
   (sys_proc.c:118, 124): `destroy_user_address_space` assumes that a program is
   loaded at [0, PGSIZE) (memory.c:183), and at that point none is.
3. The comment at io.c:60 calls `buf_len` the committed data and `edit_len` the
   data still edited; DEL removes committed characters too (io.c:68).
4. The comment at sys_file.c:53 says that an open for writing deletes the data of
   a file that exists; `sizeof(MAX_FILE_SIZE)` clears four bytes of it
   (sys_file.c:54).
5. An `execv` whose argv cannot be read returns -1 to its caller's address space at
   the new program's entry point and with its empty stack, because the frame is
   changed first (sys_proc.c:129); the shell relies on a failed `execv` coming back
   (user/sh.c:63).  (The shell itself always passes a readable argv.)

Reading also showed: the parent pointer of an orphan is left as it is
(proc.c:149), so whoever reuses the slot inherits the child and `NoWaitCycle`
fails with orphans; `zombie_exists` is lowered by any task that returns from a
system call (proc.c:171), so a zombie may stay until some later exit;
`read_file` copies from the start of the data whatever the position is;
`write_file` moves the position and never the size, and `sys_write` does not look
at the flags of `open`; an open of `/` for writing makes a regular file of it; a
close of the console fails, because `console_file.in_use` is never set.  `execv`
frees the directory that is still loaded (sys_proc.c:138), and until the `lcr3`
on the next line the links that `kfree` writes leave the first page of each 4 MB
unmapped in it; `KernelReachable` states how far this goes.  `init_fs` panics when
the archive has exactly `MAX_FILES` members (fs.c:74), one slot before the table
is full.  In user/: the comment "-1 so that rp won't exceed buf" (sh.c:50) does
not hold after a line of 1023 characters if the last byte of `buf`, which is never
written, happens to be a space; of such a line the last character is lost,
because `buf[n - 1]` is taken to be the newline (`Kept`); `cat` prints what its stack
held before, because `read` does not terminate `buf`; `cat console` takes input that
was meant for the shell, and never gets its descriptor back, which the limit of seven
arguments keeps harmless.

## 8. What is abstracted and what is left out

* Of the registers only eip, esp and eax are in `Context`: the others travel with
  them in the same frames.  In `TaskMemory` `switch_to` is the change of `curr_task`,
  `cr3` and `esp0`.
* `Shell` takes the console and the files as far as they matter to control: lines
  arrive whole, in order (`Console` shows when that is so), a file exists or not
  (`FileNames`).  A print, one `write` per character, is one step.  Local variables
  are private to a program; that pages are is `PagesDisjoint` and `UserIsolation`.
* `ls` finds `/`: the failure of `open` for want of a file slot, after which it reads
  from descriptor -1, is not followed.
* In `TaskMemory` an address space is its page directory; the page tables, allocated
  by `map_kernel` and freed by `destroy_address_space` with it, count as part
  of it.  Programs are one page at [0, PGSIZE), as user.ld and the comments in
  `sys_fork` and memory.c have it.
* `TaskMemory` and `AddressSpace` take the lowest free page for kmalloc's answer.  No property
  depends on which it is.
* `kmalloc` failing is the action `panic`, possible at any time in `Proc`.
  In `TaskMemory` it is also possible with pages left, which only adds behaviours.
* Descriptors that `open` did not return, and negative system call numbers, are
  not passed by the modelled programs.  A close of the console fails in the code
  (`console_file.in_use` is never set) and is one of the calls in `sys_other`.
* A parent pointer that leads to a file: `wakeup_parent` then looks at the file's
  `pos` as if it were a state; no task is woken.
* `AddressSpace` has no translation cache; a page read as entries after it was freed
  is followed only until the handler ends, when nobody reads it any more.  Pages
  that `main` takes for ever (boot stack, files of the archive) are not in its pool.
* In `Archive` a name is one value; that its field is padded with spaces and ends
  with a slash is in `ParsedName` only for the symbol table.  A size field with all
  ten digits, which would run on into the name left in `tmp`, is not representable.
* Not modelled: boot loader, segmentation and IDT layout, APIC set-up and serial
  output.  They run once, before any program, and write constants to hardware; a
  model of them would have no state to check.

## 9. Plan

Every safety invariant, action property and refinement that a passing run checks is
proved.  What is left is liveness (section 6), which waits for a prover that knows
ENABLED, and the parts in section 8 that are not modelled.
