-------------------------------- MODULE Shell --------------------------------
(***************************************************************************)
(* The programs in user/ on the kernel of Proc and Context: init becomes   *)
(* the shell, the shell reads lines, forks, runs a tool and waits for it.  *)
(*                                                                         *)
(* A step of a program is one system call, or a piece of computation; a    *)
(* print, which is one write per character, is one step.  The labels name  *)
(* the calls.  The timer preempts a program between any two steps.         *)
(*                                                                         *)
(* Memory of a program is private to it: fork copies it, execv replaces it *)
(* and gives main the arguments that prepare_ustack left on the stack.     *)
(***************************************************************************)
EXTENDS Context, UserStack

CONSTANTS
  BUFSIZE,    \* bytes of the array buf in sh.c, and of the one in cat.c (1024)
  MAX_ARG,    \* entries of argv in sh.c (8)
  SPACE, NL,  \* the characters that sh looks for
  Letters,    \* the other characters
  Elf,        \* the program in the file of a given name
  FileNames,  \* the names of files that open finds
  CONSOLE,    \* the name of the device
  Lines,      \* bound: Lines[n] are the choices for the n-th line a user
              \* types, without the newline
  MAX_FAILED, \* bound: lines that name no program (a second failing execv
              \* destroys the free list: see TaskMemory)
  NEST        \* bound: lines that start another shell

(* The arguments of a command find room on the new program's page: every    *)
(* string that is not too long, a pointer to each, and four words.          *)
ArgsFit == (MAX_ARG - 1) * ((PGSIZE \div 3) \div MAX_ARGC + 1 + PTR) + 4 * PTR <= USTACK

ASSUME ShellAssumption ==
  /\ BUFSIZE \in Nat /\ BUFSIZE >= 2
  /\ MAX_ARG \in Nat \ {0} /\ MAX_ARG <= MAX_ARGC
  /\ {SPACE, NL, NUL} \cap Letters = {} /\ SPACE # NL /\ SPACE # NUL /\ NL # NUL
  /\ USTACK = PGSIZE - 2 * PTR
  /\ ArgsFit
  /\ NEST \in Nat
  /\ Lines \in Seq(SUBSET Seq(Letters \cup {SPACE}))

VARIABLES
  mem,    \* what a program has in its page
  input,  \* characters of finished lines that nobody has read
  typed   \* how many lines were typed, and of these started a shell, failed

shell_vars == <<vars, ctx_vars, mem, input, typed>>

(* main's arguments; i of cat; buf, argv and the variables of read_line and *)
(* tokenize in sh.  line is history: what read_line took, without the       *)
(* newline if it got to one.                                                *)
Fresh(args, stale) ==
  [args |-> args, buf |-> stale, argv |-> <<>>, i |-> 0, len |-> 0, rp |-> 0, line |-> <<>>]

(* An array on the stack holds what the page held before: anything.         *)
Stale == {[k \in 0 .. BUFSIZE - 1 |-> c] : c \in {SPACE, NUL}}

Blank == Fresh(<<>>, [k \in 0 .. BUFSIZE - 1 |-> NUL])

ShellInit ==
  /\ CtxInit
  /\ mem = [t \in Tasks |-> Blank]
  /\ input = <<>>
  /\ typed = [lines |-> 0, shells |-> 0, failing |-> 0]

-----------------------------------------------------------------------------
(* The scans of tokenize.  SkipSpaces may run past the line, over what      *)
(* earlier lines left, and to the end of buf.  What lies behind it does not *)
(* matter: len has been passed by then.                                     *)
strlen(buf) == Min({k \in DOMAIN buf : buf[k] = NUL})

SkipSpaces(buf, k) == Min({j \in k .. BUFSIZE : j = BUFSIZE \/ buf[j] # SPACE})

WordEnd(buf, k) == Min({j \in k .. BUFSIZE - 1 : buf[j] \in {SPACE, NUL}})

(* Mutant: the end of the line counts as a word. *)
More_inclusive(len, rp) == len >= rp

(* The condition of the loop. *)
More(len, rp) == len > rp

(* The strings that an array of pointers into buf leads to. *)
Strings(buf, argv) == [k \in DOMAIN argv |-> StringAt(buf, argv[k])]

(* sh puts the end of the string where it supposes the newline: of a text   *)
(* that fills what read_line may use the last character is lost.            *)
Kept(line) == IF Len(line) = BUFSIZE - 1 THEN Front(line) ELSE line

(* What a user means by a line: its longest runs without a space, in order. *)
Starts(line) == {i \in 1 .. Len(line) : line[i] # SPACE /\ (i = 1 \/ line[i - 1] = SPACE)}

Stop(line, i) == Min({j \in i .. Len(line) : j = Len(line) \/ line[j + 1] = SPACE})

(* How many words start at i or before. *)
Rank(line, i) == Cardinality({j \in Starts(line) : j <= i})

Words(line) ==
  LET nth(k) == CHOOSE i \in Starts(line) : Rank(line, i) = k
  IN [k \in 1 .. Cardinality(Starts(line)) |-> SubSeq(line, nth(k), Stop(line, nth(k)))]

-----------------------------------------------------------------------------
At(p, l) == InUser /\ cpu.eip = <<p, l>>

me == mem[curr_task]

(* The current program's memory becomes m, and pages of dead tasks are gone. *)
store(m) == mem' = Surviving([mem EXCEPT ![curr_task] = m], Blank)

keep == store(me)

(* print and puts, and any other call whose effect is outside this module.  *)
call(p, l, next) == At(p, l) /\ ctx_other(<<p, next>>, 0) /\ keep /\ UNCHANGED input

(* open of a file that exists: the descriptor is the first free one. *)
open_file(p, l, next) ==
  /\ At(p, l)
  /\ ctx_open(<<p, next>>, nopen[curr_task])
  /\ keep
  /\ UNCHANGED input

leave(p) == At(p, "exit") /\ ctx_exit /\ UNCHANGED <<mem, input>>

(* execv of p; main finds its arguments on the stack that was prepared. *)
exec(p, prepared) == \E stack \in {prepared} :
  /\ ctx_execv(p, stack.esp)
  /\ \E stale \in IF p = "sh" THEN Stale ELSE {Blank.buf} :
       store([Fresh(Argv(stack.page, stack.esp), stale) EXCEPT !.line = me.line])
  /\ UNCHANGED input

-----------------------------------------------------------------------------
init == At("init", "main") /\ exec("sh", prepare_ustack_null(USTACK))

(* sh *)
sh_main ==
  /\ At("sh", "main")
  /\ ctx_open(<<"sh", "prompt">>, nopen[curr_task])
  /\ store([me EXCEPT !.line = <<>>])
  /\ UNCHANGED input

(* Mutant: the console is opened again for every line. *)
sh_prompt_reopens ==
  /\ At("sh", "prompt")
  /\ ctx_open(<<"sh", "read">>, nopen[curr_task])
  /\ store([me EXCEPT !.argv = <<>>, !.line = <<>>, !.len = 0, !.rp = 0])
  /\ UNCHANGED input

sh_prompt ==
  /\ At("sh", "prompt")
  /\ ctx_other(<<"sh", "read">>, 2)
  /\ store([me EXCEPT !.argv = <<>>, !.line = <<>>, !.len = 0, !.rp = 0])
  /\ UNCHANGED input

(* read_line asks for one character at a time, and again if there is none.  *)
sh_read_nothing == input = <<>> /\ call("sh", "read", "read")

LineDone(ch) == ch = NL \/ me.i + 1 = BUFSIZE - 1

sh_read ==
  /\ At("sh", "read")
  /\ input # <<>> /\ ~LineDone(Head(input))
  /\ ctx_other(<<"sh", "read">>, 1)
  /\ store([me EXCEPT !.buf[me.i] = Head(input), !.i = @ + 1])
  /\ input' = Tail(input)

(* buf[n - 1] = '\0' *)
Terminated(buf, n) == [buf EXCEPT ![n - 1] = NUL]

(* The characters that read_line has put into buf. *)
Partial(m) == [k \in 1 .. m.i |-> m.buf[k - 1]]

(* The line is complete, or there is no room for more of it. *)
sh_read_last ==
  /\ At("sh", "read")
  /\ input # <<>> /\ LineDone(Head(input))
  /\ ctx_other(<<"sh", "token">>, 1)
  /\ LET ch == Head(input)
         buf == Terminated([me.buf EXCEPT ![me.i] = ch], me.i + 1)
     IN store([me EXCEPT !.buf = buf, !.len = strlen(buf), !.rp = SkipSpaces(buf, 0), !.i = 0,
                         !.line = IF ch = NL THEN Partial(me) ELSE Append(Partial(me), ch)])
  /\ input' = Tail(input)

goto(l, m) == compute(<<"sh", l>>) /\ mem' = [mem EXCEPT ![curr_task] = m] /\ UNCHANGED input

(* One turn of the loop of tokenize; the word starts at rp.  With MAX_ARG   *)
(* words there is no room for the null pointer behind them: the result is 0 *)
(* and the line is dropped.                                                 *)
sh_token ==
  /\ At("sh", "token") /\ More(me.len, me.rp)
  /\ LET end == WordEnd(me.buf, me.rp)
         buf == [me.buf EXCEPT ![end] = NUL]
     IN \/ /\ Len(me.argv) + 1 = MAX_ARG
           /\ goto("prompt", [me EXCEPT !.buf = buf, !.argv = <<>>])
        \/ /\ Len(me.argv) + 1 < MAX_ARG
           /\ goto("token", [me EXCEPT !.buf = buf, !.argv = Append(@, me.rp),
                                       !.rp = SkipSpaces(buf, end + 1)])

(* No word is left: the line is run if it had any. *)
sh_token_end ==
  /\ At("sh", "token") /\ ~More(me.len, me.rp)
  /\ goto(IF me.argv = <<>> THEN "prompt" ELSE "fork", me)

sh_fork ==
  /\ At("sh", "fork")
  /\ ctx_fork(<<"sh", "forked">>)
  /\ mem' = Surviving([t \in Tasks |-> IF alloc_task(t) THEN me ELSE mem[t]], Blank)
  /\ UNCHANGED input

argv == Strings(me.buf, me.argv)

(* pid == 0: the child. *)
sh_execv ==
  /\ At("sh", "forked") /\ cpu.eax = 0
  /\ argv[1] \in DOMAIN Elf
  /\ exec(Elf[argv[1]], prepare_ustack(USTACK, argv))

sh_execv_fails ==
  /\ At("sh", "forked") /\ cpu.eax = 0
  /\ argv[1] \notin DOMAIN Elf
  /\ ctx_execv_fails(<<"sh", "failed">>)
  /\ keep
  /\ UNCHANGED input

(* The parent. *)
sh_wait ==
  /\ At("sh", "forked") /\ cpu.eax # 0
  /\ \/ ctx_wait(<<"sh", "prompt">>) /\ keep
     \/ ctx_sleep(<<"sh", "prompt">>) /\ UNCHANGED mem
  /\ UNCHANGED input

sh ==
  \/ sh_main \/ sh_prompt \/ sh_read_nothing \/ sh_read \/ sh_read_last
  \/ sh_token \/ sh_token_end
  \/ sh_fork \/ sh_execv \/ sh_execv_fails \/ sh_wait
  \/ call("sh", "failed", "exit") \/ leave("sh")

(* echo and hello open the console, print and exit. *)
prints(p) == open_file(p, "main", "print") \/ call(p, "print", "exit") \/ leave(p)

echo == prints("echo")

hello == prints("hello")

ls ==
  \/ open_file("ls", "main", "root") \/ open_file("ls", "root", "read")
  \/ call("ls", "read", "print") \/ call("ls", "print", "exit") \/ leave("ls")

(* cat: i counts from 1 as in the code, so argv[i] is args[i + 1].  Without *)
(* a file, or when one cannot be opened, it says so and exits.              *)
path == me.args[me.i + 1]

cat_next(i) == <<"cat", IF i < Len(me.args) THEN "open" ELSE "exit">>

cat_main ==
  /\ At("cat", "main")
  /\ ctx_open(IF Len(me.args) = 1 THEN <<"cat", "print">> ELSE cat_next(1), nopen[curr_task])
  /\ store([me EXCEPT !.i = 1])
  /\ UNCHANGED input

(* The console can be opened as often as one likes. *)
cat_open ==
  /\ At("cat", "open")
  /\ \/ /\ path \in FileNames \cup {CONSOLE}
        /\ ctx_open(<<"cat", "read">>, nopen[curr_task])
     \/ /\ path \notin FileNames \cup {CONSOLE}
        /\ ctx_other(<<"cat", "print">>, -1)
  /\ keep
  /\ UNCHANGED input

(* A read of the console returns at once, with what there is to read.       *)
cat_read ==
  /\ At("cat", "read")
  /\ \E count \in {IF path = CONSOLE THEN Min({BUFSIZE, Len(input)}) ELSE 0} :
       /\ ctx_other(<<"cat", "write">>, count)
       /\ input' = SubSeq(input, count + 1, Len(input))
  /\ keep

(* Mutant: i is not incremented. *)
Incremented_not(k) == k

Incremented(k) == k + 1

(* close fails on the console, which is never in_use: cat keeps it open.    *)
cat_close ==
  /\ At("cat", "close")
  /\ \/ path # CONSOLE /\ ctx_close(cat_next(Incremented(me.i)))
     \/ path = CONSOLE /\ ctx_other(cat_next(Incremented(me.i)), -1)
  /\ store([me EXCEPT !.i = Incremented(@)])
  /\ UNCHANGED input

cat ==
  \/ cat_main \/ cat_open
  \/ cat_read \/ call("cat", "write", "close") \/ cat_close
  \/ call("cat", "print", "exit") \/ leave("cat")

user_programs == (init \/ sh \/ echo \/ hello \/ ls \/ cat) /\ UNCHANGED typed

-----------------------------------------------------------------------------
Named(line) == IF Words(line)[1] \in DOMAIN Elf THEN Elf[Words(line)[1]] ELSE ""

AllLines == UNION Range(Lines)

StartsShell(line) == Words(line) # <<>> /\ Named(line) \in {"sh", "init"}

(* What sh may take for a line: the rest of one whose beginning a cat has    *)
(* read, and of one that does not fit into buf any piece.                    *)
Piece(s, x, y) == [i \in 1 .. y - x + 1 |-> s[x + i - 1]]

IsLong(line) == Len(line) >= BUFSIZE - 1

Pieces(line) ==
  {Piece(line, x, y) : x \in 1 .. Len(line) + 1,
                       y \in IF IsLong(line) THEN 0 .. Len(line) ELSE {Len(line)}}

ShellLines == {line \in AllLines : \E p \in Pieces(line) : StartsShell(p)}

FailingLines == {line \in AllLines : \E p \in Pieces(line) : Words(p) # <<>> /\ Named(p) = ""}

(* A line that is cut starts no shell: it could start several.               *)
LongLinesHarmless == \A line \in ShellLines : ~IsLong(line)

(* The serial interrupt of the return key: a line becomes readable.  It can *)
(* arrive while a user program executes.                                    *)
serial_irq ==
  /\ InUser
  /\ typed.lines < Len(Lines)
  /\ \E line \in Lines[typed.lines + 1] :
       /\ line \in ShellLines => typed.shells < NEST
       /\ line \in FailingLines => typed.failing < MAX_FAILED
       /\ input' = input \o Append(line, NL)
       /\ typed' = [lines |-> typed.lines + 1,
                    shells |-> typed.shells + (IF line \in ShellLines THEN 1 ELSE 0),
                    failing |-> typed.failing + (IF line \in FailingLines THEN 1 ELSE 0)]
  /\ UNCHANGED <<vars, ctx_vars, mem>>

kernel ==
  /\ \/ (ctx_schedule \/ ctx_timer) /\ UNCHANGED mem
     \/ ctx_wait_return /\ mem' = Surviving(mem, Blank)
  /\ UNCHANGED <<input, typed>>

ShellNext == kernel \/ serial_irq \/ user_programs

(* Task t has the CPU and its program can do something other than ask for a *)
(* character again: a step of user_programs is possible that changes state. *)
CanStep(t) == InUser /\ curr_task = t /\ ~(At("sh", "read") /\ input = <<>>)

(* Kernel code cannot be stopped and the timer is periodic, as in Proc.  A  *)
(* program that gets the CPU again and again also gets to its next system   *)
(* call, because a period of the timer is many instructions long: strong    *)
(* fairness of every program, with CanStep for ENABLED.                     *)
ShellSpec ==
  /\ ShellInit /\ [][ShellNext]_shell_vars
  /\ WF_shell_vars(kernel)
  /\ \A t \in Tasks : []<>CanStep(t) => []<><<curr_task = t /\ user_programs>>_shell_vars
-----------------------------------------------------------------------------
(* The program of t stands before a call, not inside one. *)
Stands(t, p, l) == state[t] \in {"RUNNABLE", "RUNNING"} /\ wpid[t] = NULL /\ user[t].eip = <<p, l>>

(* From the keyboard to main: a tool that starts is the one the line named, *)
(* and argc and argv are the words of that line, in order and unharmed by   *)
(* tokenize, fork, execv and the layout prepare_ustack makes; an argument   *)
(* that is too long ends the list.  A line that names init starts init, and *)
(* that a shell without arguments.                                          *)
ArgsArrive ==
  \A t \in Tasks \ {init_task} : \A p \in Programs :
    Stands(t, p, "main") =>
      LET w == Words(Kept(mem[t].line)) IN
      \/ Elf[w[1]] = p /\ mem[t].args = Copied(w)
      \/ Elf[w[1]] = "init" /\ p = "sh" /\ mem[t].args = <<>>

(* read_line and tokenize find the words of every line, whatever earlier    *)
(* lines left in buf behind it, but for the last character of a line that   *)
(* fills buf; a line is dropped only if it has no word or too many.         *)
TokensAreWords ==
  \A t \in Tasks : LET m == mem[t] IN
    /\ Stands(t, "sh", "fork") => Strings(m.buf, m.argv) = Words(Kept(m.line))
    /\ Stands(t, "sh", "prompt") /\ m.argv = <<>> => Len(Words(Kept(m.line))) \notin 1 .. MAX_ARG - 1

(* A shell that prompts or reads has the console for itself: the program it *)
(* started has exited, so no output mixes and no two programs read.         *)
Foreground ==
  \A t \in Tasks : Stands(t, "sh", "prompt") \/ Stands(t, "sh", "read") =>
    \A c \in Tasks : parent[c] = t => ~Live(c)

(* Dead tools are reaped in time: when the shell forks there is a free      *)
(* slot, as long as no more shells are nested than slots allow: NEST shells *)
(* beside the scheduler, the first shell and the program in the foreground. *)
(* (Without one sys_fork would write through a null pointer.)               *)
NeverFull == At("sh", "fork") => \E t \in Tasks : state[t] = "UNUSED"

(* Whatever is typed, a shell comes back to wait for more with all input    *)
(* consumed.                                                                *)
PromptReturns == []<>(At("sh", "read") /\ input = <<>>)
=============================================================================
