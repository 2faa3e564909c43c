------------------------------- MODULE Console -------------------------------
(***************************************************************************)
(* Console input: the uart interrupt that echoes a key and stores it in a  *)
(* circular buffer (uart.c, io.c), and sys_read of the console, which      *)
(* takes committed characters out again.  Both run with interrupts         *)
(* disabled; keys arrive between any two system calls of the programs.     *)
(***************************************************************************)
EXTENDS Integers, Sequences

CONSTANTS
  MAX_BUF,     \* cells of circular_buf (4096)
  WORD,        \* the values of an unsigned int (2^32)
  Chars,       \* printable characters
  CR, NL, DEL, \* '\r', '\n' and the delete key
  NOBYTE,      \* -1: uart_read_byte finds the receiver empty
  DISCIPLINED  \* does the user delete only characters of the unfinished line?

ASSUME ConsoleAssumption ==
  /\ MAX_BUF \in Nat \ {0} /\ WORD \in Nat /\ WORD > MAX_BUF
  /\ WORD % MAX_BUF = 0
  /\ DISCIPLINED \in BOOLEAN

VARIABLES
  buf_len, edit_len, edit_i, write_i, read_i, circular_buf,
  got,         \* what the last read_console returned
  screen,      \* history: what the echo leaves on the current terminal line
  panicked

vars == <<buf_len, edit_len, edit_i, write_i, read_i, circular_buf, got, screen, panicked>>

Cell == Chars \cup {NL, NOBYTE}

(* bss is zero at boot; what the cells hold then is never read. *)
Init ==
  /\ buf_len = 0 /\ edit_len = 0
  /\ edit_i = 0 /\ write_i = 0 /\ read_i = 0
  /\ circular_buf = [i \in 0 .. MAX_BUF - 1 |-> NOBYTE]
  /\ got = <<>>
  /\ screen = <<>>
  /\ panicked = 0

(* uart_read_byte turns carriage return into newline. *)
uart_read_byte(raw) == IF raw = CR THEN NL ELSE raw

(* Arithmetic of unsigned int, and the signed view of it that uart.c has    *)
(* through its own declaration of edit_len.                                 *)
Inc(n) == (n + 1) % WORD

Dec(n) == (n - 1) % WORD

Signed(n) == IF n >= WORD \div 2 THEN n - WORD ELSE n

(* Mutant: the index is a signed int. *)
PrevIndex_signed(i) == i - 1

PrevIndex(i) == Dec(i) % MAX_BUF

NextIndex(i) == Inc(i) % MAX_BUF

(* Mutant: a delete is not shown. *)
echo_no_erase(ch) ==
  screen' = IF ch = DEL THEN screen ELSE IF ch = NL THEN <<>> ELSE Append(screen, ch)

(* What handle_uartintr sends back to the terminal. *)
echo(ch) ==
  screen' = IF ch = DEL
            THEN IF Signed(edit_len) > 0 /\ screen # <<>>
                 THEN SubSeq(screen, 1, Len(screen) - 1) ELSE screen
            ELSE IF ch = NL THEN <<>> ELSE Append(screen, ch)

(* write_circular_buf(DEL). *)
delete_char ==
  /\ IF edit_len > 0
     THEN edit_i' = PrevIndex(edit_i) /\ edit_len' = Dec(edit_len)
     ELSE UNCHANGED <<edit_i, edit_len>>
  /\ UNCHANGED <<buf_len, write_i, circular_buf>>

(* Mutant: a newline commits the line without the newline itself. *)
commit_early(ch) ==
  /\ write_i' = IF ch = NL THEN edit_i ELSE write_i
  /\ buf_len' = IF ch = NL THEN edit_len ELSE buf_len

(* A newline commits everything stored so far. *)
commit(ch) ==
  /\ write_i' = IF ch = NL THEN edit_i' ELSE write_i
  /\ buf_len' = IF ch = NL THEN edit_len' ELSE buf_len

(* write_circular_buf of any other character. *)
store_char(ch) ==
  /\ circular_buf' = [circular_buf EXCEPT ![edit_i] = ch]
  /\ edit_i' = NextIndex(edit_i)
  /\ edit_len' = Inc(edit_len)
  /\ commit(ch)

(* The serial interrupt: handle_uartintr, then write_circular_buf.  With    *)
(* the buffer full the echo is sent and the kernel panics.                  *)
uart_irq ==
  /\ panicked = 0
  /\ \E raw \in Cell \cup {CR, DEL} :
       LET ch == uart_read_byte(raw) IN
       /\ ch = DEL /\ DISCIPLINED => edit_len = 0 \/ edit_len > buf_len
       /\ echo(ch)
       /\ \/ ch = DEL /\ delete_char /\ UNCHANGED panicked
          \/ ch # DEL /\ edit_len # MAX_BUF /\ store_char(ch) /\ UNCHANGED panicked
          \/ /\ ch # DEL /\ edit_len = MAX_BUF
             /\ panicked' = 1
             /\ UNCHANGED <<buf_len, edit_len, edit_i, write_i, circular_buf>>
  /\ UNCHANGED <<read_i, got>>

(* The i-th cell from read_i on. *)
Nth(i) == circular_buf[(read_i + i - 1) % MAX_BUF]

(* read_console(count) calls read_circular_buf until it has count           *)
(* characters or gets a negative one: the buffer is empty, or the cell      *)
(* holds NOBYTE.  n is how many cells that consumes.                        *)
Consumed(count, n) ==
  /\ n <= count /\ n <= buf_len
  /\ \A i \in 1 .. n - 1 : Nth(i) # NOBYTE
  /\ n = count \/ n = buf_len \/ (n > 0 /\ Nth(n) = NOBYTE)

(* Mutant: read_circular_buf leaves edit_len alone. *)
take_forgets(n) ==
  /\ read_i' = (read_i + n) % MAX_BUF
  /\ buf_len' = (buf_len - n) % WORD
  /\ UNCHANGED edit_len

(* n calls of read_circular_buf. *)
take(n) ==
  /\ read_i' = (read_i + n) % MAX_BUF
  /\ buf_len' = (buf_len - n) % WORD
  /\ edit_len' = (edit_len - n) % WORD

read_console ==
  /\ panicked = 0
  /\ \E count \in 1 .. MAX_BUF, n \in 0 .. MAX_BUF :
       /\ Consumed(count, n)
       /\ got' = IF n > 0 /\ Nth(n) = NOBYTE
                 THEN [i \in 1 .. n - 1 |-> Nth(i)]
                 ELSE [i \in 1 .. n |-> Nth(i)]
       /\ take(n)
  /\ UNCHANGED <<edit_i, write_i, circular_buf, screen, panicked>>

stopped == panicked = 1 /\ UNCHANGED vars

Next == uart_irq \/ read_console \/ stopped

Spec == Init /\ [][Next]_vars
-----------------------------------------------------------------------------
(* The variables have their types. *)
TypeOK ==
  /\ buf_len \in 0 .. WORD - 1 /\ edit_len \in 0 .. WORD - 1
  /\ {edit_i, write_i, read_i} \subseteq 0 .. MAX_BUF - 1
  /\ circular_buf \in [0 .. MAX_BUF - 1 -> Cell]
  /\ got \in Seq(Cell) /\ screen \in Seq(Cell)
  /\ panicked \in {0, 1}

(* The three indices and the two lengths agree around the ring, and no      *)
(* length exceeds the buffer or wraps below zero: what io.c says of         *)
(* buf_len, that a committed character stays committed until it is read.    *)
Coherent ==
  /\ buf_len <= edit_len /\ edit_len <= MAX_BUF
  /\ write_i = (read_i + buf_len) % MAX_BUF
  /\ edit_i = (read_i + edit_len) % MAX_BUF

(* Committed data is not edited any more. *)
CommittedIsNotEdited == buf_len <= edit_len

(* The characters of the unfinished line, in order. *)
Line == [i \in 1 .. edit_len - buf_len |-> Nth(buf_len + i)]

(* What the user sees on the terminal line is what return will commit.      *)
EchoMatchesLine == panicked = 0 => screen = Line

(* The circular buffer implements the line discipline. *)
Discipline == INSTANCE LineDiscipline WITH
  ready <- [i \in 1 .. buf_len |-> Nth(i)],
  line <- Line,
  full <- panicked

DisciplineSpec == Discipline!Spec
=============================================================================
