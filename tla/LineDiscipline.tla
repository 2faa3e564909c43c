--------------------------- MODULE LineDiscipline ---------------------------
(***************************************************************************)
(* What a program that reads the console may rely on: it gets whole lines, *)
(* in the order they were typed, as the user left them when pressing       *)
(* return.  Until then the user can take back what is on the line, and     *)
(* only that.                                                              *)
(***************************************************************************)
EXTENDS Integers, Sequences

CONSTANTS
  Chars,    \* printable characters
  NL,       \* ends a line
  NOBYTE,   \* marks an interrupt of the uart that brought no byte
  MAX_BUF   \* how many characters can be waiting

VARIABLES
  ready,    \* the characters of finished lines that no program has read
  line,     \* the line being typed
  got,      \* what the last read returned
  full      \* 1 once a character came that there was no room for

vars == <<ready, line, got, full>>

Init == ready = <<>> /\ line = <<>> /\ got = <<>> /\ full = 0

Room == Len(ready) + Len(line) < MAX_BUF

Type == \E c \in Chars \cup {NOBYTE} :
  /\ full = 0 /\ Room
  /\ line' = Append(line, c)
  /\ UNCHANGED <<ready, got, full>>

Return ==
  /\ full = 0 /\ Room
  /\ ready' = ready \o Append(line, NL)
  /\ line' = <<>>
  /\ UNCHANGED <<got, full>>

Delete ==
  /\ full = 0 /\ line # <<>>
  /\ line' = SubSeq(line, 1, Len(line) - 1)
  /\ UNCHANGED <<ready, got, full>>

Overrun ==
  /\ full = 0 /\ ~Room
  /\ full' = 1
  /\ UNCHANGED <<ready, line, got>>

(* A read takes characters while there are any.  NOBYTE ends it early and   *)
(* is lost.                                                                 *)
Read == \E n \in 1 .. MAX_BUF, k \in 0 .. Len(ready) :
  /\ full = 0
  /\ k <= n
  /\ \A i \in 1 .. k : ready[i] # NOBYTE
  /\ got' = SubSeq(ready, 1, k)
  /\ \/ /\ k = n \/ k = Len(ready)
        /\ ready' = SubSeq(ready, k + 1, Len(ready))
     \/ /\ k < n /\ k < Len(ready) /\ ready[k + 1] = NOBYTE
        /\ ready' = SubSeq(ready, k + 2, Len(ready))
  /\ UNCHANGED <<line, full>>

Next == Type \/ Return \/ Delete \/ Overrun \/ Read

Spec == Init /\ [][Next]_vars
=============================================================================
