---------------------------- MODULE ConsoleProofs ----------------------------
(***************************************************************************)
(* Proofs about the circular buffer of the console, for every size of the  *)
(* buffer and every word width that is a multiple of it.                   *)
(***************************************************************************)
EXTENDS Console, SequenceTheorems, TLAPS

-----------------------------------------------------------------------------
(* Arithmetic modulo the size of the ring. *)

(* Division with remainder. *)
LEMMA DivMod ==
  ASSUME NEW a \in Int, NEW n \in Nat \ {0}
  PROVE  /\ a = n * (a \div n) + (a % n)
         /\ a % n \in 0 .. n - 1
         /\ a \div n \in Int
OBVIOUS

(* The remainder is the only one there is. *)
LEMMA ModUnique ==
  ASSUME NEW n \in Nat \ {0}, NEW q \in Int, NEW r \in 0 .. n - 1
  PROVE  (n * q + r) % n = r
OBVIOUS

(* Reducing what is small enough changes nothing. *)
LEMMA ModSmall ==
  ASSUME NEW n \in Nat \ {0}, NEW r \in 0 .. n - 1
  PROVE  r % n = r
OBVIOUS

(* An index that was reduced may be moved on as if it had not been. *)
LEMMA ModAdd ==
  ASSUME NEW a \in Int, NEW b \in Int, NEW n \in Nat \ {0}
  PROVE  ((a % n) + b) % n = (a + b) % n
<1> DEFINE q == a \div n
           r == a % n
           p == (r + b) \div n
           s == (r + b) % n
<1>1. a = n * q + r /\ r \in Int /\ q \in Int
  BY DivMod
<1>2. r + b \in Int
  BY <1>1
<1>3. r + b = n * p + s /\ s \in 0 .. n - 1 /\ p \in Int
  BY <1>2, DivMod
<1> HIDE DEF q, r, p, s
<1>4. a + b = n * (q + p) + s
  BY <1>1, <1>3
<1>5. q + p \in Int
  BY <1>1, <1>3
<1>6. (n * (q + p) + s) % n = s
  BY <1>3, <1>5, ModUnique
<1> QED
  BY <1>4, <1>6 DEF r, s

(* Positions that are less than a ring apart have different cells. *)
LEMMA ModApart ==
  ASSUME NEW a \in Int, NEW b \in Int, NEW n \in Nat \ {0}, a < b, b < a + n
  PROVE  a % n # b % n
<1> SUFFICES ASSUME a % n = b % n PROVE FALSE
  OBVIOUS
<1>1. PICK q \in Int, r \in 0 .. n - 1 : a = n * q + r /\ a % n = r
  BY DivMod
<1>2. PICK p \in Int, s \in 0 .. n - 1 : b = n * p + s /\ b % n = s
  BY DivMod
<1>3. b - a = n * (p - q)
  BY <1>1, <1>2
<1>4. p - q >= 1
  BY <1>3
<1>5. n * (p - q) >= n
  BY <1>4
<1> QED
  BY <1>3, <1>5

-----------------------------------------------------------------------------
(* The index arithmetic of io.c.                                           *)

(* Stepping an index forward never meets the end of the word. *)
LEMMA NextIndexIs ==
  ASSUME NEW i \in 0 .. MAX_BUF - 1
  PROVE  NextIndex(i) = (i + 1) % MAX_BUF
<1>1. i + 1 \in 0 .. WORD - 1 /\ WORD \in Nat \ {0}
  BY ConsoleAssumption
<1> QED
  BY <1>1, ModSmall DEF NextIndex, Inc

(* Stepping an index back from 0 wraps around the word, and because the    *)
(* buffer's size divides the word it lands on the last cell.               *)
LEMMA PrevIndexIs ==
  ASSUME NEW i \in 0 .. MAX_BUF - 1
  PROVE  PrevIndex(i) = (i - 1) % MAX_BUF
<1>0. MAX_BUF \in Nat \ {0} /\ WORD \in Nat \ {0} /\ WORD > MAX_BUF /\ WORD % MAX_BUF = 0
  BY ConsoleAssumption
<1>1. CASE i > 0
  <2>1. i - 1 \in 0 .. WORD - 1
    BY <1>0, <1>1
  <2> QED
    BY <1>0, <2>1, ModSmall DEF PrevIndex, Dec
<1>2. CASE i = 0
  <2>1. PICK q \in Int : WORD = MAX_BUF * q
    BY <1>0, DivMod
  <2>2. (WORD * (-1) + (WORD - 1)) % WORD = WORD - 1
    BY <1>0, ModUnique
  <2>3. Dec(i) = WORD - 1
    BY <1>0, <1>2, <2>2 DEF Dec
  <2>4. WORD - 1 = MAX_BUF * (q - 1) + (MAX_BUF - 1)
    BY <1>0, <2>1
  <2>5. (MAX_BUF * (q - 1) + (MAX_BUF - 1)) % MAX_BUF = MAX_BUF - 1
    BY <1>0, ModUnique
  <2>6. (MAX_BUF * (-1) + (MAX_BUF - 1)) % MAX_BUF = MAX_BUF - 1
    BY <1>0, ModUnique
  <2>7. i - 1 = MAX_BUF * (-1) + (MAX_BUF - 1)
    BY <1>0, <1>2
  <2> QED
    BY <2>3, <2>4, <2>5, <2>6, <2>7 DEF PrevIndex
<1> QED
  BY <1>0, <1>1, <1>2
-----------------------------------------------------------------------------
(* The types of the buffer, whatever the user types.                       *)

(* A function on 1 .. n is a sequence of length n. *)
LEMMA FunIsSeq ==
  ASSUME NEW S, NEW n \in Nat, NEW f \in [1 .. n -> S]
  PROVE  f \in Seq(S) /\ Len(f) = n
<1>1. f \in Seq(S)
  BY SeqDef
<1>2. DOMAIN f = 1 .. Len(f) /\ Len(f) \in Nat
  BY <1>1, LenProperties
<1> QED
  BY <1>1, <1>2

(* Every position of the ring has a cell. *)
LEMMA NthType ==
  ASSUME TypeOK, NEW i \in Int
  PROVE  Nth(i) \in Cell
<1>1. MAX_BUF \in Nat \ {0} /\ read_i \in Int
  BY ConsoleAssumption DEF TypeOK
<1>2. (read_i + i - 1) % MAX_BUF \in 0 .. MAX_BUF - 1
  BY <1>1, DivMod
<1> QED
  BY <1>2 DEF TypeOK, Nth

(* What reaches the buffer is a character, a newline or -1. *)
LEMMA ByteType ==
  ASSUME NEW raw \in Cell \cup {CR, DEL}, uart_read_byte(raw) # DEL
  PROVE  uart_read_byte(raw) \in Cell
BY DEF uart_read_byte, Cell

(* The echo keeps the terminal line a sequence of characters. *)
LEMMA EchoType ==
  ASSUME TypeOK, NEW ch, ch # DEL => ch \in Cell, echo(ch)
  PROVE  screen' \in Seq(Cell)
<1>1. screen \in Seq(Cell)
  BY DEF TypeOK
<1>2. CASE ch = DEL
  <2>1. ASSUME screen # <<>>
        PROVE  SubSeq(screen, 1, Len(screen) - 1) \in Seq(Cell)
    BY <1>1, <2>1
  <2> QED
    BY <1>1, <1>2, <2>1 DEF echo
<1>3. CASE ch # DEL
  BY <1>1, <1>3 DEF echo
<1> QED
  BY <1>2, <1>3

(* Every step keeps the types. *)
LEMMA TypeStep ==
  ASSUME TypeOK, [Next]_vars
  PROVE  TypeOK'
<1>0. MAX_BUF \in Nat \ {0} /\ WORD \in Nat \ {0} /\ WORD > MAX_BUF
  BY ConsoleAssumption
<1>m. ASSUME NEW a \in Int
      PROVE  a % WORD \in 0 .. WORD - 1 /\ a % MAX_BUF \in 0 .. MAX_BUF - 1
  BY <1>0, DivMod
<1>1. ASSUME uart_irq PROVE TypeOK'
  <2>1. PICK raw \in Cell \cup {CR, DEL} :
          /\ echo(uart_read_byte(raw))
          /\ \/ uart_read_byte(raw) = DEL /\ delete_char /\ UNCHANGED panicked
             \/ /\ uart_read_byte(raw) # DEL
                /\ store_char(uart_read_byte(raw)) /\ UNCHANGED panicked
             \/ /\ panicked' = 1
                /\ UNCHANGED <<buf_len, edit_len, edit_i, write_i, circular_buf>>
    BY <1>1 DEF uart_irq
  <2> DEFINE ch == uart_read_byte(raw)
  <2>2. ch # DEL => ch \in Cell
    BY ByteType
  <2>3. screen' \in Seq(Cell)
    BY <2>1, <2>2, EchoType
  <2>4. UNCHANGED <<read_i, got>>
    BY <1>1 DEF uart_irq
  <2> HIDE DEF ch
  <2>5. CASE delete_char /\ UNCHANGED panicked
    <3>0. edit_i - 1 \in Int /\ edit_len - 1 \in Int
      BY DEF TypeOK
    <3>1. Dec(edit_i) \in 0 .. WORD - 1 /\ Dec(edit_len) \in 0 .. WORD - 1
      BY <1>m, <3>0 DEF Dec
    <3>2. PrevIndex(edit_i) \in 0 .. MAX_BUF - 1
      BY <1>m, <3>1 DEF PrevIndex
    <3> QED
      BY <2>3, <2>4, <2>5, <3>1, <3>2 DEF delete_char, TypeOK
  <2>6. CASE ch # DEL /\ store_char(ch) /\ UNCHANGED panicked
    <3>0. edit_i + 1 \in Int /\ edit_len + 1 \in Int
      BY DEF TypeOK
    <3>1. Inc(edit_i) \in 0 .. WORD - 1 /\ Inc(edit_len) \in 0 .. WORD - 1
      BY <1>m, <3>0 DEF Inc
    <3>2. NextIndex(edit_i) \in 0 .. MAX_BUF - 1
      BY <1>m, <3>1 DEF NextIndex
    <3>3. circular_buf' \in [0 .. MAX_BUF - 1 -> Cell]
      BY <2>2, <2>6 DEF store_char, TypeOK
    <3> QED
      BY <2>3, <2>4, <2>6, <3>1, <3>2, <3>3 DEF store_char, commit, TypeOK
  <2>7. CASE /\ panicked' = 1
             /\ UNCHANGED <<buf_len, edit_len, edit_i, write_i, circular_buf>>
    BY <2>3, <2>4, <2>7 DEF TypeOK
  <2> QED
    BY <2>1, <2>5, <2>6, <2>7 DEF ch
<1>2. ASSUME read_console PROVE TypeOK'
  <2>1. PICK count \in 1 .. MAX_BUF, n \in 0 .. MAX_BUF :
          /\ got' = IF n > 0 /\ Nth(n) = NOBYTE
                    THEN [i \in 1 .. n - 1 |-> Nth(i)]
                    ELSE [i \in 1 .. n |-> Nth(i)]
          /\ take(n)
    BY <1>2 DEF read_console
  <2>0. read_i + n \in Int /\ buf_len - n \in Int /\ edit_len - n \in Int
    BY <1>0 DEF TypeOK
  <2>2. /\ read_i' \in 0 .. MAX_BUF - 1
        /\ buf_len' \in 0 .. WORD - 1
        /\ edit_len' \in 0 .. WORD - 1
    BY <1>m, <2>0, <2>1 DEF take
  <2>3. ASSUME NEW m \in Nat PROVE [i \in 1 .. m |-> Nth(i)] \in Seq(Cell)
    <3>1. [i \in 1 .. m |-> Nth(i)] \in [1 .. m -> Cell]
      BY NthType
    <3> QED
      BY <3>1, FunIsSeq
  <2>4. n \in Nat /\ (n > 0 => n - 1 \in Nat)
    BY <1>0
  <2>5. got' \in Seq(Cell)
    BY <2>1, <2>3, <2>4
  <2> QED
    BY <1>2, <2>2, <2>5 DEF read_console, TypeOK
<1>3. ASSUME UNCHANGED vars PROVE TypeOK'
  BY <1>3 DEF vars, TypeOK
<1> QED
  BY <1>1, <1>2, <1>3 DEF Next, stopped

(* At boot the types hold. *)
LEMMA TypeInit ==
  ASSUME Init
  PROVE  TypeOK
BY ConsoleAssumption DEF Init, TypeOK, Cell

(* The console's state keeps its types whatever is typed: every index is   *)
(* one of a cell of circular_buf, even after a delete at index 0.          *)
THEOREM ConsoleTypes == Spec => []TypeOK
<1>1. TypeOK /\ [Next]_vars => TypeOK'
  BY TypeStep
<1> QED
  BY TypeInit, <1>1, PTL DEF Spec

-----------------------------------------------------------------------------
(* What each operation does to the ring, counted from read_i.              *)

(* The i-th cell from index r on of the ring buf. *)
CellAt(buf, r, i) == buf[(r + i - 1) % MAX_BUF]

(* A delete within the unfinished line takes its last cell away. *)
LEMMA DeleteEffect ==
  ASSUME TypeOK, Coherent, edit_len > buf_len, delete_char, UNCHANGED read_i
  PROVE  /\ Coherent'
         /\ edit_len' = edit_len - 1 /\ buf_len' = buf_len
         /\ \A i \in Int : CellAt(circular_buf', read_i', i) = Nth(i)
<1>0. MAX_BUF \in Nat \ {0} /\ WORD \in Nat \ {0} /\ WORD > MAX_BUF
  BY ConsoleAssumption
<1>1. /\ edit_len \in Nat /\ buf_len \in Nat /\ read_i \in Int
      /\ edit_i \in 0 .. MAX_BUF - 1 /\ edit_len - 1 \in 0 .. WORD - 1
      /\ edit_len <= MAX_BUF
  BY <1>0 DEF TypeOK, Coherent
<1>2. edit_i' = PrevIndex(edit_i) /\ edit_len' = Dec(edit_len)
  BY <1>1 DEF delete_char
<1>3. edit_len' = edit_len - 1
  BY <1>0, <1>1, <1>2, ModSmall DEF Dec
<1>4. edit_i' = (edit_i - 1) % MAX_BUF
  BY <1>1, <1>2, PrevIndexIs
<1>5. edit_i' = (((read_i + edit_len) % MAX_BUF) + (-1)) % MAX_BUF
  BY <1>0, <1>1, <1>4 DEF Coherent
<1>6. edit_i' = ((read_i + edit_len) + (-1)) % MAX_BUF
  <2>1. read_i + edit_len \in Int /\ -1 \in Int
    BY <1>1
  <2> QED
    BY <1>0, <1>5, <2>1, ModAdd
<1>7. edit_i' = (read_i' + edit_len') % MAX_BUF
  <2>1. (read_i + edit_len) + (-1) = read_i' + edit_len'
    BY <1>1, <1>3
  <2> QED
    BY <1>6, <2>1
<1>8. UNCHANGED <<buf_len, write_i, circular_buf, read_i>>
  BY DEF delete_char
<1>9. Coherent'
  BY <1>0, <1>1, <1>3, <1>7, <1>8 DEF Coherent
<1> QED
  BY <1>3, <1>8, <1>9 DEF CellAt, Nth

(* A character is stored behind the last one and overwrites none that is   *)
(* still waiting.                                                          *)
LEMMA StoreEffect ==
  ASSUME TypeOK, Coherent, NEW ch \in Cell, edit_len # MAX_BUF, store_char(ch),
         UNCHANGED read_i
  PROVE  /\ Coherent'
         /\ edit_len' = edit_len + 1
         /\ buf_len' = IF ch = NL THEN edit_len + 1 ELSE buf_len
         /\ \A i \in 1 .. edit_len : CellAt(circular_buf', read_i', i) = Nth(i)
         /\ CellAt(circular_buf', read_i', edit_len + 1) = ch
<1>0. MAX_BUF \in Nat \ {0} /\ WORD \in Nat \ {0} /\ WORD > MAX_BUF
  BY ConsoleAssumption
<1>1. /\ edit_len \in Nat /\ buf_len \in Nat /\ read_i \in Int
      /\ edit_i \in 0 .. MAX_BUF - 1 /\ edit_len + 1 \in 0 .. WORD - 1
      /\ edit_len + 1 <= MAX_BUF
  BY <1>0 DEF TypeOK, Coherent
<1>2. edit_len' = edit_len + 1
  BY <1>0, <1>1, ModSmall DEF store_char, Inc
<1>3. edit_i' = (edit_i + 1) % MAX_BUF
  BY <1>1, NextIndexIs DEF store_char
<1>4. edit_i' = ((read_i + edit_len) + 1) % MAX_BUF
  <2>1. read_i + edit_len \in Int /\ 1 \in Int
    BY <1>1
  <2>2. edit_i' = (((read_i + edit_len) % MAX_BUF) + 1) % MAX_BUF
    BY <1>3 DEF Coherent
  <2> QED
    BY <1>0, <2>1, <2>2, ModAdd
<1>5. edit_i' = (read_i' + edit_len') % MAX_BUF
  <2>1. (read_i + edit_len) + 1 = read_i' + edit_len'
    BY <1>1, <1>2
  <2> QED
    BY <1>4, <2>1
<1>6. buf_len' = IF ch = NL THEN edit_len + 1 ELSE buf_len
  BY <1>2 DEF store_char, commit
<1>7. write_i' = (read_i' + buf_len') % MAX_BUF
  BY <1>2, <1>5, <1>6 DEF store_char, commit, Coherent
<1>8. Coherent'
  BY <1>1, <1>2, <1>5, <1>6, <1>7 DEF Coherent
<1>9. ASSUME NEW i \in 1 .. edit_len
      PROVE  CellAt(circular_buf', read_i', i) = Nth(i)
  <2> DEFINE a == read_i + i - 1
             b == read_i + edit_len
  <2>1. a \in Int /\ b \in Int /\ a < b /\ b < a + MAX_BUF
    BY <1>0, <1>1
  <2> HIDE DEF a, b
  <2>2. a % MAX_BUF # b % MAX_BUF
    BY <1>0, <2>1, ModApart
  <2>3. a % MAX_BUF # edit_i
    BY <2>2 DEF b, Coherent
  <2>4. a % MAX_BUF \in 0 .. MAX_BUF - 1
    BY <1>0, <2>1, DivMod
  <2>5. circular_buf'[a % MAX_BUF] = circular_buf[a % MAX_BUF]
    BY <2>3, <2>4 DEF store_char, TypeOK
  <2> QED
    BY <2>5 DEF a, CellAt, Nth
<1>10. CellAt(circular_buf', read_i', edit_len + 1) = ch
  <2>1. read_i' + (edit_len + 1) - 1 = read_i + edit_len
    BY <1>1
  <2>2. circular_buf'[edit_i] = ch
    BY <1>1 DEF store_char, TypeOK
  <2> QED
    BY <2>1, <2>2 DEF CellAt, Coherent
<1> QED
  BY <1>2, <1>6, <1>8, <1>9, <1>10

(* A read takes the first cells away and leaves the others in order. *)
LEMMA TakeEffect ==
  ASSUME TypeOK, Coherent, NEW n \in 0 .. buf_len, take(n),
         UNCHANGED <<edit_i, write_i, circular_buf>>
  PROVE  /\ Coherent'
         /\ edit_len' = edit_len - n /\ buf_len' = buf_len - n
         /\ \A i \in Int : CellAt(circular_buf', read_i', i) = Nth(n + i)
<1>0. MAX_BUF \in Nat \ {0} /\ WORD \in Nat \ {0} /\ WORD > MAX_BUF
  BY ConsoleAssumption
<1>1. /\ edit_len \in Nat /\ buf_len \in Nat /\ read_i \in Int /\ n \in Int
      /\ edit_len - n \in 0 .. WORD - 1 /\ buf_len - n \in 0 .. WORD - 1
      /\ n <= buf_len /\ 0 <= n
  BY <1>0 DEF TypeOK, Coherent
<1>2. edit_len' = edit_len - n /\ buf_len' = buf_len - n
  BY <1>0, <1>1, ModSmall DEF take
<1>3. read_i' = (read_i + n) % MAX_BUF
  BY DEF take
<1>4. ASSUME NEW k \in Int
      PROVE  (read_i' + k) % MAX_BUF = (read_i + n + k) % MAX_BUF
  <2>1. read_i + n \in Int
    BY <1>1
  <2> QED
    BY <1>0, <1>3, <2>1, ModAdd
<1>5. write_i' = (read_i' + buf_len') % MAX_BUF
  <2>1. buf_len' \in Int /\ read_i + n + buf_len' = read_i + buf_len
    BY <1>1, <1>2
  <2>2. (read_i' + buf_len') % MAX_BUF = (read_i + n + buf_len') % MAX_BUF
    BY <1>4, <2>1
  <2> QED
    BY <2>1, <2>2 DEF Coherent
<1>6. edit_i' = (read_i' + edit_len') % MAX_BUF
  <2>1. edit_len' \in Int /\ read_i + n + edit_len' = read_i + edit_len
    BY <1>1, <1>2
  <2>2. (read_i' + edit_len') % MAX_BUF = (read_i + n + edit_len') % MAX_BUF
    BY <1>4, <2>1
  <2> QED
    BY <2>1, <2>2 DEF Coherent
<1>7. Coherent'
  BY <1>0, <1>1, <1>2, <1>5, <1>6 DEF Coherent
<1>8. ASSUME NEW i \in Int
      PROVE  CellAt(circular_buf', read_i', i) = Nth(n + i)
  <2>1. /\ i - 1 \in Int /\ read_i' + i - 1 = read_i' + (i - 1)
        /\ read_i + n + (i - 1) = read_i + (n + i) - 1
    <3>1. read_i' \in Int
      <4>1. read_i + n \in Int
        BY <1>1
      <4> QED
        BY <1>0, <1>3, <4>1, DivMod
    <3> QED
      BY <1>1, <3>1
  <2>2. (read_i' + (i - 1)) % MAX_BUF = (read_i + n + (i - 1)) % MAX_BUF
    BY <1>4, <2>1
  <2> QED
    BY <2>1, <2>2 DEF CellAt, Nth
<1> QED
  BY <1>2, <1>7, <1>8

-----------------------------------------------------------------------------
(* The buffer under a user who deletes only what he has not yet entered.   *)

(* What one key can do: nothing (a delete on an empty buffer), take back   *)
(* the last character of the line, store one, or find the buffer full.     *)
LEMMA KeyCases ==
  ASSUME DISCIPLINED = TRUE, TypeOK, Coherent, uart_irq
  PROVE  \E ch \in Cell \cup {DEL} :
           /\ panicked = 0 /\ echo(ch) /\ UNCHANGED <<read_i, got>>
           /\ \/ ch = DEL /\ edit_len = 0 /\ UNCHANGED vars
              \/ ch = DEL /\ edit_len > buf_len /\ delete_char /\ UNCHANGED panicked
              \/ /\ ch # DEL /\ ch \in Cell /\ edit_len # MAX_BUF
                 /\ store_char(ch) /\ UNCHANGED panicked
              \/ /\ ch # DEL /\ edit_len = MAX_BUF /\ panicked' = 1
                 /\ UNCHANGED <<buf_len, edit_len, edit_i, write_i, circular_buf>>
<1>1. PICK raw \in Cell \cup {CR, DEL} :
        LET ch == uart_read_byte(raw) IN
        /\ ch = DEL /\ DISCIPLINED => edit_len = 0 \/ edit_len > buf_len
        /\ echo(ch)
        /\ \/ ch = DEL /\ delete_char /\ UNCHANGED panicked
           \/ ch # DEL /\ edit_len # MAX_BUF /\ store_char(ch) /\ UNCHANGED panicked
           \/ /\ ch # DEL /\ edit_len = MAX_BUF
              /\ panicked' = 1
              /\ UNCHANGED <<buf_len, edit_len, edit_i, write_i, circular_buf>>
  BY DEF uart_irq
<1> DEFINE ch == uart_read_byte(raw)
<1>2. ch # DEL => ch \in Cell
  BY ByteType
<1>3. panicked = 0 /\ UNCHANGED <<read_i, got>>
  BY DEF uart_irq
<1> HIDE DEF ch
<1>4. CASE ch = DEL /\ edit_len = 0 /\ delete_char /\ UNCHANGED panicked
  <2>1. ~(Signed(edit_len) > 0)
    BY <1>4, ConsoleAssumption DEF Signed
  <2>2. UNCHANGED screen
    BY <1>1, <1>4, <2>1 DEF ch, echo
  <2>3. UNCHANGED vars
    BY <1>3, <1>4, <2>2 DEF delete_char, vars
  <2> QED
    BY <1>1, <1>3, <1>4, <2>3 DEF ch
<1>5. CASE ch = DEL /\ edit_len # 0 /\ delete_char /\ UNCHANGED panicked
  BY <1>1, <1>3, <1>5 DEF ch
<1>6. CASE ch # DEL
  BY <1>1, <1>2, <1>3, <1>6 DEF ch
<1> QED
  BY <1>1, <1>4, <1>5, <1>6 DEF ch

(* Indices and lengths stay in step around the ring. *)
LEMMA CoherentStep ==
  ASSUME DISCIPLINED = TRUE, TypeOK, Coherent, [Next]_vars
  PROVE  Coherent'
<1>1. ASSUME uart_irq PROVE Coherent'
  BY <1>1, KeyCases, DeleteEffect, StoreEffect DEF vars, Coherent
<1>2. ASSUME read_console PROVE Coherent'
  <2>1. PICK n \in 0 .. MAX_BUF : n <= buf_len /\ take(n)
    BY <1>2 DEF read_console, Consumed
  <2>2. n \in 0 .. buf_len
    BY <2>1, ConsoleAssumption DEF TypeOK
  <2> QED
    BY <1>2, <2>1, <2>2, TakeEffect DEF read_console
<1>3. ASSUME UNCHANGED vars PROVE Coherent'
  BY <1>3 DEF vars, Coherent
<1> QED
  BY <1>1, <1>2, <1>3 DEF Next, stopped

(* If the user deletes only within the unfinished line, the three indices  *)
(* and the two lengths of io.c agree for ever: nothing committed is taken  *)
(* back, and no length leaves 0 .. MAX_BUF.                                *)
THEOREM RingIsCoherent ==
  ASSUME DISCIPLINED = TRUE
  PROVE  Spec => []Coherent
<1>1. Init => Coherent
  BY ConsoleAssumption, ModSmall DEF Init, Coherent
<1>2. TypeOK /\ Coherent /\ [Next]_vars => Coherent'
  BY CoherentStep
<1> QED
  BY ConsoleTypes, <1>1, <1>2, PTL DEF Spec

-----------------------------------------------------------------------------
(* The terminal shows the line that will be committed.                     *)

(* The unfinished line is a sequence, and these are its characters. *)
LEMMA LineIs ==
  ASSUME TypeOK, Coherent
  PROVE  /\ Line \in Seq(Cell) /\ Len(Line) = edit_len - buf_len
         /\ \A i \in 1 .. edit_len - buf_len : Line[i] = Nth(buf_len + i)
<1>1. edit_len - buf_len \in Nat /\ buf_len \in Nat
  BY DEF TypeOK, Coherent
<1>2. Line \in [1 .. edit_len - buf_len -> Cell]
  BY <1>1, NthType DEF Line
<1> QED
  BY <1>1, <1>2, FunIsSeq DEF Line

(* The same of the line after a step. *)
LEMMA NextLineIs ==
  ASSUME TypeOK', Coherent'
  PROVE  /\ Line' \in Seq(Cell) /\ Len(Line') = edit_len' - buf_len'
         /\ \A i \in 1 .. edit_len' - buf_len' :
              Line'[i] = CellAt(circular_buf', read_i', buf_len' + i)
<1>0. edit_len' \in Nat /\ buf_len' \in Nat
  BY ConsoleAssumption DEF TypeOK
<1>1. edit_len' - buf_len' \in Nat /\ buf_len' \in Nat
  <2>1. buf_len' <= edit_len'
    BY DEF Coherent
  <2>2. \A a, b \in Nat : b <= a => a - b \in Nat
    OBVIOUS
  <2> QED
    BY <1>0, <2>1, <2>2
<1>2. MAX_BUF \in Nat \ {0} /\ read_i' \in Int
  BY ConsoleAssumption DEF TypeOK
<1>3. Line' = [i \in 1 .. edit_len' - buf_len' |->
                 CellAt(circular_buf', read_i', buf_len' + i)]
  BY DEF Line, Nth, CellAt
<1>4. ASSUME NEW i \in 1 .. edit_len' - buf_len'
      PROVE  CellAt(circular_buf', read_i', buf_len' + i) \in Cell
  <2>1. read_i' + (buf_len' + i) - 1 \in Int
    BY <1>1, <1>2
  <2>2. (read_i' + (buf_len' + i) - 1) % MAX_BUF \in 0 .. MAX_BUF - 1
    BY <1>2, <2>1, DivMod
  <2> QED
    BY <2>2 DEF CellAt, TypeOK
<1>5. Line' \in [1 .. edit_len' - buf_len' -> Cell]
  BY <1>3, <1>4
<1> QED
  BY <1>1, <1>3, <1>5, FunIsSeq

(* A delete drops the last character of the line. *)
LEMMA DeletedLine ==
  ASSUME TypeOK, Coherent, edit_len > buf_len, delete_char, UNCHANGED read_i, TypeOK'
  PROVE  Line # <<>> /\ Line' = SubSeq(Line, 1, Len(Line) - 1)
<1>1. /\ Coherent' /\ edit_len' = edit_len - 1 /\ buf_len' = buf_len
      /\ \A i \in Int : CellAt(circular_buf', read_i', i) = Nth(i)
  BY DeleteEffect
<1>2. edit_len \in Nat /\ buf_len \in Nat
  BY DEF TypeOK
<1>3. /\ Line \in Seq(Cell) /\ Len(Line) = edit_len - buf_len
      /\ \A i \in 1 .. edit_len - buf_len : Line[i] = Nth(buf_len + i)
  BY LineIs
<1>4. /\ Line' \in Seq(Cell) /\ Len(Line') = edit_len' - buf_len'
      /\ \A i \in 1 .. edit_len' - buf_len' :
           Line'[i] = CellAt(circular_buf', read_i', buf_len' + i)
  BY <1>1, NextLineIs
<1> DEFINE old == Line
           new == Line'
           cut == SubSeq(old, 1, Len(old) - 1)
<1>5. /\ cut \in Seq(Cell) /\ Len(cut) = Len(old) - 1
      /\ \A i \in 1 .. Len(old) - 1 : cut[i] = old[i]
  BY <1>2, <1>3
<1>6. \A i \in 1 .. Len(new) : new[i] = cut[i]
  BY <1>1, <1>2, <1>3, <1>4, <1>5
<1> HIDE DEF old, new, cut
<1>7. new \in Seq(Cell) /\ Len(new) = Len(cut)
  BY <1>1, <1>2, <1>3, <1>4, <1>5 DEF old, new
<1>8. new = cut
  BY <1>5, <1>6, <1>7, SeqEqual
<1>9. Line # <<>>
  BY <1>2, <1>3
<1> QED
  BY <1>8, <1>9 DEF old, new, cut

(* A character other than newline is appended to the line; a newline       *)
(* leaves an empty line.                                                   *)
LEMMA StoredLine ==
  ASSUME TypeOK, Coherent, NEW ch \in Cell, edit_len # MAX_BUF, store_char(ch),
         UNCHANGED read_i, TypeOK'
  PROVE  Line' = IF ch = NL THEN <<>> ELSE Append(Line, ch)
<1>1. /\ Coherent' /\ edit_len' = edit_len + 1
      /\ buf_len' = IF ch = NL THEN edit_len + 1 ELSE buf_len
      /\ \A i \in 1 .. edit_len : CellAt(circular_buf', read_i', i) = Nth(i)
      /\ CellAt(circular_buf', read_i', edit_len + 1) = ch
  BY StoreEffect
<1>2. edit_len \in Nat /\ buf_len \in Nat /\ buf_len <= edit_len
  BY DEF TypeOK, Coherent
<1>3. /\ Line \in Seq(Cell) /\ Len(Line) = edit_len - buf_len
      /\ \A i \in 1 .. edit_len - buf_len : Line[i] = Nth(buf_len + i)
  BY LineIs
<1>4. /\ Line' \in Seq(Cell) /\ Len(Line') = edit_len' - buf_len'
      /\ \A i \in 1 .. edit_len' - buf_len' :
           Line'[i] = CellAt(circular_buf', read_i', buf_len' + i)
  BY <1>1, NextLineIs
<1> DEFINE old == Line
           new == Line'
           ext == Append(old, ch)
<1>5. CASE ch = NL
  <2>1. Len(Line') = 0
    BY <1>1, <1>2, <1>4, <1>5
  <2> QED
    BY <1>4, <1>5, <2>1, EmptySeq
<1>6. CASE ch # NL
  <2>1. /\ ext \in Seq(Cell) /\ Len(ext) = Len(old) + 1
        /\ \A i \in 1 .. Len(old) : ext[i] = old[i]
        /\ ext[Len(old) + 1] = ch
    BY <1>3, AppendProperties
  <2>2. ASSUME NEW i \in 1 .. Len(new) PROVE new[i] = ext[i]
    <3>1. CASE i <= Len(old)
      BY <1>1, <1>2, <1>3, <1>4, <1>6, <2>1, <3>1
    <3>2. CASE i = Len(old) + 1
      BY <1>1, <1>2, <1>3, <1>4, <1>6, <2>1, <3>2
    <3> QED
      BY <1>1, <1>2, <1>3, <1>4, <1>6, <3>1, <3>2
  <2> HIDE DEF old, new, ext
  <2>3. new \in Seq(Cell) /\ Len(new) = Len(ext)
    BY <1>1, <1>2, <1>3, <1>4, <1>6, <2>1 DEF old, new
  <2>4. new = ext
    BY <2>1, <2>2, <2>3, SeqEqual
  <2> QED
    BY <1>6, <2>4 DEF old, new, ext
<1> QED
  BY <1>5, <1>6

(* A read of committed characters leaves the line alone. *)
LEMMA ReadLine ==
  ASSUME TypeOK, Coherent, NEW n \in 0 .. buf_len, take(n),
         UNCHANGED <<edit_i, write_i, circular_buf>>, TypeOK'
  PROVE  Line' = Line
<1>1. /\ Coherent' /\ edit_len' = edit_len - n /\ buf_len' = buf_len - n
      /\ \A i \in Int : CellAt(circular_buf', read_i', i) = Nth(n + i)
  BY TakeEffect
<1>2. edit_len \in Nat /\ buf_len \in Nat /\ buf_len <= edit_len /\ n \in Nat
  BY DEF TypeOK, Coherent
<1>3. /\ Line \in Seq(Cell) /\ Len(Line) = edit_len - buf_len
      /\ \A i \in 1 .. edit_len - buf_len : Line[i] = Nth(buf_len + i)
  BY LineIs
<1>4. /\ Line' \in Seq(Cell) /\ Len(Line') = edit_len' - buf_len'
      /\ \A i \in 1 .. edit_len' - buf_len' :
           Line'[i] = CellAt(circular_buf', read_i', buf_len' + i)
  BY <1>1, NextLineIs
<1> DEFINE old == Line
           new == Line'
<1>5. Len(new) = Len(old)
  BY <1>1, <1>2, <1>3, <1>4
<1>6. ASSUME NEW i \in 1 .. Len(new) PROVE new[i] = old[i]
  <2>1. i \in 1 .. edit_len - buf_len /\ i \in 1 .. edit_len' - buf_len'
    BY <1>3, <1>4, <1>5
  <2>2. buf_len' + i \in Int /\ n + (buf_len' + i) = buf_len + i
    BY <1>1, <1>2, <2>1
  <2> QED
    BY <1>1, <1>3, <1>4, <2>1, <2>2
<1> HIDE DEF old, new
<1>7. new \in Seq(Cell) /\ old \in Seq(Cell)
  BY <1>3, <1>4 DEF old, new
<1>8. new = old
  BY <1>5, <1>6, <1>7, SeqEqual
<1> QED
  BY <1>8 DEF old, new

(* Every step keeps screen and line the same.  edit_len is read through a  *)
(* signed declaration in uart.c, so the buffer must not reach half the     *)
(* word.                                                                   *)
LEMMA EchoStep ==
  ASSUME DISCIPLINED = TRUE, MAX_BUF < WORD \div 2,
         TypeOK, Coherent, EchoMatchesLine, [Next]_vars
  PROVE  EchoMatchesLine'
<1>0. TypeOK'
  BY TypeStep
<1>1. ASSUME uart_irq PROVE EchoMatchesLine'
  <2>1. PICK ch \in Cell \cup {DEL} :
           /\ panicked = 0 /\ echo(ch) /\ UNCHANGED <<read_i, got>>
           /\ \/ ch = DEL /\ edit_len = 0 /\ UNCHANGED vars
              \/ ch = DEL /\ edit_len > buf_len /\ delete_char /\ UNCHANGED panicked
              \/ /\ ch # DEL /\ ch \in Cell /\ edit_len # MAX_BUF
                 /\ store_char(ch) /\ UNCHANGED panicked
              \/ /\ ch # DEL /\ edit_len = MAX_BUF /\ panicked' = 1
                 /\ UNCHANGED <<buf_len, edit_len, edit_i, write_i, circular_buf>>
    BY <1>1, KeyCases
  <2>2. screen = Line
    BY <2>1 DEF EchoMatchesLine
  <2>3. CASE UNCHANGED vars
    BY <2>3 DEF vars, EchoMatchesLine, Line, Nth
  <2>4. CASE ch = DEL /\ edit_len > buf_len /\ delete_char /\ UNCHANGED panicked
    <3>1. Signed(edit_len) > 0
      BY <2>4, ConsoleAssumption DEF Signed, TypeOK, Coherent
    <3>2. Line # <<>> /\ Line' = SubSeq(Line, 1, Len(Line) - 1)
      BY <1>0, <2>1, <2>4, DeletedLine
    <3>3. screen' = SubSeq(screen, 1, Len(screen) - 1)
      BY <2>1, <2>2, <2>4, <3>1, <3>2 DEF echo
    <3> QED
      BY <2>2, <3>2, <3>3 DEF EchoMatchesLine
  <2>5. CASE /\ ch # DEL /\ ch \in Cell /\ edit_len # MAX_BUF
             /\ store_char(ch) /\ UNCHANGED panicked
    <3>1. Line' = IF ch = NL THEN <<>> ELSE Append(Line, ch)
      BY <1>0, <2>1, <2>5, StoredLine
    <3>2. screen' = IF ch = NL THEN <<>> ELSE Append(screen, ch)
      BY <2>1, <2>5 DEF echo
    <3> QED
      BY <2>2, <3>1, <3>2 DEF EchoMatchesLine
  <2>6. CASE panicked' = 1
    BY <2>6 DEF EchoMatchesLine
  <2> QED
    BY <2>1, <2>3, <2>4, <2>5, <2>6
<1>2. ASSUME read_console PROVE EchoMatchesLine'
  <2>1. PICK n \in 0 .. MAX_BUF : n <= buf_len /\ take(n)
    BY <1>2 DEF read_console, Consumed
  <2>2. n \in 0 .. buf_len
    BY <2>1, ConsoleAssumption DEF TypeOK
  <2>3. Line' = Line
    BY <1>0, <1>2, <2>1, <2>2, ReadLine DEF read_console
  <2> QED
    BY <1>2, <2>3 DEF read_console, EchoMatchesLine
<1>3. ASSUME UNCHANGED vars PROVE EchoMatchesLine'
  BY <1>3 DEF vars, EchoMatchesLine, Line, Nth
<1> QED
  BY <1>1, <1>2, <1>3 DEF Next, stopped

(* What the user sees on the terminal line is, character by character,     *)
(* what a return will commit, as long as the user deletes only within the  *)
(* unfinished line and a full buffer stays below half an unsigned int.     *)
THEOREM EchoIsFaithful ==
  ASSUME DISCIPLINED = TRUE, MAX_BUF < WORD \div 2
  PROVE  Spec => []EchoMatchesLine
<1>1. Init => EchoMatchesLine
  <2> SUFFICES ASSUME Init PROVE screen = Line
    BY DEF EchoMatchesLine
  <2>1. Coherent /\ TypeOK
    BY TypeInit, ConsoleAssumption, ModSmall DEF Init, Coherent
  <2>2. Line \in Seq(Cell) /\ Len(Line) = 0
    BY <2>1, LineIs DEF Init
  <2> QED
    BY <2>2, EmptySeq DEF Init
<1>2. TypeOK /\ Coherent /\ EchoMatchesLine /\ [Next]_vars => EchoMatchesLine'
  BY EchoStep
<1> QED
  BY ConsoleTypes, RingIsCoherent, <1>1, <1>2, PTL DEF Spec

-----------------------------------------------------------------------------
(* The circular buffer implements the line discipline.                     *)

(* The committed characters, as the refinement mapping reads them. *)
Ready == [i \in 1 .. buf_len |-> Nth(i)]

(* They are a sequence of buf_len characters. *)
LEMMA ReadyIs ==
  ASSUME TypeOK, Coherent
  PROVE  /\ Ready \in Seq(Cell) /\ Len(Ready) = buf_len
         /\ \A i \in 1 .. buf_len : Ready[i] = Nth(i)
<1>1. buf_len \in Nat
  BY ConsoleAssumption DEF TypeOK
<1>2. Ready \in [1 .. buf_len -> Cell]
  BY <1>1, NthType DEF Ready
<1> QED
  BY <1>1, <1>2, FunIsSeq DEF Ready

(* The same after a step. *)
LEMMA NextReadyIs ==
  ASSUME TypeOK'
  PROVE  /\ Ready' \in Seq(Cell) /\ Len(Ready') = buf_len'
         /\ \A i \in 1 .. buf_len' : Ready'[i] = CellAt(circular_buf', read_i', i)
<1>1. buf_len' \in Nat
  BY ConsoleAssumption DEF TypeOK
<1>2. MAX_BUF \in Nat \ {0} /\ read_i' \in Int
  BY ConsoleAssumption DEF TypeOK
<1>3. Ready' = [i \in 1 .. buf_len' |-> CellAt(circular_buf', read_i', i)]
  BY DEF Ready, Nth, CellAt
<1>4. ASSUME NEW i \in 1 .. buf_len'
      PROVE  CellAt(circular_buf', read_i', i) \in Cell
  <2>1. read_i' + i - 1 \in Int
    BY <1>1, <1>2
  <2>2. (read_i' + i - 1) % MAX_BUF \in 0 .. MAX_BUF - 1
    BY <1>2, <2>1, DivMod
  <2> QED
    BY <2>2 DEF CellAt, TypeOK
<1>5. Ready' \in [1 .. buf_len' -> Cell]
  BY <1>3, <1>4
<1> QED
  BY <1>1, <1>3, <1>5, FunIsSeq

(* A delete leaves the committed characters alone. *)
LEMMA DeletedReady ==
  ASSUME TypeOK, Coherent, edit_len > buf_len, delete_char, UNCHANGED read_i
  PROVE  Ready' = Ready
BY DEF delete_char, Ready, Nth

(* A newline commits the line and itself; other characters commit nothing. *)
LEMMA StoredReady ==
  ASSUME TypeOK, Coherent, NEW ch \in Cell, edit_len # MAX_BUF, store_char(ch),
         UNCHANGED read_i, TypeOK'
  PROVE  Ready' = IF ch = NL THEN Ready \o Append(Line, NL) ELSE Ready
<1>1. /\ Coherent' /\ edit_len' = edit_len + 1
      /\ buf_len' = IF ch = NL THEN edit_len + 1 ELSE buf_len
      /\ \A i \in 1 .. edit_len : CellAt(circular_buf', read_i', i) = Nth(i)
      /\ CellAt(circular_buf', read_i', edit_len + 1) = ch
  BY StoreEffect
<1>2. edit_len \in Nat /\ buf_len \in Nat /\ buf_len <= edit_len
  BY DEF TypeOK, Coherent
<1>3. /\ Line \in Seq(Cell) /\ Len(Line) = edit_len - buf_len
      /\ \A i \in 1 .. edit_len - buf_len : Line[i] = Nth(buf_len + i)
  BY LineIs
<1>4. /\ Ready \in Seq(Cell) /\ Len(Ready) = buf_len
      /\ \A i \in 1 .. buf_len : Ready[i] = Nth(i)
  BY ReadyIs
<1>5. /\ Ready' \in Seq(Cell) /\ Len(Ready') = buf_len'
      /\ \A i \in 1 .. buf_len' : Ready'[i] = CellAt(circular_buf', read_i', i)
  BY NextReadyIs
<1> DEFINE new == Ready'
           ext == Append(Line, ch)
           all == Ready \o ext
<1>6. CASE ch = NL
  <2>1. /\ ext \in Seq(Cell) /\ Len(ext) = Len(Line) + 1
        /\ \A i \in 1 .. Len(Line) : ext[i] = Line[i]
        /\ ext[Len(Line) + 1] = ch
    BY <1>3, AppendProperties
  <2> HIDE DEF ext
  <2>2. /\ all \in Seq(Cell) /\ Len(all) = Len(Ready) + Len(ext)
        /\ \A i \in 1 .. Len(Ready) + Len(ext) :
             all[i] = IF i <= Len(Ready) THEN Ready[i] ELSE ext[i - Len(Ready)]
    BY <1>4, <2>1, ConcatProperties
  <2> HIDE DEF all
  <2>3. Len(new) = Len(all) /\ Len(new) = edit_len + 1
    BY <1>1, <1>2, <1>3, <1>4, <1>5, <1>6, <2>1, <2>2
  <2>4. ASSUME NEW i \in 1 .. Len(new) PROVE new[i] = all[i]
    <3>1. i \in 1 .. edit_len + 1 /\ new[i] = CellAt(circular_buf', read_i', i)
      BY <1>2, <1>5, <2>3
    <3>2. CASE i <= buf_len
      BY <1>1, <1>2, <1>4, <2>2, <2>3, <3>1, <3>2
    <3>3. CASE buf_len < i /\ i <= edit_len
      <4> DEFINE j == i - buf_len
      <4>1. j \in 1 .. edit_len - buf_len /\ buf_len + j = i
        BY <1>2, <3>1, <3>3
      <4>2. all[i] = ext[j]
        BY <1>2, <1>4, <2>2, <2>3, <3>3
      <4> HIDE DEF j
      <4>3. ext[j] = Nth(i)
        BY <1>3, <2>1, <4>1
      <4> QED
        BY <1>1, <1>2, <3>1, <3>3, <4>2, <4>3
    <3>4. CASE i = edit_len + 1
      <4>1. all[i] = ext[i - buf_len] /\ i - buf_len = Len(Line) + 1
        BY <1>2, <1>3, <1>4, <2>2, <2>3, <3>4
      <4> QED
        BY <1>1, <2>1, <3>1, <3>4, <4>1
    <3> QED
      BY <1>2, <3>1, <3>2, <3>3, <3>4
  <2> HIDE DEF new
  <2>5. new \in Seq(Cell)
    BY <1>5 DEF new
  <2>6. new = all
    BY <2>2, <2>3, <2>4, <2>5, SeqEqual
  <2> QED
    BY <1>6, <2>6 DEF new, all, ext
<1>7. CASE ch # NL
  <2>1. Len(new) = Len(Ready) /\ \A i \in 1 .. Len(new) : new[i] = Ready[i]
    BY <1>1, <1>2, <1>4, <1>5, <1>7
  <2> HIDE DEF new
  <2>2. new \in Seq(Cell)
    BY <1>5 DEF new
  <2>3. new = Ready
    BY <1>4, <2>1, <2>2, SeqEqual
  <2> QED
    BY <1>7, <2>3 DEF new
<1> QED
  BY <1>6, <1>7

(* A read removes the n oldest characters. *)
LEMMA TakenReady ==
  ASSUME TypeOK, Coherent, NEW n \in 0 .. buf_len, take(n),
         UNCHANGED <<edit_i, write_i, circular_buf>>, TypeOK'
  PROVE  Ready' = SubSeq(Ready, n + 1, Len(Ready))
<1>1. /\ buf_len' = buf_len - n
      /\ \A i \in Int : CellAt(circular_buf', read_i', i) = Nth(n + i)
  BY TakeEffect
<1>2. buf_len \in Nat /\ n \in Nat /\ n <= buf_len
  BY DEF TypeOK
<1>3. /\ Ready \in Seq(Cell) /\ Len(Ready) = buf_len
      /\ \A i \in 1 .. buf_len : Ready[i] = Nth(i)
  BY ReadyIs
<1>4. /\ Ready' \in Seq(Cell) /\ Len(Ready') = buf_len'
      /\ \A i \in 1 .. buf_len' : Ready'[i] = CellAt(circular_buf', read_i', i)
  BY NextReadyIs
<1> DEFINE new == Ready'
           rest == SubSeq(Ready, n + 1, Len(Ready))
<1>5. /\ rest \in Seq(Cell) /\ Len(rest) = buf_len - n
      /\ \A i \in 1 .. buf_len - n : rest[i] = Ready[n + i]
  <2>1. rest \in Seq(Cell) /\ Len(rest) = buf_len - n
    BY <1>2, <1>3
  <2>2. ASSUME NEW i \in 1 .. buf_len - n PROVE rest[i] = Ready[n + i]
    <3>1. rest[i] = Ready[(n + 1) + i - 1]
      BY <1>2, <1>3, <2>2
    <3>2. (n + 1) + i - 1 = n + i
      BY <1>2
    <3> QED
      BY <3>1, <3>2
  <2> QED
    BY <2>1, <2>2
<1>6. ASSUME NEW i \in 1 .. Len(new) PROVE new[i] = rest[i]
  <2>1. i \in 1 .. buf_len - n /\ n + i \in 1 .. buf_len /\ i \in Int
    BY <1>1, <1>2, <1>4
  <2>2. new[i] = Nth(n + i)
    BY <1>1, <1>4, <2>1
  <2>3. rest[i] = Nth(n + i)
    BY <1>3, <1>5, <2>1
  <2> QED
    BY <2>2, <2>3
<1> HIDE DEF new, rest
<1>7. new \in Seq(Cell) /\ Len(new) = Len(rest)
  BY <1>1, <1>4, <1>5 DEF new
<1>8. new = rest
  BY <1>5, <1>6, <1>7, SeqEqual
<1> QED
  BY <1>8 DEF new, rest

(* What a read returns is a prefix of the committed characters. *)
LEMMA PrefixOfReady ==
  ASSUME TypeOK, Coherent, NEW k \in 0 .. buf_len
  PROVE  [i \in 1 .. k |-> Nth(i)] = SubSeq(Ready, 1, k)
<1>1. buf_len \in Nat /\ k \in Nat /\ k <= buf_len
  BY DEF TypeOK
<1>2. /\ Ready \in Seq(Cell) /\ Len(Ready) = buf_len
      /\ \A i \in 1 .. buf_len : Ready[i] = Nth(i)
  BY ReadyIs
<1> DEFINE f == [i \in 1 .. k |-> Nth(i)]
           p == SubSeq(Ready, 1, k)
<1>3. p \in Seq(Cell) /\ Len(p) = k /\ \A i \in 1 .. k : p[i] = Ready[i]
  BY <1>1, <1>2
<1>4. f \in [1 .. k -> Cell]
  BY <1>1, NthType
<1>5. \A i \in 1 .. k : f[i] = p[i]
  BY <1>1, <1>2, <1>3
<1> HIDE DEF f, p
<1>6. f \in Seq(Cell) /\ Len(f) = k
  BY <1>1, <1>4, FunIsSeq
<1>7. f = p
  BY <1>3, <1>5, <1>6, SeqEqual
<1> QED
  BY <1>7 DEF f, p

(* Each key is one of the discipline's steps, or none. *)
LEMMA KeyImplements ==
  ASSUME DISCIPLINED = TRUE, TypeOK, Coherent, TypeOK', uart_irq
  PROVE  Discipline!Next \/ UNCHANGED <<Ready, Line, got, panicked>>
<1>1. PICK ch \in Cell \cup {DEL} :
         /\ panicked = 0 /\ echo(ch) /\ UNCHANGED <<read_i, got>>
         /\ \/ ch = DEL /\ edit_len = 0 /\ UNCHANGED vars
            \/ ch = DEL /\ edit_len > buf_len /\ delete_char /\ UNCHANGED panicked
            \/ /\ ch # DEL /\ ch \in Cell /\ edit_len # MAX_BUF
               /\ store_char(ch) /\ UNCHANGED panicked
            \/ /\ ch # DEL /\ edit_len = MAX_BUF /\ panicked' = 1
               /\ UNCHANGED <<buf_len, edit_len, edit_i, write_i, circular_buf>>
  BY KeyCases
<1>2. /\ Len(Ready) = buf_len /\ Len(Line) = edit_len - buf_len
      /\ buf_len \in Nat /\ edit_len \in Nat /\ edit_len <= MAX_BUF
  <2>1. Len(Ready) = buf_len /\ Len(Line) = edit_len - buf_len
    BY ReadyIs, LineIs
  <2> QED
    BY <2>1, ConsoleAssumption DEF TypeOK, Coherent
<1>3. Discipline!Room <=> edit_len < MAX_BUF
  BY <1>2, ConsoleAssumption DEF Discipline!Room, Ready
<1>4. CASE UNCHANGED vars
  BY <1>4 DEF vars, Ready, Line, Nth
<1>5. CASE ch = DEL /\ edit_len > buf_len /\ delete_char /\ UNCHANGED panicked
  <2>1. Line # <<>> /\ Line' = SubSeq(Line, 1, Len(Line) - 1)
    BY <1>1, <1>5, DeletedLine
  <2>2. Ready' = Ready
    BY <1>1, <1>5, DeletedReady
  <2>3. Discipline!Delete
    BY <1>1, <1>5, <2>1, <2>2 DEF Discipline!Delete, Ready
  <2> QED
    BY <2>3 DEF Discipline!Next
<1>6. CASE /\ ch # DEL /\ ch \in Cell /\ edit_len # MAX_BUF
           /\ store_char(ch) /\ UNCHANGED panicked
  <2>1. Line' = IF ch = NL THEN <<>> ELSE Append(Line, ch)
    BY <1>1, <1>6, StoredLine
  <2>2. Ready' = IF ch = NL THEN Ready \o Append(Line, NL) ELSE Ready
    BY <1>1, <1>6, StoredReady
  <2>3. Discipline!Room
    BY <1>2, <1>3, <1>6, ConsoleAssumption
  <2>4. CASE ch = NL
    <3>1. Discipline!Return
      BY <1>1, <1>6, <2>1, <2>2, <2>3, <2>4 DEF Discipline!Return, Ready
    <3> QED
      BY <3>1 DEF Discipline!Next
  <2>5. CASE ch # NL
    <3>1. ch \in Chars \cup {NOBYTE}
      BY <1>6, <2>5 DEF Cell
    <3>2. Discipline!Type
      BY <1>1, <1>6, <2>1, <2>2, <2>3, <2>5, <3>1 DEF Discipline!Type, Ready
    <3> QED
      BY <3>2 DEF Discipline!Next
  <2> QED
    BY <2>4, <2>5
<1>7. CASE /\ ch # DEL /\ edit_len = MAX_BUF /\ panicked' = 1
           /\ UNCHANGED <<buf_len, edit_len, edit_i, write_i, circular_buf>>
  <2>1. Ready' = Ready /\ Line' = Line
    BY <1>1, <1>7 DEF Ready, Line, Nth
  <2>2. ~Discipline!Room
    BY <1>2, <1>3, <1>7
  <2>3. Discipline!Overrun
    BY <1>1, <1>7, <2>1, <2>2 DEF Discipline!Overrun, Ready
  <2> QED
    BY <2>3 DEF Discipline!Next
<1> QED
  BY <1>1, <1>4, <1>5, <1>6, <1>7

(* A read_console is a read of the discipline. *)
LEMMA ReadImplements ==
  ASSUME TypeOK, Coherent, TypeOK', read_console
  PROVE  Discipline!Next
<1>1. PICK count \in 1 .. MAX_BUF, n \in 0 .. MAX_BUF :
         /\ Consumed(count, n)
         /\ got' = IF n > 0 /\ Nth(n) = NOBYTE
                   THEN [i \in 1 .. n - 1 |-> Nth(i)]
                   ELSE [i \in 1 .. n |-> Nth(i)]
         /\ take(n)
  BY DEF read_console
<1>2. panicked = 0 /\ UNCHANGED <<edit_i, write_i, circular_buf, panicked>>
  BY DEF read_console
<1>3. buf_len \in Nat /\ n \in Nat /\ n <= buf_len /\ count \in Nat /\ n <= count
  BY <1>1, ConsoleAssumption DEF TypeOK, Consumed
<1>4. n \in 0 .. buf_len
  BY <1>3
<1>5. Line' = Line /\ Ready' = SubSeq(Ready, n + 1, Len(Ready))
  BY <1>1, <1>2, <1>4, ReadLine, TakenReady
<1>6. /\ Ready \in Seq(Cell) /\ Len(Ready) = buf_len
      /\ \A i \in 1 .. buf_len : Ready[i] = Nth(i)
  BY ReadyIs
<1> DEFINE k == IF n > 0 /\ Nth(n) = NOBYTE THEN n - 1 ELSE n
<1>7. k \in 0 .. buf_len /\ k <= count
  BY <1>3
<1>8. got' = SubSeq(Ready, 1, k)
  <2>1. got' = [i \in 1 .. k |-> Nth(i)]
    BY <1>1
  <2> QED
    BY <1>7, <2>1, PrefixOfReady
<1>9. \A i \in 1 .. k : Ready[i] # NOBYTE
  BY <1>1, <1>3, <1>6 DEF Consumed
<1>10. \/ (k = count \/ k = Len(Ready)) /\ Ready' = SubSeq(Ready, k + 1, Len(Ready))
       \/ /\ k < count /\ k < Len(Ready) /\ Ready[k + 1] = NOBYTE
          /\ Ready' = SubSeq(Ready, k + 2, Len(Ready))
  <2>1. CASE n > 0 /\ Nth(n) = NOBYTE
    <3>1. k + 1 = n /\ k + 2 = n + 1 /\ n \in 1 .. buf_len
      BY <1>3, <2>1
    <3> QED
      BY <1>3, <1>5, <1>6, <2>1, <3>1
  <2>2. CASE ~(n > 0 /\ Nth(n) = NOBYTE)
    BY <1>1, <1>5, <1>6, <2>2 DEF Consumed
  <2> QED
    BY <2>1, <2>2
<1> HIDE DEF k
<1>11. k \in 0 .. Len(Ready)
  BY <1>6, <1>7
<1>12. Discipline!Read
  BY <1>1, <1>2, <1>5, <1>7, <1>8, <1>9, <1>10, <1>11 DEF Discipline!Read, Ready
<1> QED
  BY <1>12 DEF Discipline!Next

(* With a user who deletes only within the unfinished line, uart.c and     *)
(* io.c give a program exactly the line discipline: whole lines in the     *)
(* order typed, each as it was left when return was pressed.               *)
THEOREM ImplementsDiscipline ==
  ASSUME DISCIPLINED = TRUE
  PROVE  Spec => DisciplineSpec
<1>1. Init => Discipline!Init
  <2> SUFFICES ASSUME Init PROVE Discipline!Init
    OBVIOUS
  <2>1. Coherent /\ TypeOK
    BY TypeInit, ConsoleAssumption, ModSmall DEF Init, Coherent
  <2>2. Line \in Seq(Cell) /\ Len(Line) = 0 /\ Ready \in Seq(Cell) /\ Len(Ready) = 0
    BY <2>1, LineIs, ReadyIs DEF Init
  <2>3. Line = <<>> /\ Ready = <<>>
    BY <2>2, EmptySeq
  <2> QED
    BY <2>3 DEF Init, Discipline!Init, Ready
<1>2. TypeOK /\ Coherent /\ [Next]_vars => [Discipline!Next]_(Discipline!vars)
  <2> SUFFICES ASSUME TypeOK, Coherent, [Next]_vars
               PROVE  Discipline!Next \/ UNCHANGED <<Ready, Line, got, panicked>>
    BY DEF Discipline!vars, Ready
  <2>1. TypeOK'
    BY TypeStep
  <2>2. CASE uart_irq
    BY <2>1, <2>2, KeyImplements
  <2>3. CASE read_console
    BY <2>1, <2>3, ReadImplements
  <2>4. CASE UNCHANGED vars
    BY <2>4 DEF vars, Ready, Line, Nth
  <2> QED
    BY <2>2, <2>3, <2>4 DEF Next, stopped
<1> QED
  BY ConsoleTypes, RingIsCoherent, <1>1, <1>2, PTL
  DEF Spec, DisciplineSpec, Discipline!Spec

=============================================================================
