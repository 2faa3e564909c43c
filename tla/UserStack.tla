------------------------------ MODULE UserStack ------------------------------
(***************************************************************************)
(* How execv hands arguments to a program: prepare_ustack (sys_proc.c)     *)
(* copies the strings and builds the array argv at the top of the new      *)
(* program's only page, and main finds them from its stack pointer.        *)
(*                                                                         *)
(* A page is a row of cells, one byte each; a word reads back as what was  *)
(* stored only if none of its bytes was overwritten.                       *)
(***************************************************************************)
EXTENDS Integers, Sequences, SequencesExt, FiniteSetsExt, TLC

CONSTANTS
  PGSIZE,    \* bytes of a page (0x1000)
  PTR,       \* bytes of a word (4)
  MAX_ARGC,  \* the most arguments execv copies (8)
  NUL        \* the character that ends a string

ASSUME UserStackAssumption ==
  /\ {PGSIZE, PTR, MAX_ARGC} \subseteq Nat \ {0}
  /\ PGSIZE % PTR = 0

(* memcpy_to_another_space of src to address dest, as a map from addresses  *)
(* to cells.  A cell holds a character, or a word and the number of one of  *)
(* its bytes.                                                               *)
memcpy_to_another_space(dest, src) == [a \in dest .. dest + Len(src) - 1 |-> src[a - dest + 1]]

(* A new page into which these copies were made, one after the other: a     *)
(* cell holds what the last copy that covers it has put there.              *)
Page(writes) ==
  [a \in 0 .. PGSIZE - 1 |->
     LET covering == {k \in DOMAIN writes : a \in DOMAIN writes[k]} IN
     IF covering = {} THEN <<0, 0>> ELSE writes[Max(covering)][a]]

WordBytes(w) == [k \in 1 .. PTR |-> <<w, k>>]

-----------------------------------------------------------------------------
(* A string longer than this is not copied, nor what follows it. *)
TooLong(arg) == Len(arg) > (PGSIZE \div 3) \div MAX_ARGC

(* The arguments that the first loop of prepare_ustack copies. *)
Copied(argv) ==
  LET n == Min({Len(argv), MAX_ARGC} \cup {i - 1 : i \in {i \in 1 .. Len(argv) : TooLong(argv[i])}})
  IN SubSeq(argv, 1, n)

(* Mutant: the pointers start right below the strings. *)
AlignDown_tight(esp) == (esp \div PTR) * PTR

(* Room for a word below the strings, aligned. *)
AlignDown(esp) == ((esp - PTR) \div PTR) * PTR

(* Where the strings start, one below the other; 0 stands for the esp that  *)
(* the first loop starts from.                                              *)
ArgvPs(esp, args) ==
  LET argv_ps[i \in 0 .. Len(args)] ==
        IF i = 0 THEN esp ELSE argv_ps[i - 1] - (Len(args[i]) + 1)
  IN argv_ps

(* The copies that prepare_ustack makes, in order: the strings, the array   *)
(* of pointers to them from its end, uargv, which points to that array, and *)
(* argc.  uargv is at base and the pointer to string i is i words above.    *)
Copies(args, argv_ps, base) ==
  LET argc == Len(args) IN
  [k \in 1 .. 2 * argc + 2 |->
     IF k <= argc THEN memcpy_to_another_space(argv_ps[k], Append(args[k], NUL))
     ELSE LET i == 2 * argc + 1 - k IN
       memcpy_to_another_space(base + i * PTR, WordBytes(IF i > 0 THEN argv_ps[i]
                                                         ELSE IF i = 0 THEN base + PTR ELSE argc))]

(* The page and the stack pointer that it leaves, with a word for the       *)
(* return address.                                                          *)
prepare_ustack(esp, argv) ==
  LET args == Copied(argv)
      argv_ps == ArgvPs(esp, args)
      base == AlignDown(argv_ps[Len(args)]) - Len(args) * PTR
  IN [page |-> Page(Copies(args, argv_ps, base)), esp |-> base - 2 * PTR]

(* The same for a null pointer argv. *)
prepare_ustack_null(esp) ==
  [page |-> Page(<< memcpy_to_another_space(esp, WordBytes(0)) >>), esp |-> esp - PTR]

-----------------------------------------------------------------------------
(* The word at a, or PGSIZE, which is no address, if some byte of it was    *)
(* overwritten or never written.                                            *)
WordAt(page, a) ==
  IF a \in 0 .. PGSIZE - PTR /\ \E w \in 0 .. PGSIZE - 1 :
       \A k \in 1 .. PTR : page[a + k - 1] = <<w, k>>
  THEN page[a][1] ELSE PGSIZE

(* The string that starts at a, empty if no NUL follows. *)
StringAt(chars, a) ==
  LET ends == {e \in DOMAIN chars : e >= a /\ chars[e] = NUL} IN
  IF ends = {} THEN <<>> ELSE [k \in 1 .. Min(ends) - a |-> chars[a + k - 1]]

(* What main(argc, argv) finds above its return address.                    *)
Argc(page, esp) == WordAt(page, esp + PTR)

Argv(page, esp) ==
  LET uargv == WordAt(page, esp + 2 * PTR) IN
  [i \in 1 .. Argc(page, esp) |-> StringAt(page, WordAt(page, uargv + (i - 1) * PTR))]
=============================================================================
