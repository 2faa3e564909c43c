------------------------------ MODULE MCShell ------------------------------
(***************************************************************************)
(* Names of one letter: s is the shell, e echo, h hello, l ls, c cat and j *)
(* init; o is the console.                                                 *)
(***************************************************************************)
EXTENDS Shell

CONSTANTS e, s, h, l, c, j, o

MCElf == (<<e>> :> "echo") @@ (<<s>> :> "sh") @@ (<<h>> :> "hello") @@
          (<<l>> :> "ls") @@ (<<c>> :> "cat") @@ (<<j>> :> "init")

MCFileNames == {<<e>>, <<l>>}

MCConsole == <<o>>

(* First nothing, a shell in the shell, init with an argument, a cat that   *)
(* takes the input of the lines behind it, or a line that leaves spaces or  *)
(* letters all over buf; then any short line that names echo or a missing   *)
(* program, or hello, ls, cat of files, one of which does not exist, and of *)
(* the console, too many words, an argument too long for prepare_ustack,    *)
(* and a line longer than buf, the rest of which is a line of its own; then *)
(* another cat.                                                             *)
MCLines == <<
  {<<>>, <<s>>, <<j, SPACE, e>>, <<c, SPACE, o>>,
   <<e, SPACE, SPACE, SPACE, SPACE, SPACE, e>>,
   <<SPACE, e, SPACE, l, l, SPACE, l, SPACE>>},
  UNION {[1 .. k -> {e, SPACE}] : k \in 0 .. 4} \cup {
    <<h>>,
    <<l>>,
    <<c>>,
    <<c, SPACE, l, SPACE, h>>,
    <<c, SPACE, o, SPACE, e>>,
    <<c, SPACE, o, SPACE, o>>,
    <<e, SPACE, l, SPACE, e, SPACE>>,
    <<e, SPACE, l, SPACE, e, SPACE, e>>,
    <<c, SPACE, e, l, l>>,
    <<c, SPACE, e, SPACE, SPACE, SPACE, SPACE, SPACE, SPACE, l>>},
  {<<c, SPACE, e, SPACE, l>>} >>

(* What theorems suppose of the descriptors, the slots and the lines. *)
ASSUME RoomAssumption ==
  /\ MAX_OPEN_FILES >= 2 /\ MAX_OPEN_FILES >= MAX_ARG - 1
  /\ MAX_TASKS >= NEST + 3 /\ LongLinesHarmless
===========================================================================
