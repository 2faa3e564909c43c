------------------------------ MODULE PagePool ------------------------------
(***************************************************************************)
(* What kmalloc and kfree promise to the rest of the kernel: a pool of     *)
(* pages.  A page is in the pool or held by one caller, never both, and a  *)
(* caller gets a page that nobody holds.                                   *)
(***************************************************************************)
EXTENDS Integers

CONSTANT Page

VARIABLES
  free,    \* the pages in the pool
  held,    \* the pages handed out and not given back
  nheld    \* how many pages are handed out

vars == <<free, held, nheld>>

Init == free = {} /\ held = {} /\ nheld = 0

(* A page the pool never saw is added to it. *)
Register == \E p \in Page : /\ p \notin free \cup held
                            /\ free' = free \cup {p}
                            /\ UNCHANGED <<held, nheld>>

Alloc == \E p \in free : /\ free' = free \ {p}
                         /\ held' = held \cup {p}
                         /\ nheld' = nheld + 1

Free == \E p \in held : /\ free' = free \cup {p}
                        /\ held' = held \ {p}
                        /\ nheld' = nheld - 1

Next == Register \/ Alloc \/ Free

Spec == Init /\ [][Next]_vars
=============================================================================
