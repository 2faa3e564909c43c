------------------------------- MODULE MCFiles -------------------------------
(* Small archives for the runs of Files, with and without ar's symbol table,*)
(* and two that init_fs cannot unpack: too many members, and one too large. *)
EXTENDS Files, TLC

Member(n, size_of) == [name |-> n, size |-> size_of]

MCArchives == {
  << Member("f", 3) >>,
  << Member("/", 3), Member("f", 2) >>,
  << Member("f", 1), Member("g", 3) >>,
  << Member("/", 1), Member("f", 0), Member("g", 2) >>,
  << Member("f", 2), Member("g", 4) >> }

(* Programs differ in nothing but their descriptors. *)
Symmetry == Permutations(Procs)
=============================================================================
