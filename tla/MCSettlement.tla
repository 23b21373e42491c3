---------------------------- MODULE MCSettlement ----------------------------
(***************************************************************************)
(* Settlement on small instances.                                          *)
(***************************************************************************)
EXTENDS Settlement, TLC

\* Casts are alike, and so are processes.
Symmetry == Permutations(Casts) \cup Permutations(Procs)
=============================================================================
