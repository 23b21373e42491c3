---------------------------- MODULE MCGroupOrder ----------------------------
(***************************************************************************)
(* GroupOrder on small instances.                                          *)
(***************************************************************************)
EXTENDS GroupOrder, TLC

\* Casts are alike, and so are processes.
Symmetry == Permutations(Casts) \cup Permutations(Procs)
=============================================================================
