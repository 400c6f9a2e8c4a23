--------------------------- MODULE MCClientStore ----------------------------
(* Symmetry for the runs of ClientStore. *)
EXTENDS ClientStore, TLC

Symmetry == Permutations(Pool)
=============================================================================
