----------------------------- MODULE MCSelector -----------------------------
(* Symmetry for the runs of Selector. *)
EXTENDS Selector, TLC

Symmetry == Permutations(Workers)
=============================================================================
