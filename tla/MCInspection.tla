---------------------------- MODULE MCInspection ----------------------------
(* Symmetry for the runs of Inspection. *)
EXTENDS Inspection, TLC

Symmetry == Permutations(Creds)
=============================================================================
