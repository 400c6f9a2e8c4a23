---------------------------- MODULE MCStickyRing ----------------------------
(* Symmetry for the runs of StickyRing. *)
EXTENDS StickyRing, TLC

Symmetry == Permutations(Keys) \cup Permutations(Creds)
=============================================================================
