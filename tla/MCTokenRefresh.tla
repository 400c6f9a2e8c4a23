--------------------------- MODULE MCTokenRefresh ---------------------------
(* Model values and symmetry for the runs of TokenRefresh. *)
EXTENDS TokenRefresh, TLC

Symmetry == Permutations(Callers) \cup Permutations(Admins)
=============================================================================
