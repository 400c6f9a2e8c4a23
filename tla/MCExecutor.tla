----------------------------- MODULE MCExecutor -----------------------------
(* Symmetry for the runs of Executor. *)
EXTENDS Executor, TLC

Symmetry == Permutations(Requests) \cup Permutations(Creds) \cup Permutations(Tokens)
=============================================================================
