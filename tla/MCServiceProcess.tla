-------------------------- MODULE MCServiceProcess --------------------------
(* ServiceProcess for TLC. *)
EXTENDS ServiceProcess, TLC

CONSTANTS w1, w2, t1, t2
Symmetry == Permutations({w1, w2}) \cup Permutations({t1, t2})
=============================================================================
