-------------------------- MODULE MCCommandDispatch --------------------------
(* CommandDispatch for TLC: the callers are interchangeable. *)
EXTENDS CommandDispatch, TLC

Symmetry == Permutations(Callers)
=============================================================================
