---------------------------- MODULE MCStateSync ----------------------------
(* StateSync for TLC: a field a of one service, followed by x of a second,  *)
(* which feeds y.                                                           *)
EXTENDS StateSync, TLC

CONSTANTS a, x, y

ChainFan  == [f \in Fields |-> IF f = x THEN <<y>> ELSE <<>>]
ChainPeer == [f \in Fields |-> IF f = x THEN a ELSE NoField]
Symmetry  == Permutations(Writers) \cup Permutations(Values \ {Initial})
============================================================================
