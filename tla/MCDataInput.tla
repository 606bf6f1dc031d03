---------------------------- MODULE MCDataInput ----------------------------
(* DataInput for TLC: two inputs, a port of this service and of another.   *)
EXTENDS DataInput, TLC

CONSTANTS in1, in2, near, far, p1, p2

\* The local port feeds the queued input, the other one or none; the rest is
\* fed by the remote port, or by none.
MCWirings == {in1 :> near @@ in2 :> NoSource, in1 :> far @@ in2 :> near,
              in1 :> far @@ in2 :> far}

Symmetry == Permutations(Pullers)
=============================================================================
