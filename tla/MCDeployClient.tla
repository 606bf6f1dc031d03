--------------------------- MODULE MCDeployClient ---------------------------
(* DeployClient for TLC: two calls, for one graph or for two.              *)
EXTENDS DeployClient, TLC

CONSTANTS c1, c2, gA, gB, gX

Plan(g, f, h, k, b) ==
  [want |-> c1 :> g @@ c2 :> h, force |-> c1 :> f @@ c2 :> k, before |-> b]

\* Calls and graphs are interchangeable: a forced call meets another one, for
\* another graph or for the same; a call is content with the graph that the
\* service has from before; one graph cannot be decoded.
MCPlans ==
  { Plan(gA, TRUE, gB, FALSE, gB),
    Plan(gA, FALSE, gA, TRUE, NoGraph),
    Plan(gX, FALSE, gA, FALSE, NoGraph) }
=============================================================================
