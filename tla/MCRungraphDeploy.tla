-------------------------- MODULE MCRungraphDeploy --------------------------
(* RungraphDeploy as TLC runs it: the configurations give the constants.   *)
EXTENDS RungraphDeploy, TLC
=============================================================================
