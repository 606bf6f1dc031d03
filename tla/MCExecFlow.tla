----------------------------- MODULE MCExecFlow -----------------------------
(* ExecFlow for TLC: two worker tasks; node code may do anything, or only   *)
(* be slow to answer its cancellation.                                      *)
EXTENDS ExecFlow

MCWorkers    == {"w1", "w2"}
AllFailures  == KindsOfFailure
SlowCleanups == {"cleanup"}
=============================================================================
