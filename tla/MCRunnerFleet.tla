---------------------------- MODULE MCRunnerFleet ----------------------------
(* Two nodes: either takes the first job, only the second takes the other, *)
(* so the first job moves there when the first node is full, silent,       *)
(* draining or dead, and competes for its slots.                           *)
EXTENDS RunnerFleet, TLC

CONSTANTS j1, j2

MCCanRun == j1 :> {1, 2} @@ j2 :> {2}

=============================================================================
