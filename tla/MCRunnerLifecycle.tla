-------------------------- MODULE MCRunnerLifecycle --------------------------
(***************************************************************************)
(* The instance of RunnerLifecycle for TLC.                                *)
(***************************************************************************)
EXTENDS RunnerLifecycle, TLC

CONSTANTS r1, r2

OneOfEach == r1 :> "deposited" @@ r2 :> "noWait"
=============================================================================
