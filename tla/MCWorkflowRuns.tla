---------------------------- MODULE MCWorkflowRuns ----------------------------
(* Instances of the run service for TLC.                                       *)
EXTENDS WorkflowRuns, TLC

\* The callers do the same things, and only safety is checked under this.
Symmetry == Permutations(Caller)
=============================================================================
