--------------------------- MODULE StepGraphSet ---------------------------
(***************************************************************************)
(* The step arrays that reach the cycle check: WorkflowStepsSchema has      *)
(* already refused repeated keys and unknown targets.                       *)
(***************************************************************************)
EXTENDS WorkflowSteps

CONSTANT Graphs

ASSUME GraphsAssumption ==
    \A g \in Graphs : g \in Seq(StepRecords) /\ g # <<>> /\ UniqueKeys(g) /\ TargetsKnown(g)
=============================================================================
