----------------------------- MODULE StepWalk -----------------------------
(***************************************************************************)
(* One run's way through its step graph, alone: the steps it executes, its  *)
(* pauses, and the retries of its failed step.  The engine around it (jobs, *)
(* workers, claims) is module WorkflowRun; here every valid graph is walked *)
(* with every outcome.                                                      *)
(***************************************************************************)
EXTENDS StepPath

vars == <<steps, cursor, path, at>>

Init ==
    /\ steps \in {g \in Graphs : ValidSteps(g)}
    /\ cursor = 1
    /\ path = <<>>
    /\ at = "step"

Last == path[Len(path)]

\* Go where an edge leads: to a step, or out of the graph.
Follow(target) ==
    IF target \in KeysOf(steps)
    THEN cursor' = IndexOf(steps, target) /\ at' = "step"
    ELSE cursor' = 0 /\ at' = CASE target = EscalateToManual -> "paused"
                                [] target = StopFail -> "failed"
                                [] OTHER -> "ended"

Succeed ==
    /\ at = "step" /\ steps[cursor].kind = "HTTP"
    /\ path' = Append(path, cursor)
    /\ Follow(OnSuccess(steps, cursor))
    /\ UNCHANGED steps

\* A permanent failure, or the last attempt's; the attempts of one step are one
\* visit.
Fail ==
    /\ at = "step" /\ steps[cursor].kind = "HTTP"
    /\ path' = Append(path, cursor)
    /\ Follow(OnFailure(steps, cursor))
    /\ UNCHANGED steps

PauseManual ==
    /\ at = "step" /\ steps[cursor].kind = "MANUAL"
    /\ path' = Append(path, cursor)
    /\ cursor' = 0 /\ at' = "paused"
    /\ UNCHANGED steps

\* Mutant: a resume re-enters the step that paused.
ResumeAtPause(taskStatus) == steps[Last].key

ResumeTarget(taskStatus) == DeriveResumeCursor(steps, steps[Last].key, taskStatus)

\* A resume to a terminal other than success or COMPENSATE fails the run at the
\* paused step; ESCALATE_TO_MANUAL is one of those here.
Resume ==
    /\ at = "paused"
    /\ \E taskStatus \in {"COMPLETED", "CANCELLED"} :
         LET target == ResumeTarget(taskStatus) IN
         Follow(IF target = EscalateToManual THEN StopFail ELSE target)
    /\ UNCHANGED <<steps, path>>

\* An operator retries the failed step: the same visit goes on.
Retry ==
    /\ at = "failed"
    /\ cursor' = Last /\ at' = "step"
    /\ path' = SubSeq(path, 1, Len(path) - 1)
    /\ UNCHANGED steps

Next == Succeed \/ Fail \/ PauseManual \/ Resume \/ Retry

Spec == Init /\ [][Next]_vars
=============================================================================
