--------------------------- MODULE WorkflowSteps ---------------------------
(***************************************************************************)
(* The step graph of a workflow version: an array of steps whose effective *)
(* success and failure edges make an error-handling DAG.  Pure operators,  *)
(* shared by every module that walks, resumes, retries or replays a run.   *)
(*                                                                         *)
(* A step is [key, kind, idempotent, maxAttempts, onSuccess, onFailure,    *)
(* onError].  REST and WEBHOOK_OUT are one kind here, "HTTP": they carry   *)
(* the same fields and the engine treats them alike.  Unset stands for an  *)
(* optional field that is absent.                                          *)
(***************************************************************************)
EXTENDS Integers, Sequences, FiniteSets

EndSuccess == "END_SUCCESS"
EscalateToManual == "ESCALATE_TO_MANUAL"
Compensate == "COMPENSATE"
StopFail == "STOP_FAIL"
Unset == "unset"

FailureTerminals == {EscalateToManual, Compensate, StopFail}
Terminals == FailureTerminals \cup {EndSuccess}

\* Mutant: knows the success terminal only.
IsEndSuccess(target) == target = EndSuccess

IsTerminalTarget(target) == target \in Terminals

\* The step schema: z.discriminatedUnion over REST, WEBHOOK_OUT and MANUAL.
StepRecords ==
    [key : STRING, kind : {"HTTP", "MANUAL"}, idempotent : BOOLEAN, maxAttempts : Nat,
     onSuccess : STRING, onFailure : STRING, onError : STRING]

KeysOf(steps) == {steps[i].key : i \in DOMAIN steps}

\* steps.findIndex((s) => s.key === key); only applied to a key of steps.
IndexOf(steps, key) == CHOOSE i \in DOMAIN steps : steps[i].key = key

StepAt(steps, key) == steps[IndexOf(steps, key)]

(***************************************************************************)
(* The effective edges of the step at index i: an explicit edge wins, then *)
(* the array order (success) or the legacy onError (failure).              *)
(***************************************************************************)
OnSuccess(steps, i) ==
    IF steps[i].onSuccess # Unset THEN steps[i].onSuccess
    ELSE IF i < Len(steps) THEN steps[i + 1].key
    ELSE EndSuccess

OnFailure(steps, i) ==
    IF steps[i].onFailure # Unset THEN steps[i].onFailure
    ELSE IF steps[i].onError = "continue" THEN OnSuccess(steps, i)
    ELSE IF steps[i].onError = "manual" THEN EscalateToManual
    ELSE StopFail

(***************************************************************************)
(* Where a resolved manual task hands the run back to.  A cancelled task   *)
(* that had escalated an HTTP step's failure stops the run; a cancelled    *)
(* MANUAL step takes its own failure edge.                                 *)
(***************************************************************************)
\* Mutant: whatever was decided, the run goes on.
ResumeAnyway(steps, key, taskStatus) == OnSuccess(steps, IndexOf(steps, key))

DeriveResumeCursor(steps, key, taskStatus) ==
    LET i == IndexOf(steps, key)
    IN  IF taskStatus = "COMPLETED" THEN OnSuccess(steps, i)
        ELSE IF steps[i].kind # "MANUAL" THEN StopFail
        ELSE OnFailure(steps, i)

(***************************************************************************)
(* Author-time validation of a version.                                    *)
(***************************************************************************)
UniqueKeys(steps) ==
    \A i, j \in DOMAIN steps : steps[i].key = steps[j].key => i = j

TargetsKnown(steps) ==
    \A i \in DOMAIN steps :
        /\ steps[i].key \notin Terminals
        /\ steps[i].onSuccess \in KeysOf(steps) \cup {EndSuccess, Unset}
        /\ steps[i].onFailure \in KeysOf(steps) \cup FailureTerminals \cup {Unset}

\* The steps an effective edge of step i leads to, as array indices.
Adjacent(steps, i) ==
    {j \in DOMAIN steps : steps[j].key \in {OnSuccess(steps, i), OnFailure(steps, i)}}

\* No set of steps in which each has an edge back into the set, i.e. no cycle.
Acyclic(steps) ==
    \A S \in SUBSET DOMAIN steps :
        S # {} => \E i \in S : Adjacent(steps, i) \cap S = {}

ValidSteps(steps) ==
    /\ Len(steps) \in 1 .. 50
    /\ UniqueKeys(steps)
    /\ TargetsKnown(steps)
    /\ Acyclic(steps)

(***************************************************************************)
(* What a FAILED run is resumed from.  NoStep is an error that names no    *)
(* step (or no error at all).                                              *)
(***************************************************************************)
NoStep == "none"

\* Mutant: from the entry step.
ResolveEntryStep(errorStepKey, steps) ==
    IF errorStepKey \in KeysOf(steps) THEN steps[1].key ELSE NoStep

ResolveFailedStepKey(errorStepKey, steps) ==
    IF errorStepKey \in KeysOf(steps) THEN errorStepKey ELSE NoStep

(***************************************************************************)
(* The replay guard: refuse when a non-idempotent HTTP step that the       *)
(* source run completed stands at or before the failed step IN ARRAY       *)
(* ORDER.  An unresolvable failed step makes the whole array the window.   *)
(***************************************************************************)
AssertReplaySafe(steps, failedStepKey, succeeded) ==
    LET cutoff == IF failedStepKey \in KeysOf(steps)
                  THEN IndexOf(steps, failedStepKey)
                  ELSE Len(steps)
    IN  \A i \in DOMAIN steps :
            ~ /\ steps[i].key \in succeeded
              /\ i <= cutoff
              /\ steps[i].kind = "HTTP"
              /\ ~ steps[i].idempotent

(***************************************************************************)
(* A failed attempt is retried only when the handler calls it retryable,   *)
(* which both HTTP handlers do for idempotent steps only, and the step's   *)
(* retry policy has attempts left.                                         *)
(***************************************************************************)
MayRetry(step, attempt) ==
    /\ step.kind = "HTTP"
    /\ step.idempotent
    /\ attempt < step.maxAttempts
=============================================================================
