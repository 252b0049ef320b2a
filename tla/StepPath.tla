----------------------------- MODULE StepPath -----------------------------
(***************************************************************************)
(* What a walk of a step graph leaves behind, and what must be true of it.  *)
(***************************************************************************)
EXTENDS StepGraphSet

VARIABLES
    steps,    \* the pinned version
    cursor,   \* index of the step to execute, 0 when the walk has left the graph
    path,     \* indices of the steps executed, oldest first
    at        \* "step", "paused", "failed" or "ended"

\* No step is visited twice, through pauses, resumes, error handlers and
\* retries: so a walk passes at most one visit per step (the engine's cap of 200
\* visits is never the reason a walk of a 50-step graph ends), and a retry
\* repeats nothing but the failed step.
NoStepTwice ==
    /\ \A m, n \in DOMAIN path : path[m] = path[n] => m = n
    /\ at = "step" => \A n \in DOMAIN path : path[n] # cursor
=============================================================================
