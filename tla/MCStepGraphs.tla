--------------------------- MODULE MCStepGraphs ---------------------------
(***************************************************************************)
(* Every step graph over three keys: all the edges each step can have.      *)
(***************************************************************************)
EXTENDS StepGraphs

AllKeys == <<"a", "b", "c">>
KeySet == {"a", "b", "c"}

\* [onFailure, onError] of a step: an explicit edge, or (HTTP only) onError.
Explicit == (KeySet \cup {EscalateToManual, StopFail}) \X {"none"}
Failures == [HTTP |-> Explicit \cup {Unset} \X {"fail", "continue", "manual"},
             MANUAL |-> Explicit \cup {<<Unset, "none">>}]

StepsNamed(key, kinds) ==
    UNION {{[key |-> key, kind |-> k, idempotent |-> FALSE, maxAttempts |-> 1,
             onSuccess |-> s, onFailure |-> f[1], onError |-> f[2]] :
                s \in KeySet \cup {EndSuccess, Unset}, f \in Failures[k]} :
           k \in kinds}

Graphs3(middle) ==
    {<<a, b, c>> : a \in StepsNamed("a", {"HTTP"}), b \in StepsNamed("b", middle),
                   c \in StepsNamed("c", {"HTTP"})}

HttpGraphs == Graphs3({"HTTP"})
MixedGraphs == Graphs3({"HTTP", "MANUAL"})
=============================================================================
