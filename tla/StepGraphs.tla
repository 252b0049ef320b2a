---------------------------- MODULE StepGraphs ----------------------------
(***************************************************************************)
(* The cycle check and the walk together: a step array is checked and, only *)
(* if the check accepts it, published and walked.                           *)
(***************************************************************************)
EXTENDS StepPath

VARIABLES start, stack, color, hasCycle

Check == INSTANCE CycleCheck
Walk == INSTANCE StepWalk

searchVars == <<start, stack, color, hasCycle>>
walkVars == <<cursor, path, at>>

Init == Check!Init /\ cursor = 0 /\ path = <<>> /\ at = "checked"

Publish ==
    /\ at = "checked" /\ ~ Check!Searching /\ ~ hasCycle
    /\ cursor' = 1 /\ at' = "step"
    /\ UNCHANGED <<path, steps, searchVars>>

Next ==
    \/ Check!Next /\ UNCHANGED walkVars
    \/ Publish
    \/ Walk!Next /\ UNCHANGED searchVars

Spec == Init /\ [][Next]_<<steps, searchVars, walkVars>>

\* The search accepts exactly the acyclic graphs.
VerdictRight == Check!VerdictRight
=============================================================================
