---------------------------- MODULE CycleCheck ----------------------------
(***************************************************************************)
(* The cycle check of WorkflowStepsSchema, as the code runs it: an          *)
(* iterative three-colour depth-first search over the effective edges of a  *)
(* step graph, with an explicit stack of [node, next] frames.               *)
(***************************************************************************)
EXTENDS StepGraphSet

VARIABLES
    steps,     \* the array under validation
    start,     \* the outer loop's index
    stack,     \* frames [node, next], the top one last
    color,     \* "white", "gray" or "black" per index
    hasCycle

vars == <<steps, start, stack, color, hasCycle>>

\* adjacency[i]: the success target, then the failure target; terminals drop out.
EdgeTo(target) == IF target \in KeysOf(steps) THEN <<IndexOf(steps, target)>> ELSE <<>>

\* Mutant: the failure edges are forgotten.
SuccessEdges(i) == EdgeTo(OnSuccess(steps, i))

Edges(i) == EdgeTo(OnSuccess(steps, i)) \o EdgeTo(OnFailure(steps, i))

Init ==
    /\ steps \in Graphs
    /\ start = 1
    /\ stack = <<>>
    /\ color = [i \in DOMAIN steps |-> "white"]
    /\ hasCycle = FALSE

Searching == ~ hasCycle /\ start <= Len(steps)

Push(node) ==
    /\ stack' = Append(stack, [node |-> node, next |-> 1])
    /\ color' = [color EXCEPT ![node] = "gray"]

\* The outer loop: open a tree at a white node.
Open ==
    /\ Searching /\ stack = <<>> /\ color[start] = "white"
    /\ Push(start)
    /\ UNCHANGED <<steps, start, hasCycle>>

Skip ==
    /\ Searching /\ stack = <<>> /\ color[start] # "white"
    /\ start' = start + 1
    /\ UNCHANGED <<steps, stack, color, hasCycle>>

Top == stack[Len(stack)]
Advanced == [stack EXCEPT ![Len(stack)].next = @ + 1]
HasEdge == stack # <<>> /\ Top.next <= Len(Edges(Top.node))
Child == Edges(Top.node)[Top.next]

\* The top frame looks at its next edge: back to a gray node, down to a white
\* one, or across to a black one.
Back ==
    /\ Searching /\ HasEdge /\ color[Child] = "gray"
    /\ hasCycle' = TRUE
    /\ stack' = Advanced
    /\ UNCHANGED <<steps, start, color>>

Down ==
    /\ Searching /\ HasEdge /\ color[Child] = "white"
    /\ stack' = Append(Advanced, [node |-> Child, next |-> 1])
    /\ color' = [color EXCEPT ![Child] = "gray"]
    /\ UNCHANGED <<steps, start, hasCycle>>

Across ==
    /\ Searching /\ HasEdge /\ color[Child] = "black"
    /\ stack' = Advanced
    /\ UNCHANGED <<steps, start, color, hasCycle>>

\* A frame without edges left is popped.
PopBlack == color' = [color EXCEPT ![Top.node] = "black"]

Close ==
    /\ Searching /\ stack # <<>> /\ ~ HasEdge
    /\ PopBlack
    /\ stack' = SubSeq(stack, 1, Len(stack) - 1)
    /\ UNCHANGED <<steps, start, hasCycle>>

Next == Open \/ Skip \/ Back \/ Down \/ Across \/ Close

Spec == Init /\ [][Next]_vars
-----------------------------------------------------------------------------
\* The search accepts exactly the acyclic graphs: whatever the order of its
\* visits, a verdict of "no cycle" means no set of steps leads back into itself.
VerdictRight == ~ Searching => (hasCycle <=> ~ Acyclic(steps))
=============================================================================
