---------------------------- MODULE MCAssistant ----------------------------
(***************************************************************************)
(* Instances of the assistant's runtime for TLC.                            *)
(***************************************************************************)
EXTENDS AssistantRun, TLC

\* One write, or a form; a call may always be refused instead.
Writes == { <<"write">> }
FormOrWrite == { <<"form">>, <<"write">> }

\* A bound: nobody disturbs the last run any more; what a request or a fault does
\* to a run is seen on the first, and the last shows what it leaves behind.
LastRunUndisturbed == runs[MaxRuns].status # "NONE" => UNCHANGED <<ops, faults>>

\* A bound: its message comes when no other request is at work, but for one that
\* has just ended the run before it.
Ended(c) == actor[c].pc \in {"close", "tell"}
LastSubmitAlone ==
    runs[MaxRuns].status = "NONE" /\ runs'[MaxRuns].status # "NONE" =>
        \A c \in Clients : At(c, "idle") \/ Ended(c)

Symm == Permutations(Slots) \cup Permutations(Clients)
=============================================================================
