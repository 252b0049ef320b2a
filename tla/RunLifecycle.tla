--------------------------- MODULE RunLifecycle ---------------------------
(***************************************************************************)
(* What the run engine promises, with the worker, the queue and the        *)
(* requests left out: the status machine of the runs of one lineage.  A     *)
(* run is born PENDING, moves only along the edges below, and a run joins   *)
(* the live ones (is created or retried) only when no other run is live.    *)
(***************************************************************************)
CONSTANT Runs
VARIABLE status

Live == {"PENDING", "RUNNING", "AWAITING_INPUT", "SUCCEEDED"}
OthersIdle(r) == \A s \in Runs \ {r} : status[s] \notin Live

Init ==
    /\ status \in [Runs -> {"NONE", "PENDING"}]
    /\ \A r, s \in Runs : status[r] = "PENDING" /\ status[s] = "PENDING" => r = s

Move(r, from, to) ==
    /\ status[r] \in from
    /\ status' = [status EXCEPT ![r] = to]

Replay(r) == OthersIdle(r) /\ Move(r, {"NONE"}, "PENDING")
Start(r) == Move(r, {"PENDING"}, "RUNNING")
Pause(r) == Move(r, {"RUNNING"}, "AWAITING_INPUT")
Resume(r) == Move(r, {"AWAITING_INPUT"}, "RUNNING")
Complete(r) == Move(r, {"RUNNING"}, "SUCCEEDED") \/ Move(r, {"RUNNING"}, "COMPENSATED")
Fail(r) == Move(r, {"PENDING", "RUNNING"}, "FAILED")
Retry(r) == OthersIdle(r) /\ Move(r, {"FAILED"}, "RUNNING")

Next ==
    \E r \in Runs :
        \/ Replay(r) \/ Start(r) \/ Pause(r) \/ Resume(r)
        \/ Complete(r) \/ Fail(r) \/ Retry(r)

Spec == Init /\ [][Next]_status

\* At most one run of the lineage can still provision, or already has.
OneLiveRun ==
    \A r, s \in Runs : status[r] \in Live /\ status[s] \in Live => r = s
=============================================================================
