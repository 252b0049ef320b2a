------------------------- MODULE AssistantLifecycle -------------------------
(***************************************************************************)
(* What the assistant's runtime promises of a conversation, with the queue, *)
(* the worker, the sweeper and the requests left out: one run at a time,    *)
(* which is driven, waits for its user, is driven again, and ends once.  A   *)
(* run that was being driven is never put back on the queue.                *)
(***************************************************************************)
CONSTANT Runs
VARIABLE status

Waiting == {"AWAITING_APPROVAL", "AWAITING_INPUT"}
Active == {"QUEUED", "RUNNING"} \cup Waiting

Init == status = [r \in Runs |-> "NONE"]

Move(r, from, to) ==
    /\ status[r] \in from
    /\ status' = [status EXCEPT ![r] = to]

Submit(r) == (\A s \in Runs : status[s] \notin Active) /\ Move(r, {"NONE"}, "QUEUED")
Claim(r) == Move(r, {"QUEUED"}, "RUNNING")
Pause(r) == \E waiting \in Waiting : Move(r, {"RUNNING"}, waiting)
Resume(r) == Move(r, Waiting, "QUEUED")
Finish(r) == Move(r, {"RUNNING"}, "FINISHED")
Cancel(r) == Move(r, Active, "CANCELLED")
Expire(r) == Move(r, Waiting, "EXPIRED")

Next ==
    \E r \in Runs :
        Submit(r) \/ Claim(r) \/ Pause(r) \/ Resume(r) \/ Finish(r) \/ Cancel(r) \/ Expire(r)

Spec == Init /\ [][Next]_status
=============================================================================
