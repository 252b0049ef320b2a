-------------------------- MODULE AssistantRequests --------------------------
(***************************************************************************)
(* What the user asks of a conversation: a message, the end of a run, a     *)
(* decision on a proposed write, an answer to a form.                       *)
(***************************************************************************)
EXTENDS AssistantLoop

Unborn == {r \in Runs : runs[r].status = "NONE"}
Next1 == CHOOSE r \in Unborn : \A other \in Unborn : r <= other

\* Mutant: the transaction does not look for an active run.
NoCheck == TRUE

NothingActive == \A r \in Runs : runs[r].status \notin Active

\* Mutant: a step left open stays open.
LeaveOpen == history

Repaired ==
    IF StepOpen
    THEN LET open == history[Len(history)] IN
         Append(history, Message("tool", open.run, open.step, open.calls,
                                 OutcomesOf(open, "not done")))
    ELSE history

\* submit: under the conversation's row lock, no run is active, a step that was
\* left open is answered, and the run and its message are written.
Submit(c) ==
    LET r == Next1 IN
    /\ Unborn # {} /\ allowed /\ NothingActive
    /\ Begin(c, [Idle EXCEPT !.op = "submit", !.pc = "enqueue", !.run = r])
    /\ SetStatus(r, "QUEUED")
    /\ history' = Append(Repaired, Message("user", r, 0, <<>>, <<>>))
    /\ UNCHANGED invocations

\* cancel: the request is noted first, then a run that nobody drives ends; the
\* loop sees the note at its next boundary.
Cancel(c) ==
    \E r \in Runs :
        /\ runs[r].status \in Active
        /\ Begin(c, Finalizing([Idle EXCEPT !.op = "cancel", !.run = r],
                               "CANCELLED", {"QUEUED"} \cup Waiting, "not done"))
        /\ runs' = [runs EXCEPT ![r].cancel = TRUE]
        /\ UNCHANGED <<history, invocations>>

\* decide: the run and the row are read, and the run must be waiting.
Decide(c) ==
    \E i \in DOMAIN invocations, choice \in {"approve", "reject"} :
        /\ invocations[i].kind = "write"
        /\ runs[invocations[i].run].status = "AWAITING_APPROVAL"
        /\ choice = "approve" => allowed
        /\ Begin(c, [Idle EXCEPT !.op = "decide", !.pc = "claim", !.of = i,
                                 !.run = invocations[i].run, !.choice = choice])
        /\ UNCHANGED tables

\* What a repeated decision finds and answers with again.
Replayable(choice) ==
    IF choice = "approve" THEN {"SUCCEEDED", "FAILED", "OUTCOME_UNKNOWN"} ELSE {"REJECTED"}

\* The run ends with the card's time.
Lapsed(c) ==
    Become(c, Finalizing(actor[c], "EXPIRED", {"AWAITING_APPROVAL"}, "not done"))

ClaimDecision(c) ==
    LET i == actor[c].of
        status == invocations[i].status
    IN  /\ actor[c].op = "decide" /\ At(c, "claim")
        /\ IF Pending(i)
           THEN IF actor[c].choice = "approve"
                THEN Approve(c)
                ELSE Close({i}, "REJECTED") /\ GoOn(c, "count") /\ UNCHANGED faults
           ELSE IF status = "AWAITING_APPROVAL"
           THEN Close({i}, "EXPIRED") /\ Lapsed(c) /\ UNCHANGED faults
           ELSE /\ UNCHANGED <<invocations, faults>>
                /\ IF status \in Replayable(actor[c].choice) THEN GoOn(c, "count")
                   ELSE IF status = "EXPIRED" THEN Lapsed(c)
                   ELSE Done(c)
        /\ UNCHANGED <<runs, history, jobs, allowed, ops>>

\* The answer to a form, or the end of a run whose form came too late.
AnswerForm(c) ==
    \E i \in DOMAIN invocations :
        /\ invocations[i].status = "AWAITING_INPUT"
        /\ runs[invocations[i].run].status = "AWAITING_INPUT"
        /\ invocations[i].due \/ allowed
        /\ Begin(c, [Idle EXCEPT !.op = "answer", !.of = i, !.run = invocations[i].run,
                       !.pc = IF invocations[i].due THEN "expire form" ELSE "close form"])
        /\ UNCHANGED tables

ExpireForm(c) ==
    /\ At(c, "expire form")
    /\ Close({actor[c].of} \cap RowsAt(actor[c].run, {"AWAITING_INPUT"}), "EXPIRED")
    /\ Become(c, Finalizing(actor[c], "EXPIRED", {"AWAITING_INPUT"}, "not done"))
    /\ UNCHANGED <<runs, history, jobs, outside>>

CloseForm(c) ==
    LET i == actor[c].of IN
    /\ At(c, "close form")
    /\ IF invocations[i].status = "AWAITING_INPUT"
       THEN (\E outcome \in {"SUCCEEDED", "REJECTED"} : Close({i}, outcome)) /\ GoOn(c, "count")
       ELSE UNCHANGED invocations /\ Done(c)
    /\ UNCHANGED <<runs, history, jobs, outside>>

RequestStep(c) ==
    \/ Submit(c) \/ Cancel(c) \/ Decide(c) \/ ClaimDecision(c)
    \/ AnswerForm(c) \/ ExpireForm(c) \/ CloseForm(c)
=============================================================================
