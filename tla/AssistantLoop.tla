---------------------------- MODULE AssistantLoop ----------------------------
(***************************************************************************)
(* A worker slot driving one run: claim, answer the open step, then one     *)
(* model step after another until the run waits for its user or ends.  With *)
(* it, the two passages every actor shares: the end of a run, and the       *)
(* resume of a decided one.                                                 *)
(***************************************************************************)
EXTENDS AssistantState

\* advance: a stale job finds the run in another status and does nothing.
Claim(s) ==
    \E r \in Runs :
        /\ s \in Slots /\ At(s, "idle") /\ jobs[r] > 0
        /\ jobs' = [jobs EXCEPT ![r] = @ - 1]
        /\ IF runs[r].status = "QUEUED"
           THEN /\ SetStatus(r, "RUNNING")
                /\ Become(s, [Idle EXCEPT !.op = "drive", !.pc = "answer", !.run = r])
           ELSE UNCHANGED <<runs, actor>>
        /\ UNCHANGED <<history, invocations, outside>>

\* A resume: the step the calls were waiting in is answered first.
AnswerResume(s) ==
    /\ actor[s].op = "drive" /\ At(s, "answer")
    /\ AnswerOpenStep(actor[s].run, "not done")
    /\ GoTo(s, "guard")
    /\ UNCHANGED <<runs, invocations, jobs, outside>>

\* The guardrails before every step.
Guard(s) ==
    LET r == actor[s].run
        Ends(to) == Become(s, Finalizing(actor[s], to, {"RUNNING"}, "not done"))
    IN  /\ At(s, "guard")
        /\ IF runs[r].status # "RUNNING" THEN Done(s)
           ELSE IF runs[r].cancel THEN Ends("CANCELLED")
           ELSE IF ~ allowed THEN Ends("CANCELLED") \/ Ends("FINISHED")
           ELSE IF runs[r].steps >= MaxSteps THEN Ends("FINISHED")
           ELSE Become(s, [actor[s] EXCEPT !.pc = "model", !.step = runs[r].steps])
        /\ UNCHANGED <<tables, jobs, outside>>

Forced(s) == actor[s].step + 1 >= MaxSteps

\* persistStep writes the message, the record of its calls and the counters,
\* whatever became of the run while the model was answering.
Persist(s, kind, calls) ==
    LET r == actor[s].run IN
    /\ history' = Append(history, Message(kind, r, actor[s].step, calls, <<>>))
    /\ runs' = [runs EXCEPT ![r].steps = @ + 1]

\* The model's answer: none (an error of the provider, or an aborted call), text
\* that ends the turn, text that the provider paused, or calls; either may be
\* cut off by its content filter, and calls of the last step end the run.
ModelFails(s) ==
    /\ At(s, "model")
    /\ \E to \in {"FINISHED", "CANCELLED"} :
         /\ to = "CANCELLED" => runs[actor[s].run].cancel \/ ~ allowed
         /\ Become(s, Finalizing(actor[s], to, {"RUNNING"}, "not done"))
    /\ UNCHANGED <<tables, jobs, outside>>

ModelSpeaks(s) ==
    /\ At(s, "model")
    /\ Persist(s, "text", <<>>)
    /\ \/ Become(s, Finalizing(actor[s], "FINISHED", {"RUNNING"}, "not done"))
       \/ ~ Forced(s) /\ GoOn(s, "guard")
    /\ UNCHANGED <<invocations, jobs, outside>>

ModelCalls(s) ==
    /\ At(s, "model")
    /\ \E calls \in CallSets :
         /\ Persist(s, "step", calls)
         /\ \/ Become(s, Finalizing(actor[s], "FINISHED", {"RUNNING"}, "not done"))
            \/ /\ ~ Forced(s)
               /\ Become(s, [actor[s] EXCEPT !.pc = "boundary", !.calls = calls,
                                             !.resolved = 0, !.waits = "none"])
    /\ UNCHANGED <<invocations, jobs, outside>>

\* Before any call runs, the run must still be RUNNING and not cancelled.
Boundary(s) ==
    LET r == actor[s].run IN
    /\ At(s, "boundary")
    /\ IF runs[r].status # "RUNNING" THEN Done(s)
       ELSE IF runs[r].cancel
       THEN Become(s, Finalizing(actor[s], "CANCELLED", {"RUNNING"}, "not done"))
       ELSE GoTo(s, "resolve")
    /\ UNCHANGED <<tables, jobs, outside>>
-----------------------------------------------------------------------------
(***************************************************************************)
(* The calls of a step, one after the other.                                *)
(***************************************************************************)
Resolving(s, kind) ==
    /\ At(s, "resolve") /\ actor[s].resolved < Len(actor[s].calls)
    /\ actor[s].calls[actor[s].resolved + 1] = kind

Resolved(s, waits) == Become(s, [actor[s] EXCEPT !.resolved = @ + 1, !.waits = waits])

\* The loop decides on the write it has just proposed.
Deciding(s) ==
    Become(s, [actor[s] EXCEPT !.resolved = @ + 1, !.pc = "approve", !.of = Len(invocations) + 1])

\* It has decided, and goes on with the next call.
Return(s, waits) ==
    Become(s, [actor[s] EXCEPT !.pc = "resolve", !.waits = waits, !.of = 0, !.choice = "none"])

\* A read, or a call that is refused: answered at once, nothing is stored.
AnswerCall(s) ==
    /\ \E kind \in {"read", "write", "form"} : Resolving(s, kind)
    /\ Become(s, [actor[s] EXCEPT !.resolved = @ + 1])
    /\ UNCHANGED <<tables, jobs, outside>>

OpenRow(s, kind, status) ==
    invocations' = Append(invocations,
        [run |-> actor[s].run, step |-> actor[s].step, call |-> actor[s].resolved + 1,
         kind |-> kind, status |-> status, due |-> FALSE, done |-> 0])

MayPause(r) == runs[r].status = "RUNNING" /\ ~ runs[r].cancel

\* A write is proposed; in a conversation that approves automatically, and while
\* nobody has stopped the run or the assistant, the loop decides on it itself.
Propose(s) ==
    /\ Resolving(s, "write")
    /\ OpenRow(s, "write", "AWAITING_APPROVAL")
    /\ \/ Resolved(s, "AWAITING_APPROVAL")
       \/ MayPause(actor[s].run) /\ allowed /\ Deciding(s)
    /\ UNCHANGED <<runs, history, jobs, outside>>

\* One form of a step, and none in a step that also proposes a change.
RequestInput(s) ==
    /\ Resolving(s, "form")
    /\ actor[s].waits = "none" /\ \A n \in DOMAIN actor[s].calls : actor[s].calls[n] # "write"
    /\ OpenRow(s, "form", "AWAITING_INPUT")
    /\ Resolved(s, "AWAITING_INPUT")
    /\ UNCHANGED <<runs, history, jobs, outside>>

\* Mutant: a decision takes a call whatever has become of it.
TakeAny(i) == TRUE

\* What every decision claims: the row as it was announced, and in time.
Pending(i) == invocations[i].status = "AWAITING_APPROVAL" /\ ~ invocations[i].due

\* An approval is recorded in the ledger before it is executed.
Approve(a) ==
    /\ Close({actor[a].of}, "EXECUTING")
    /\ \/ GoTo(a, "execute") /\ UNCHANGED faults
       \/ Fault("throw") /\ GoTo(a, "unrecorded")

\* autoApprove: a write that turns out to need its user stays a card; one that
\* was closed, or ran out of time, is answered with what its row holds.
AutoApprove(s) ==
    LET i == actor[s].of IN
    /\ actor[s].op = "drive" /\ At(s, "approve")
    /\ \/ Pending(i) /\ Approve(s)
       \/ /\ Return(s, "AWAITING_APPROVAL")
          /\ Pending(i) /\ UNCHANGED <<invocations, faults>>
       \/ /\ ~ Pending(i) /\ Return(s, actor[s].waits) /\ UNCHANGED faults
          /\ Close({i} \cap RowsAt(actor[s].run, {"AWAITING_APPROVAL"}), "EXPIRED")
    /\ UNCHANGED <<runs, history, jobs, allowed, ops>>

\* An approval that cannot be recorded is not executed.
CloseUnrecorded(a) ==
    /\ At(a, "unrecorded")
    /\ Close({actor[a].of} \cap RowsAt(actor[a].run, {"EXECUTING"}), "FAILED")
    /\ IF actor[a].op = "drive" THEN GoOn(a, "unexpected") ELSE Done(a)
    /\ UNCHANGED <<runs, history, jobs, outside>>

\* executeApproved, by the loop or by a decision: the change is made, or it is
\* refused or fails, or its tool has changed since it was proposed.
Execute(a) ==
    LET i == actor[a].of IN
    /\ At(a, "execute")
    /\ \/ /\ invocations' = [invocations EXCEPT ![i].done = @ + 1]
          /\ Become(a, [actor[a] EXCEPT !.pc = "record", !.choice = "SUCCEEDED"])
       \/ /\ UNCHANGED invocations
          /\ \E refused \in {"FAILED", "EXPIRED"} :
               Become(a, [actor[a] EXCEPT !.pc = "record", !.choice = refused])
    /\ UNCHANGED <<runs, history, jobs, outside>>

\* The outcome is recorded on a row that is still EXECUTING.
Record(a) ==
    /\ At(a, "record")
    /\ Close({actor[a].of} \cap RowsAt(actor[a].run, {"EXECUTING"}), actor[a].choice)
    /\ IF actor[a].op = "drive" THEN Return(a, actor[a].waits) ELSE GoOn(a, "count")
    /\ UNCHANGED <<runs, history, jobs, outside>>

AllResolved(s) == At(s, "resolve") /\ actor[s].resolved = Len(actor[s].calls)

\* Nothing waits: one tool message with every result, and the next step.  What a
\* write of this step did is what its row says, or what the loop saw.
AppendResults(s) ==
    LET r == actor[s].run
        step == [Message("step", r, actor[s].step, actor[s].calls, <<>>) EXCEPT !.linked = TRUE]
    IN  /\ AllResolved(s) /\ actor[s].waits = "none"
        /\ history' = Append(history, Message("tool", r, actor[s].step, actor[s].calls,
                                              OutcomesOf(step, "not done")))
        /\ GoOn(s, "guard")
        /\ UNCHANGED <<runs, invocations, jobs, outside>>

\* The record of the step names its rows; the run waits unless it was cancelled
\* meanwhile.
Pause(s) ==
    LET r == actor[s].run IN
    /\ AllResolved(s) /\ actor[s].waits # "none"
    /\ history' = [h \in DOMAIN history |->
         IF history[h].kind = "step" /\ history[h].run = r /\ history[h].step = actor[s].step
         THEN [history[h] EXCEPT !.linked = TRUE] ELSE history[h]]
    /\ IF MayPause(r)
       THEN SetStatus(r, actor[s].waits) /\ GoOn(s, "count")
       ELSE /\ UNCHANGED runs
            /\ IF runs[r].cancel
               THEN Become(s, Finalizing(actor[s], "CANCELLED", {"RUNNING"}, "not done"))
               ELSE Done(s)
    /\ UNCHANGED <<invocations, jobs, outside>>

\* failUnexpectedly: an executing write may or may not have taken effect.
FailUnexpectedly(s) ==
    /\ At(s, "unexpected")
    /\ Close(RowsAt(actor[s].run, {"EXECUTING"}), "OUTCOME_UNKNOWN")
    /\ Become(s, Finalizing(actor[s], "FINISHED", {"RUNNING"}, "unknown"))
    /\ UNCHANGED <<runs, history, jobs, outside>>
-----------------------------------------------------------------------------
(***************************************************************************)
(* resumeIfDecided: the undecided calls are counted, the run is read, and a *)
(* compare-and-set puts it back on the queue.                               *)
(***************************************************************************)
CountUndecided(a) ==
    /\ At(a, "count")
    /\ IF RowsAt(actor[a].run, Undecided) = {} THEN GoTo(a, "look") ELSE Done(a)
    /\ UNCHANGED <<tables, jobs, outside>>

LookAtRun(a) ==
    LET status == runs[actor[a].run].status IN
    /\ At(a, "look")
    /\ IF status \in Waiting
       THEN Become(a, [actor[a] EXCEPT !.pc = "requeue", !.seen = status])
       ELSE Done(a)
    /\ UNCHANGED <<tables, jobs, outside>>

Requeue(a) ==
    LET r == actor[a].run IN
    /\ At(a, "requeue")
    /\ IF runs[r].status = actor[a].seen
       THEN SetStatus(r, "QUEUED") /\ GoOn(a, "enqueue")
       ELSE UNCHANGED runs /\ Done(a)
    /\ UNCHANGED <<history, invocations, jobs, outside>>

\* A refused job leaves the run QUEUED for the sweeper.
Enqueue(a) ==
    /\ At(a, "enqueue")
    /\ \/ jobs' = [jobs EXCEPT ![actor[a].run] = @ + 1] /\ UNCHANGED faults
       \/ Fault("broker") /\ UNCHANGED jobs
    /\ Done(a)
    /\ UNCHANGED <<tables, allowed, ops>>
-----------------------------------------------------------------------------
(***************************************************************************)
(* finalize: one actor wins the compare-and-set, closes the calls that wait *)
(* and answers the open step of the conversation.                           *)
(***************************************************************************)
Finalize(a) ==
    LET r == actor[a].run IN
    /\ At(a, "finalize")
    /\ IF runs[r].status \in actor[a].from
       THEN /\ SetStatus(r, actor[a].to)
            /\ Become(a, [Fresh(actor[a], "close") EXCEPT !.fallback = actor[a].fallback])
       ELSE UNCHANGED runs /\ Done(a)
    /\ UNCHANGED <<history, invocations, jobs, outside>>

CloseCalls(a) ==
    /\ At(a, "close")
    /\ Close(RowsAt(actor[a].run, Waiting), "CANCELLED")
    /\ GoTo(a, "tell")
    /\ UNCHANGED <<runs, history, jobs, outside>>

Tell(a) ==
    /\ At(a, "tell")
    /\ AnswerOpenStep(actor[a].run, actor[a].fallback)
    /\ Done(a)
    /\ UNCHANGED <<runs, invocations, jobs, outside>>

(***************************************************************************)
(* A database call fails.                                                   *)
(***************************************************************************)
\* Nobody on the way up handles it: the loop fails its run, once; a request or a
\* pass of the sweeper gives up.
Escapes(a) ==
    IF actor[a].op = "drive" /\ ~ At(a, "unexpected") /\ actor[a].fallback # "unknown"
    THEN GoOn(a, "unexpected")
    ELSE Done(a)

\* An outcome that cannot be recorded is logged, and the row stays EXECUTING: the
\* loop takes it for one that waits.
RecordFails(a) ==
    /\ At(a, "record")
    /\ IF actor[a].op = "drive" THEN Return(a, "AWAITING_APPROVAL") ELSE GoOn(a, "count")
    /\ UNCHANGED invocations

\* failUnexpectedly goes on without a row it could not mark.
MarkFails(s) ==
    LET executing == RowsAt(actor[s].run, {"EXECUTING"}) IN
    /\ At(s, "unexpected")
    /\ \E i \in executing : Close(executing \ {i}, "OUTCOME_UNKNOWN")
    /\ Become(s, Finalizing(actor[s], "FINISHED", {"RUNNING"}, "unknown"))

\* A finalize goes on without a call it could not close, but not when it cannot
\* read the cards, the forms or the run.
CloseFails(a) ==
    LET open(status) == RowsAt(actor[a].run, status) IN
    /\ At(a, "close")
    /\ \/ /\ \E i \in open(Waiting) : Close(open(Waiting) \ {i}, "CANCELLED")
          /\ GoTo(a, "tell")
       \/ /\ \E read \in {{}, {"AWAITING_APPROVAL"}, Waiting} : Close(open(read), "CANCELLED")
          /\ Escapes(a)

Throw(a) ==
    /\ actor[a].pc \notin {"idle", "enqueue"} /\ Fault("throw")
    /\ \/ RecordFails(a) \/ MarkFails(a) \/ CloseFails(a)
       \/ At(a, "tell") /\ Done(a) /\ UNCHANGED invocations
       \/ /\ actor[a].pc \notin {"record", "close", "tell"}
          /\ Escapes(a) /\ UNCHANGED invocations
    /\ UNCHANGED <<runs, history, jobs, allowed, ops>>

LoopStep(s) ==
    \/ Claim(s) \/ AnswerResume(s) \/ Guard(s)
    \/ ModelFails(s) \/ ModelSpeaks(s) \/ ModelCalls(s) \/ Boundary(s)
    \/ AnswerCall(s) \/ Propose(s) \/ RequestInput(s) \/ AutoApprove(s)
    \/ AppendResults(s) \/ Pause(s) \/ FailUnexpectedly(s)

SharedStep(a) ==
    \/ CloseUnrecorded(a) \/ Execute(a) \/ Record(a)
    \/ CountUndecided(a) \/ LookAtRun(a) \/ Requeue(a) \/ Enqueue(a)
    \/ Finalize(a) \/ CloseCalls(a) \/ Tell(a) \/ Throw(a)
=============================================================================
