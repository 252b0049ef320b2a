--------------------------- MODULE AssistantState ---------------------------
(***************************************************************************)
(* One conversation with the assistant: its runs, the history the model is  *)
(* sent, the calls that wait for the user, the queue, and who is at work.   *)
(* One process runs the worker slots, the requests and the sweeper; an      *)
(* actor's record is what its call stack holds between two awaits.          *)
(***************************************************************************)
EXTENDS Integers, Sequences, FiniteSets

CONSTANTS
    MaxRuns,       \* runs of the conversation
    MaxSteps,      \* maxStepsPerRun
    CallSets,      \* what the model may call in one step
    Slots, Clients, Sweeper,
    FaultKinds,    \* subset of {"broker", "crash", "throw", "disallow"}
    MaxEvents,     \* requests and faults, in all
    MaxFaults

Runs == 1 .. MaxRuns
Actors == Slots \cup Clients \cup {Sweeper}

ASSUME AssistantAssumption ==
    /\ MaxRuns \in Nat /\ MaxSteps \in Nat \ {0} /\ MaxEvents \in Nat /\ MaxFaults \in Nat
    /\ \A calls \in CallSets :
         calls \in Seq({"read", "write", "form"}) /\ calls # <<>>
    /\ Slots \cap Clients = {} /\ Sweeper \notin Slots \cup Clients

VARIABLES
    runs,          \* AiRun rows
    history,       \* the conversation's provider messages, oldest first
    invocations,   \* AiToolInvocation rows, with whether the change they stand for is made
    jobs,          \* jobs per run that wait on the queue
    allowed,       \* the assistant is on and its user may use it
    actor, ops, faults

tables == <<runs, history, invocations>>
outside == <<allowed, ops, faults>>
vars == <<tables, jobs, actor, outside>>

Waiting == {"AWAITING_APPROVAL", "AWAITING_INPUT"}
Active == {"QUEUED", "RUNNING"} \cup Waiting
Terminal == {"FINISHED", "CANCELLED", "EXPIRED"}  \* FINISHED: SUCCEEDED or FAILED
Undecided == Waiting \cup {"EXECUTING"}
Closed == {"SUCCEEDED", "FAILED", "REJECTED", "EXPIRED", "CANCELLED", "OUTCOME_UNKNOWN"}

Idle == [op |-> "none", pc |-> "idle", run |-> 0, of |-> 0, choice |-> "none",
         step |-> 0, calls |-> <<>>, resolved |-> 0, waits |-> "none",
         to |-> "none", from |-> {}, fallback |-> "none", seen |-> "none"]
-----------------------------------------------------------------------------
(***************************************************************************)
(* Rows.                                                                    *)
(***************************************************************************)
RowsOf(r) == {i \in DOMAIN invocations : invocations[i].run = r}
RowsAt(r, status) == {i \in RowsOf(r) : invocations[i].status \in status}

\* Every row of a set moves to one status; each is a compare-and-set on its own.
Close(rows, status) ==
    invocations' = [i \in DOMAIN invocations |->
        IF i \in rows THEN [invocations[i] EXCEPT !.status = status] ELSE invocations[i]]

SetStatus(r, status) == runs' = [runs EXCEPT ![r].status = status]

Message(kind, r, step, calls, told) ==
    [kind |-> kind, run |-> r, step |-> step, calls |-> calls, linked |-> FALSE, told |-> told]

\* The row a call of a step is answered by.
RowOf(message, n) ==
    {i \in RowsOf(message.run) : invocations[i].step = message.step /\ invocations[i].call = n}

\* Mutant: the model is told the row's own status.
RawOutcome(row, fallback) == row.status

\* What a call's row says; EXECUTING may yet take effect.
Outcome(row, fallback) ==
    CASE row.status = "SUCCEEDED" -> "done"
      [] row.status \in {"EXECUTING", "OUTCOME_UNKNOWN"} -> "unknown"
      [] row.status \in Waiting -> fallback
      [] OTHER -> "not done"

\* A call of a step whose record names its rows is answered by its row, if it
\* has one; before the record does, and for a row still pending, by the fallback.
OutcomeOf(message, n, fallback) ==
    IF ~ message.linked THEN fallback
    ELSE IF RowOf(message, n) = {} THEN "answered"
    ELSE Outcome(invocations[CHOOSE i \in RowOf(message, n) : TRUE], fallback)

OutcomesOf(message, fallback) ==
    [n \in DOMAIN message.calls |-> OutcomeOf(message, n, fallback)]

\* The latest provider message is an assistant message with calls.
StepOpen == history # <<>> /\ history[Len(history)].kind = "step"

AnswerOpenStep(r, fallback) ==
    history' = IF StepOpen
               THEN LET open == history[Len(history)] IN
                    Append(history, Message("tool", open.run, open.step, open.calls,
                                            OutcomesOf(open, fallback)))
               ELSE history
-----------------------------------------------------------------------------
(***************************************************************************)
(* Actors.                                                                  *)
(***************************************************************************)
At(a, pc) == actor[a].pc = pc

Become(a, state) == actor' = [actor EXCEPT ![a] = state]
GoTo(a, pc) == actor' = [actor EXCEPT ![a].pc = pc]

\* The handler answers, the job finishes, the pass goes on.
Done(a) == Become(a, Idle)

Begin(c, request) ==
    /\ c \in Clients /\ At(c, "idle") /\ ops + faults < MaxEvents
    /\ ops' = ops + 1
    /\ Become(c, request)
    /\ UNCHANGED <<jobs, allowed, faults>>

\* This process drives the run (the loop's controllers).
Driving(r) == \E s \in Slots : actor[s].op = "drive" /\ actor[s].run = r

InFlight(r) == jobs[r] > 0 \/ Driving(r)

Fault(kind) ==
    /\ kind \in FaultKinds /\ faults < MaxFaults /\ ops + faults < MaxEvents
    /\ faults' = faults + 1

\* An actor that goes on to another phase of its run keeps nothing but the run.
Fresh(state, pc) == [Idle EXCEPT !.op = state.op, !.run = state.run, !.pc = pc]
GoOn(a, pc) == Become(a, Fresh(actor[a], pc))

\* The state of an actor about to finalize a run.
Finalizing(state, to, from, fallback) ==
    [Fresh(state, "finalize") EXCEPT !.to = to, !.from = from, !.fallback = fallback]
=============================================================================
