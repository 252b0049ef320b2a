---------------------------- MODULE AssistantRun ----------------------------
(***************************************************************************)
(* The assistant's runtime on one conversation: the slots, the user, the    *)
(* sweeper, time, and what goes wrong.                                      *)
(***************************************************************************)
EXTENDS AssistantSweep

Init ==
    /\ runs = [r \in Runs |-> [status |-> "NONE", cancel |-> FALSE, steps |-> 0]]
    /\ history = <<>>
    /\ invocations = <<>>
    /\ jobs = [r \in Runs |-> 0]
    /\ allowed = TRUE
    /\ actor = [a \in Actors |-> Idle]
    /\ ops = 0 /\ faults = 0

\* The time of a card or a form runs out.
Lapse ==
    \E i \in DOMAIN invocations :
        /\ invocations[i].status \in Waiting /\ ~ invocations[i].due
        /\ invocations' = [invocations EXCEPT ![i].due = TRUE]
        /\ UNCHANGED <<runs, history, jobs, actor, outside>>

\* The assistant is turned off, or its user may no longer use it.
Disallow ==
    /\ allowed /\ Fault("disallow")
    /\ allowed' = FALSE
    /\ UNCHANGED <<tables, jobs, actor, ops>>

\* The process dies: every stack is gone, and the broker delivers the jobs it
\* held once more.
Crash ==
    /\ Fault("crash")
    /\ actor' = [a \in Actors |-> Idle]
    /\ jobs' = [r \in Runs |-> IF Driving(r) THEN jobs[r] + 1 ELSE jobs[r]]
    /\ UNCHANGED <<tables, allowed, ops>>

Next ==
    \/ \E s \in Slots : LoopStep(s)
    \/ \E c \in Clients : RequestStep(c)
    \/ \E a \in Actors : SharedStep(a)
    \/ SweepStep \/ Lapse \/ Disallow \/ Crash

Spec == Init /\ [][Next]_vars

-----------------------------------------------------------------------------
(***************************************************************************)
(* Fairness: a slot and a handler go on, the provider answers in the end    *)
(* (its call is bounded by a timeout), the sweeper runs again and again and  *)
(* reaches every kind of repair, and a card's time runs out.                *)
(***************************************************************************)
Goes(a) == LoopStep(a) \/ SharedStep(a)
Answers(c) == ClaimDecision(c) \/ ExpireForm(c) \/ CloseForm(c) \/ SharedStep(c)

Fairness ==
    /\ \A s \in Slots : WF_vars(Goes(s))
    /\ \A c \in Clients : WF_vars(Answers(c))
    /\ WF_vars(SharedStep(Sweeper))
    /\ SF_vars(SweepExpired) /\ SF_vars(SweepInterrupted) /\ SF_vars(SweepAwaiting)
    /\ SF_vars(SweepQueued) /\ SF_vars(SweepStale)
    /\ WF_vars(Lapse)

FairSpec == Spec /\ Fairness
-----------------------------------------------------------------------------
Statuses == {"NONE"} \cup Active \cup Terminal
Told == {"done", "unknown", "not done", "answered"}

\* The variables have their types.
TypeOK ==
    /\ \A r \in Runs :
         /\ runs[r].status \in Statuses /\ runs[r].cancel \in BOOLEAN
         /\ runs[r].steps \in Nat /\ jobs[r] \in Nat
    /\ \A h \in DOMAIN history :
         /\ history[h].kind \in {"user", "text", "step", "tool"} /\ history[h].run \in Runs
         /\ \A n \in DOMAIN history[h].told : history[h].told[n] \in Told
    /\ \A i \in DOMAIN invocations :
         /\ invocations[i].run \in Runs /\ invocations[i].status \in Undecided \cup Closed
         /\ invocations[i].kind \in {"write", "form"} /\ invocations[i].done \in Nat
    /\ allowed \in BOOLEAN /\ ops \in 0 .. MaxEvents /\ faults \in 0 .. MaxFaults

\* Between the claim and the pause, or the end, of a run.
InLoop(s) ==
    \/ actor[s].pc \in {"answer", "guard", "model", "boundary", "resolve", "approve", "unrecorded"}
    \/ (actor[s].op = "drive" /\ actor[s].pc \in {"execute", "record"})

\* A run is driven by one slot, and while it is driven nothing but its own loop
\* and no other run of the conversation is at work: no late job, no sweep, no
\* cancel and no resume gives it a second driver (agent-loop.ts, advance).
OneDriver ==
    \A s \in Slots : InLoop(s) =>
        /\ runs[actor[s].run].status = "RUNNING"
        /\ \A t \in Slots \ {s} : ~ InLoop(t)

\* Every step of the conversation that called tools is followed by the message
\* that answers them, whatever ended, resumed or followed its run: the provider
\* refuses a history with a call left open (run-lifecycle.ts, answerOpenStep).
EveryCallAnswered ==
    \A h \in DOMAIN history :
        history[h].kind = "step" /\ h < Len(history) =>
            /\ history[h + 1].kind = "tool"
            /\ history[h + 1].run = history[h].run /\ history[h + 1].step = history[h].step

AnswerFor(i, h) ==
    /\ history[h].kind = "tool"
    /\ history[h].run = invocations[i].run /\ history[h].step = invocations[i].step

\* What the rows say of the writes: one executed at most once, none that was
\* rejected, expired or cancelled, and "done" told only of one that was.
WritesHonest ==
    \A i \in DOMAIN invocations :
        /\ invocations[i].done <= 1
        /\ invocations[i].status \in Waiting \cup {"REJECTED", "EXPIRED", "CANCELLED"} =>
             invocations[i].done = 0
        /\ invocations[i].kind = "write" =>
             \A h \in DOMAIN history :
                 AnswerFor(i, h) /\ history[h].told[invocations[i].call] = "done" =>
                     invocations[i].done = 1

\* A call that was decided, or closed with its run, keeps its outcome.
ClosedForGood ==
    \A i \in DOMAIN invocations :
        invocations[i].status \in Closed => invocations'[i].status = invocations[i].status

\* However two decisions, the automatic approval, the lapse of a card, a cancel
\* and a crash cross: a write is executed at most once, and never while it waits
\* or after it was rejected, expired or cancelled; no closed call changes its
\* outcome; and "done" is told only of what was.  A call that was closed because
\* nobody knew its outcome may still be executed by whoever had claimed it
\* (OUTCOME_UNKNOWN: the model is told "unknown").
WritesOnce == []WritesHonest /\ [][ClosedForGood]_vars

\* What the runtime promises of a conversation's runs, whatever is lost.
Lifecycle == INSTANCE AssistantLifecycle WITH status <- [r \in Runs |-> runs[r].status]
ImplementsAssistant == Lifecycle!Spec

\* No run is left waiting, queued or running forever, and no call of one is left
\* undecided or taken to be executing: not by a crash, a job the broker refused,
\* a decision nobody makes or a write whose outcome never came (the sweeper's
\* reconcilers).
Open(i) == i \in DOMAIN invocations /\ invocations[i].status \in Undecided
NothingHangs ==
    /\ \A r \in Runs : runs[r].status \in Active ~> runs[r].status \in Terminal
    /\ \A i \in 1 .. MaxRuns * MaxSteps : Open(i) ~> ~ Open(i)
-----------------------------------------------------------------------------
\* Violated: a write the model was told is not executed never takes effect.
NeverDenied ==
    \A i \in DOMAIN invocations : invocations[i].done > 0 =>
        \A h \in DOMAIN history :
            AnswerFor(i, h) => history[h].told[invocations[i].call] # "not done"

\* Violated: a step is answered once.
AnsweredOnce ==
    \A g, h \in DOMAIN history :
        /\ history[g].kind = "tool" /\ history[h].kind = "tool"
        /\ history[g].run = history[h].run /\ history[g].step = history[h].step
        => g = h

\* Violated: only a run with every call decided is resumed.
ResumeOnlyDecided ==
    [][\A r \in Runs :
         runs[r].status \in Waiting /\ runs'[r].status = "QUEUED" =>
             RowsAt(r, Waiting) = {}]_vars
=============================================================================
