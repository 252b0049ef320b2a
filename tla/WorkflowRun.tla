---------------------------- MODULE WorkflowRun ----------------------------
(***************************************************************************)
(* The run engine of the applications workflow engine, for ONE lineage: all *)
(* the runs of one (trigger, access grant).  Run 1 is the organic run the   *)
(* grant transaction committed; run n + 1 is the replay with replaySeq n.   *)
(*                                                                          *)
(* Actors, each a process of the one API server:                            *)
(*   - Workers: the slots of the in-process BullMQ worker.  A slot takes a  *)
(*     job and walks the run's step graph, one action per awaited call.     *)
(*   - Clients: operator requests (retry, replay-latest, resolve a task).   *)
(*   - the sweeper's three reconcilers.                                     *)
(*   - the broker (BullMQ over Valkey) and the environment: refused         *)
(*     enqueues, stalled locks, database errors, process crashes, the       *)
(*     revocation of the grant, the publication of a new version.           *)
(*                                                                          *)
(* Wall-clock thresholds are abstracted: a reconciler may run whenever the  *)
(* condition it tests can hold, except that ReconcileRunning (five minutes) *)
(* never overtakes a request between its claim and its enqueue.             *)
(***************************************************************************)
EXTENDS WorkflowSteps

CONSTANTS
    MaxRuns,     \* how many runs the lineage may have (bounds the replays)
    Versions,    \* the published versions: a sequence of step sequences
    Trigger,     \* "ACCESS_GRANTED" or "ACCESS_REVOKED"
    Workers,     \* worker slots (5 in the code)
    Clients,     \* concurrent operator requests
    FaultKinds,  \* which faults the environment may inject
    MaxFaults,   \* how many of them, in all
    MaxOps       \* how many operator requests, in all

Runs == 1 .. MaxRuns

AllFaults == {"crash", "stall", "throw", "broker"}

ASSUME RunsAssumption == MaxRuns \in Nat /\ MaxRuns > 0
ASSUME VersionsAssumption ==
    /\ Versions \in Seq(Seq(StepRecords))
    /\ Len(Versions) > 0
    /\ \A v \in DOMAIN Versions : ValidSteps(Versions[v])
    /\ \A v \in DOMAIN Versions : NoStep \notin KeysOf(Versions[v])
ASSUME BoundsAssumption ==
    /\ FaultKinds \subseteq AllFaults
    /\ MaxFaults \in Nat
    /\ MaxOps \in Nat

VARIABLES
    status,      \* WorkflowRun.status per run, "NONE" before it is created
    marker,      \* the step key its error carries, NoStep if it names none
    version,     \* the pinned version per run
    ledger,      \* WorkflowStepRun rows per run, append-only
    tasks,       \* ManualTask rows per run, oldest first
    effects,     \* calls of an HTTP step answered with success, by step key
    waiting,     \* jobs waiting or delayed in the broker
    active,      \* jobs handed to a worker slot and not acknowledged
    finished,    \* completed and failed jobs the broker still remembers
    stalled,     \* jobs redelivered once already
    walk,        \* what each worker slot is doing
    client,      \* what each operator request is doing
    override,    \* pendingOverrides: the one-shot retry override per run
    grantActive, \* the grant is not revoked and its user not offboarded
    latest,      \* index of the latest published version
    ops, faults  \* bounds: requests made and faults injected so far

dbVars == <<status, marker, version, ledger, tasks>>
queueVars == <<waiting, active, finished, stalled>>
envVars == <<grantActive, latest>>
vars == <<dbVars, effects, queueVars, walk, client, override, envVars, ops, faults>>

-----------------------------------------------------------------------------
Keys == UNION {KeysOf(Versions[v]) : v \in DOMAIN Versions}
StepsOf(r) == Versions[version[r]]

Statuses == {"NONE", "PENDING", "RUNNING", "AWAITING_INPUT", "SUCCEEDED",
             "FAILED", "COMPENSATED"}
RowStatuses == {"SUCCEEDED", "FAILED", "AWAITING_INPUT", "COMPENSATED"}
TaskStatuses == {"PENDING", "COMPLETED", "CANCELLED"}

Targets == Keys \cup Terminals \cup {NoStep}

\* A job is its id: what BullMQ deduplicates on.  A reconciled resume carries
\* the task in its id, so it is a different job from the live one.
Job == [kind : {"start", "resume", "retry"}, run : Runs, cursor : Targets,
        attempt : Nat, task : Nat]
StartJob(r) ==
    [kind |-> "start", run |-> r, cursor |-> NoStep, attempt |-> 1, task |-> 0]
ResumeJob(r, cursor, task) ==
    [kind |-> "resume", run |-> r, cursor |-> cursor, attempt |-> 1, task |-> task]
RetryJob(r, step, attempt) ==
    [kind |-> "retry", run |-> r, cursor |-> step, attempt |-> attempt, task |-> 0]

\* Mutant: counts the finished jobs the broker still remembers as in flight.
InFlightOrFinished(r) == \E j \in waiting \cup active \cup finished : j.run = r
\* Mutant: only the waiting jobs.
InFlightWaiting(r) == \E j \in waiting : j.run = r

InFlight(r) == \E j \in waiting \cup active : j.run = r

\* queue.add: an id the broker knows, even a finished one, is a silent no-op.
Add(j) ==
    /\ waiting' = IF j \in active \cup finished THEN waiting ELSE waiting \cup {j}
    /\ UNCHANGED <<active, finished, stalled>>

\* The broker refuses the call; the caller gets false.
Refused ==
    /\ "broker" \in FaultKinds
    /\ faults < MaxFaults
    /\ faults' = faults + 1

NoJob == [kind |-> "none", run |-> 0, cursor |-> NoStep, attempt |-> 0, task |-> 0]
IdleWalk == [pc |-> "idle", job |-> NoJob, owns |-> FALSE, cursor |-> NoStep,
             attempt |-> 1, out |-> "", todo |-> {}]
IdleClient == [pc |-> "idle", run |-> 0, step |-> NoStep, attempt |-> 0,
               override |-> FALSE, version |-> 0]

RunOf(w) == walk[w].job.run
WalkTo(w, pc) == walk' = [walk EXCEPT ![w].pc = pc]

\* Mutant: looks for a row of the attempt that succeeded.
HasSucceededRow(r, step, attempt) ==
    \E i \in DOMAIN ledger[r] :
        ledger[r][i] = [step |-> step, attempt |-> attempt, status |-> "SUCCEEDED"]

HasRow(r, step, attempt) ==
    \E i \in DOMAIN ledger[r] :
        ledger[r][i].step = step /\ ledger[r][i].attempt = attempt

AppendRow(r, step, attempt, st) ==
    ledger' = [ledger EXCEPT ![r] =
        Append(@, [step |-> step, attempt |-> attempt, status |-> st])]

Init ==
    /\ status = [r \in Runs |-> IF r = 1 THEN "PENDING" ELSE "NONE"]
    /\ marker = [r \in Runs |-> NoStep]
    /\ version = [r \in Runs |-> 1]
    /\ ledger = [r \in Runs |-> <<>>]
    /\ tasks = [r \in Runs |-> <<>>]
    /\ effects = [k \in Keys |-> 0]
    /\ waiting \in {{}, {StartJob(1)}}   \* enqueued after the grant, or lost
    /\ active = {}
    /\ finished = {}
    /\ stalled = {}
    /\ walk = [w \in Workers |-> IdleWalk]
    /\ client = [c \in Clients |-> IdleClient]
    /\ override = [r \in Runs |-> NoStep]
    /\ grantActive = TRUE
    /\ latest = 1
    /\ ops = 0
    /\ faults = 0
-----------------------------------------------------------------------------
(***************************************************************************)
(* The worker: process(job), then start, resume or retryStep.              *)
(***************************************************************************)
Take(w) ==
    /\ walk[w].pc = "idle"
    /\ \E j \in waiting :
        /\ waiting' = waiting \ {j}
        /\ active' = active \cup {j}
        /\ walk' = [walk EXCEPT ![w] =
                [IdleWalk EXCEPT !.pc = "claim", !.job = j, !.owns = TRUE,
                                 !.cursor = j.cursor, !.attempt = j.attempt]]
    /\ UNCHANGED <<dbVars, effects, finished, stalled, client, override,
                   envVars, ops, faults>>

\* start: PENDING -> RUNNING or nothing.
ClaimStart(w) ==
    LET r == RunOf(w) IN
    /\ walk[w].pc = "claim" /\ walk[w].job.kind = "start"
    /\ IF status[r] = "PENDING"
       THEN /\ status' = [status EXCEPT ![r] = "RUNNING"]
            /\ walk' = [walk EXCEPT ![w].pc = "build",
                                    ![w].cursor = StepsOf(r)[1].key]
       ELSE WalkTo(w, "done") /\ UNCHANGED status
    /\ UNCHANGED <<marker, version, ledger, tasks, effects, queueVars, client,
                   override, envVars, ops, faults>>

\* resume: AWAITING_INPUT -> RUNNING or nothing.
ClaimResume(w) ==
    LET r == RunOf(w) IN
    /\ walk[w].pc = "claim" /\ walk[w].job.kind = "resume"
    /\ IF status[r] = "AWAITING_INPUT"
       THEN /\ status' = [status EXCEPT ![r] = "RUNNING"]
            /\ WalkTo(w, IF IsTerminalTarget(walk[w].cursor) THEN "terminal" ELSE "build")
       ELSE WalkTo(w, "done") /\ UNCHANGED status
    /\ UNCHANGED <<marker, version, ledger, tasks, effects, queueVars, client,
                   override, envVars, ops, faults>>

\* retryStep, first read: was this attempt recorded already?
CheckAttempt(w) ==
    /\ walk[w].pc = "claim" /\ walk[w].job.kind = "retry"
    /\ WalkTo(w, IF HasRow(RunOf(w), walk[w].cursor, walk[w].attempt)
               THEN "done" ELSE "check")
    /\ UNCHANGED <<dbVars, effects, queueVars, client, override, envVars, ops, faults>>

\* retryStep, second read: is the run still RUNNING?
CheckRunning(w) ==
    /\ walk[w].pc = "check"
    /\ WalkTo(w, IF status[RunOf(w)] = "RUNNING" THEN "build" ELSE "done")
    /\ UNCHANGED <<dbVars, effects, queueVars, client, override, envVars, ops, faults>>

GrantUsable == Trigger # "ACCESS_GRANTED" \/ grantActive

\* The context is built once per walk; an inactive grant ends the run, with
\* the cursor as its failed step and no row.
BuildContext(w) ==
    /\ walk[w].pc = "build"
    /\ WalkTo(w, IF GrantUsable THEN "exec" ELSE "inactive")
    /\ UNCHANGED <<dbVars, effects, queueVars, client, override, envVars, ops, faults>>

FinalizeInactive(w) ==
    LET r == RunOf(w) IN
    /\ walk[w].pc = "inactive"
    /\ status' = [status EXCEPT ![r] = "FAILED"]
    /\ marker' = [marker EXCEPT ![r] = walk[w].cursor]
    /\ WalkTo(w, "done")
    /\ UNCHANGED <<version, ledger, tasks, effects, queueVars, client, override,
                   envVars, ops, faults>>

\* Mutant: the token itself as the status.
TokenAsStatus(token) == token

TerminalStatus(token) ==
    IF token = EndSuccess THEN "SUCCEEDED"
    ELSE IF token = Compensate THEN "COMPENSATED" ELSE "FAILED"

\* finalizeTerminal on entry: the resume cursor is a terminal token.  A
\* failure names the paused step, not the token (AUD-070).
FinalizeTerminal(w) ==
    LET r == RunOf(w)
        cursor == walk[w].cursor
        paused == IF tasks[r] # <<>> THEN tasks[r][Len(tasks[r])].step ELSE cursor
    IN
    /\ walk[w].pc = "terminal"
    /\ walk' = [walk EXCEPT
            ![w].pc = IF cursor = Compensate THEN "undo" ELSE "settle",
            ![w].out = TerminalStatus(cursor),
            ![w].cursor = IF cursor \in {EndSuccess, Compensate} THEN cursor ELSE paused]
    /\ UNCHANGED <<dbVars, effects, queueVars, client, override, envVars, ops, faults>>

(***************************************************************************)
(* One attempt of the step at the cursor.  A pending override for this     *)
(* step is consumed; the outcome of the call is the environment's choice.  *)
(***************************************************************************)
Outcomes(step, attempt) ==
    IF step.kind = "MANUAL" THEN {"AWAITING_INPUT"}
    ELSE {"SUCCEEDED", "FAILED"} \cup (IF MayRetry(step, attempt) THEN {"RETRY"} ELSE {})

Execute(w) ==
    LET r == RunOf(w)
        key == walk[w].cursor
        step == StepAt(StepsOf(r), key)
    IN
    /\ walk[w].pc = "exec"
    /\ override' = IF override[r] = key THEN [override EXCEPT ![r] = NoStep] ELSE override
    /\ \E out \in Outcomes(step, walk[w].attempt) :
        /\ walk' = [walk EXCEPT ![w].pc = "record", ![w].out = out]
        /\ effects' = IF out = "SUCCEEDED" THEN [effects EXCEPT ![key] = @ + 1]
                      ELSE effects
    /\ UNCHANGED <<dbVars, queueVars, client, envVars, ops, faults>>

\* The edge the recorded outcome follows.
Edge(w) ==
    LET steps == StepsOf(RunOf(w))
        i == IndexOf(steps, walk[w].cursor)
    IN  IF walk[w].out = "SUCCEEDED" THEN OnSuccess(steps, i) ELSE OnFailure(steps, i)

OpenTask(r, step) ==
    tasks' = [tasks EXCEPT ![r] = Append(@, [step |-> step, status |-> "PENDING"])]

\* pauseForManual: task, row and status in one transaction.
Pause(w) ==
    LET r == RunOf(w) IN
    /\ walk[w].pc = "record"
    /\ \/ walk[w].out = "AWAITING_INPUT"
       \/ walk[w].out = "FAILED" /\ Edge(w) = EscalateToManual
    /\ OpenTask(r, walk[w].cursor)
    /\ AppendRow(r, walk[w].cursor, walk[w].attempt, walk[w].out)
    /\ status' = [status EXCEPT ![r] = "AWAITING_INPUT"]
    /\ WalkTo(w, "done")
    /\ UNCHANGED <<marker, version, effects, queueVars, client, override,
                   envVars, ops, faults>>

\* A transient failure with attempts left: a FAILED row, then the re-enqueue.
RecordRetry(w) ==
    /\ walk[w].pc = "record" /\ walk[w].out = "RETRY"
    /\ AppendRow(RunOf(w), walk[w].cursor, walk[w].attempt, "FAILED")
    /\ WalkTo(w, "requeue")
    /\ UNCHANGED <<status, marker, version, tasks, effects, queueVars, client,
                   override, envVars, ops, faults>>

RecordSuccess(w) ==
    /\ walk[w].pc = "record" /\ walk[w].out = "SUCCEEDED"
    /\ AppendRow(RunOf(w), walk[w].cursor, walk[w].attempt, "SUCCEEDED")
    /\ walk' = IF Edge(w) = EndSuccess THEN [walk EXCEPT ![w].pc = "settle"]
               ELSE [walk EXCEPT ![w].pc = "exec", ![w].cursor = Edge(w),
                                 ![w].attempt = 1, ![w].out = ""]
    /\ UNCHANGED <<status, marker, version, tasks, effects, queueVars, client,
                   override, envVars, ops, faults>>

\* COMPENSATE, STOP, or a failure edge to another step or to END_SUCCESS
\* (onError "continue" on a step whose success edge ends the run).
RecordFailure(w) ==
    /\ walk[w].pc = "record" /\ walk[w].out = "FAILED"
    /\ Edge(w) # EscalateToManual
    /\ AppendRow(RunOf(w), walk[w].cursor, walk[w].attempt, "FAILED")
    /\ \/ Edge(w) = Compensate /\ WalkTo(w, "undo")
       \/ Edge(w) = StopFail /\ WalkTo(w, "settle")
       \/ /\ Edge(w) = EndSuccess
          /\ walk' = [walk EXCEPT ![w].pc = "terminal", ![w].cursor = EndSuccess]
       \/ /\ ~ IsTerminalTarget(Edge(w))
          /\ walk' = [walk EXCEPT ![w].pc = "exec", ![w].cursor = Edge(w),
                                  ![w].attempt = 1, ![w].out = ""]
    /\ UNCHANGED <<status, marker, version, tasks, effects, queueVars, client,
                   override, envVars, ops, faults>>

\* enqueueRetry: the next attempt runs off the worker, or, when the broker
\* refuses, in this same walk after a short sleep.
Requeue(w) ==
    /\ walk[w].pc = "requeue"
    /\ Add(RetryJob(RunOf(w), walk[w].cursor, walk[w].attempt + 1))
    /\ WalkTo(w, "done")
    /\ UNCHANGED <<dbVars, effects, client, override, envVars, ops, faults>>

RequeueRefused(w) ==
    /\ walk[w].pc = "requeue"
    /\ Refused
    /\ walk' = [walk EXCEPT ![w].pc = "exec", ![w].attempt = @ + 1, ![w].out = ""]
    /\ UNCHANGED <<dbVars, effects, queueVars, client, override, envVars, ops>>

\* runCompensation: read the SUCCEEDED rows (todo: their places in the ledger),
\* then one COMPENSATED row per iteration, newest first.
Succeeded(r) == {i \in DOMAIN ledger[r] : ledger[r][i].status = "SUCCEEDED"}

ListUndo(w) ==
    /\ walk[w].pc = "undo"
    /\ walk' = [walk EXCEPT ![w].pc = "undoing", ![w].todo = Succeeded(RunOf(w))]
    /\ UNCHANGED <<dbVars, effects, queueVars, client, override, envVars, ops, faults>>

RecordUndo(w) ==
    LET r == RunOf(w) IN
    /\ walk[w].pc = "undoing"
    /\ \/ /\ walk[w].todo = {}
          /\ walk' = [walk EXCEPT ![w].pc = "settle", ![w].out = "COMPENSATED"]
          /\ UNCHANGED ledger
       \/ \E i \in walk[w].todo :
          /\ \A k \in walk[w].todo : k <= i
          /\ AppendRow(r, ledger[r][i].step, 1, "COMPENSATED")
          /\ walk' = [walk EXCEPT ![w].todo = @ \ {i}]
    /\ UNCHANGED <<status, marker, version, tasks, effects, queueVars, client,
                   override, envVars, ops, faults>>

FailedStep(w) == walk[w].cursor

\* setStatus / finalizeFailed: an update by id, whatever the status is by now.
Settle(w) ==
    LET r == RunOf(w) IN
    /\ walk[w].pc = "settle"
    /\ status' = [status EXCEPT ![r] = walk[w].out]
    /\ marker' = IF walk[w].out = "FAILED"
                 THEN [marker EXCEPT ![r] = FailedStep(w)] ELSE marker
    /\ WalkTo(w, "done")
    /\ UNCHANGED <<version, ledger, tasks, effects, queueVars, client, override,
                   envVars, ops, faults>>

\* The broker acknowledges the job, if the slot still holds its lock.
Finish(w) ==
    /\ walk[w].pc = "done"
    /\ IF walk[w].owns
       THEN /\ active' = active \ {walk[w].job}
            /\ finished' = finished \cup {walk[w].job}
       ELSE UNCHANGED <<active, finished>>
    /\ walk' = [walk EXCEPT ![w] = IdleWalk]
    /\ UNCHANGED <<dbVars, effects, waiting, stalled, client, override, envVars,
                   ops, faults>>

\* A database call of the job throws; process() catches it.
Throw(w) ==
    /\ "throw" \in FaultKinds /\ faults < MaxFaults
    /\ walk[w].pc \notin {"idle", "requeue", "safe", "done"}
    /\ faults' = faults + 1
    /\ WalkTo(w, "safe")
    /\ UNCHANGED <<dbVars, effects, queueVars, client, override, envVars, ops>>

\* failRunSafely: guarded on PENDING / RUNNING, names no step.
FailRunSafely(w) ==
    LET r == RunOf(w) IN
    /\ walk[w].pc = "safe"
    /\ IF status[r] \in {"PENDING", "RUNNING"}
       THEN /\ status' = [status EXCEPT ![r] = "FAILED"]
            /\ marker' = [marker EXCEPT ![r] = NoStep]
       ELSE UNCHANGED <<status, marker>>
    /\ WalkTo(w, "done")
    /\ UNCHANGED <<version, ledger, tasks, effects, queueVars, client, override,
                   envVars, ops, faults>>

\* ... and swallows its own failure.
FailRunSafelyThrows(w) ==
    /\ "throw" \in FaultKinds /\ faults < MaxFaults
    /\ walk[w].pc = "safe"
    /\ faults' = faults + 1
    /\ WalkTo(w, "done")
    /\ UNCHANGED <<dbVars, effects, queueVars, client, override, envVars, ops>>

WorkerStep(w) ==
    \/ Take(w)
    \/ ClaimStart(w) \/ ClaimResume(w) \/ CheckAttempt(w) \/ CheckRunning(w)
    \/ BuildContext(w) \/ FinalizeInactive(w) \/ FinalizeTerminal(w) \/ Execute(w)
    \/ Pause(w) \/ RecordRetry(w) \/ RecordSuccess(w) \/ RecordFailure(w)
    \/ Requeue(w) \/ ListUndo(w) \/ RecordUndo(w) \/ Settle(w)
    \/ FailRunSafely(w) \/ Finish(w)
-----------------------------------------------------------------------------
(***************************************************************************)
(* Operator requests.  Each begins only while MaxOps allows.                *)
(***************************************************************************)
Begin(c) ==
    /\ client[c].pc = "idle"
    /\ ops < MaxOps
    /\ ops' = ops + 1

Answer(c) == client' = [client EXCEPT ![c] = IdleClient]
RequestTo(c, pc) == client' = [client EXCEPT ![c].pc = pc]

Live == {"PENDING", "RUNNING", "AWAITING_INPUT", "SUCCEEDED"}
LiveRuns == {r \in Runs : status[r] \in Live}

\* nextAttemptFor: one more than the highest recorded attempt of the step.
NextAttempt(r, step) ==
    LET tried == {ledger[r][i].attempt :
                    i \in {k \in DOMAIN ledger[r] : ledger[r][k].step = step}}
    IN  IF tried = {} THEN 1 ELSE 1 + (CHOOSE n \in tried : \A m \in tried : m <= n)

\* retry: the run is FAILED, its grant usable, its error names a step.
RetryRead(c, r, ov) ==
    /\ Begin(c)
    /\ status[r] = "FAILED"
    /\ GrantUsable
    /\ ResolveFailedStepKey(marker[r], StepsOf(r)) # NoStep
    /\ client' = [client EXCEPT ![c] = [IdleClient EXCEPT !.pc = "count", !.run = r,
            !.step = ResolveFailedStepKey(marker[r], StepsOf(r)), !.override = ov]]
    /\ UNCHANGED <<dbVars, effects, queueVars, walk, override, envVars, faults>>

RetryCount(c) ==
    /\ client[c].pc = "count"
    /\ client' = [client EXCEPT ![c].pc = "claim",
            ![c].attempt = NextAttempt(client[c].run, client[c].step)]
    /\ UNCHANGED <<dbVars, effects, queueVars, walk, override, envVars, ops, faults>>

\* Mutant: an update by id instead of the compare-and-set.
ClaimableById(r) == LiveRuns \ {r} = {}

Claimable(r) == LiveRuns \ {r} = {} /\ status[r] = "FAILED"

\* One transaction under the lineage lock: no OTHER live run, then the CAS
\* FAILED -> RUNNING.  The marker stays; the override is stashed on success.
RetryClaim(c) ==
    LET r == client[c].run IN
    /\ client[c].pc = "claim"
    /\ IF Claimable(r)
       THEN /\ status' = [status EXCEPT ![r] = "RUNNING"]
            /\ override' = IF client[c].override
                           THEN [override EXCEPT ![r] = client[c].step] ELSE override
            /\ RequestTo(c, "enqueue")
       ELSE Answer(c) /\ UNCHANGED <<status, override>>
    /\ UNCHANGED <<marker, version, ledger, tasks, effects, queueVars, walk,
                   envVars, ops, faults>>

RetryEnqueue(c) ==
    /\ client[c].pc = "enqueue"
    /\ Add(RetryJob(client[c].run, client[c].step, client[c].attempt))
    /\ RequestTo(c, "clear")
    /\ UNCHANGED <<dbVars, effects, walk, override, envVars, ops, faults>>

RetryEnqueueRefused(c) ==
    /\ client[c].pc = "enqueue"
    /\ Refused
    /\ RequestTo(c, "rollback")
    /\ UNCHANGED <<dbVars, effects, queueVars, walk, override, envVars, ops>>

\* Enqueue confirmed: clear the failed-step marker, guarded on RUNNING.
RetryClear(c) ==
    LET r == client[c].run IN
    /\ client[c].pc = "clear"
    /\ marker' = IF status[r] = "RUNNING" THEN [marker EXCEPT ![r] = NoStep] ELSE marker
    /\ Answer(c)
    /\ UNCHANGED <<status, version, ledger, tasks, effects, queueVars, walk,
                   override, envVars, ops, faults>>

DropOverride(r) == override' = [override EXCEPT ![r] = NoStep]

\* Enqueue refused: back to FAILED, guarded on RUNNING, and drop the override.
RetryRollback(c) ==
    LET r == client[c].run IN
    /\ client[c].pc = "rollback"
    /\ status' = IF status[r] = "RUNNING" THEN [status EXCEPT ![r] = "FAILED"] ELSE status
    /\ DropOverride(r)
    /\ Answer(c)
    /\ UNCHANGED <<marker, version, ledger, tasks, effects, queueVars, walk,
                   envVars, ops, faults>>

\* replayLatest: the source is FAILED and its grant usable ...
ReplayRead(c, r) ==
    /\ Begin(c)
    /\ status[r] = "FAILED"
    /\ GrantUsable
    /\ client' = [client EXCEPT ![c] = [IdleClient EXCEPT
            !.pc = "guard", !.run = r, !.step = marker[r]]]
    /\ UNCHANGED <<dbVars, effects, queueVars, walk, override, envVars, faults>>

\* ... the latest version would not repeat a completed non-idempotent step ...
ReplayGuard(c) ==
    LET steps == Versions[latest]
        done == {ledger[client[c].run][i].step : i \in Succeeded(client[c].run)}
    IN
    /\ client[c].pc = "guard"
    /\ IF AssertReplaySafe(steps, ResolveFailedStepKey(client[c].step, steps), done)
       THEN client' = [client EXCEPT ![c].pc = "create", ![c].version = latest]
       ELSE Answer(c)
    /\ UNCHANGED <<dbVars, effects, queueVars, walk, override, envVars, ops, faults>>

\* ... and, under the lineage lock, no run is live: create the next run.
\* (A lineage that has used up Runs refuses: the bound on replays.)
Unborn == {r \in Runs : status[r] = "NONE"}

\* Mutant: only the runs still executing refuse the replay.
LineageNotRunning == \A r \in Runs : status[r] \notin {"PENDING", "RUNNING"}

LineageIdle == LiveRuns = {}

ReplayCreate(c) ==
    /\ client[c].pc = "create"
    /\ IF LineageIdle /\ Unborn # {}
       THEN LET n == CHOOSE r \in Unborn : \A m \in Unborn : r <= m IN
            /\ status' = [status EXCEPT ![n] = "PENDING"]
            /\ version' = [version EXCEPT ![n] = client[c].version]
            /\ client' = [client EXCEPT ![c].pc = "start", ![c].run = n]
       ELSE Answer(c) /\ UNCHANGED <<status, version>>
    /\ UNCHANGED <<marker, ledger, tasks, effects, queueVars, walk, override,
                   envVars, ops, faults>>

ReplayEnqueue(c) ==
    /\ client[c].pc = "start"
    /\ Add(StartJob(client[c].run))
    /\ Answer(c)
    /\ UNCHANGED <<dbVars, effects, walk, override, envVars, ops, faults>>

\* submit, skip (COMPLETED) and fail (CANCELLED): the CAS on a PENDING task.
ResolveTask(c, r, i, res) ==
    /\ Begin(c)
    /\ i \in DOMAIN tasks[r]
    /\ tasks[r][i].status = "PENDING"
    /\ tasks' = [tasks EXCEPT ![r][i].status = res]
    /\ client' = [client EXCEPT ![c] = [IdleClient EXCEPT !.pc = "resume", !.run = r,
            !.step = DeriveResumeCursor(StepsOf(r), tasks[r][i].step, res)]]
    /\ UNCHANGED <<status, marker, version, ledger, effects, queueVars, walk,
                   override, envVars, faults>>

ResumeEnqueue(c) ==
    /\ client[c].pc = "resume"
    /\ Add(ResumeJob(client[c].run, client[c].step, 0))
    /\ Answer(c)
    /\ UNCHANGED <<dbVars, effects, walk, override, envVars, ops, faults>>

\* A refused start or resume enqueue is swallowed: the request still succeeds.
EnqueueRefused(c) ==
    /\ client[c].pc \in {"start", "resume"}
    /\ Refused
    /\ Answer(c)
    /\ UNCHANGED <<dbVars, effects, queueVars, walk, override, envVars, ops>>

ClientBegins(c) ==
    \E r \in Runs :
        \/ \E ov \in BOOLEAN : RetryRead(c, r, ov)
        \/ ReplayRead(c, r)
        \/ \E i \in 1 .. Len(tasks[r]) : \E res \in {"COMPLETED", "CANCELLED"} :
               ResolveTask(c, r, i, res)

ClientStep(c) ==
    \/ RetryCount(c) \/ RetryClaim(c) \/ RetryEnqueue(c) \/ RetryClear(c)
    \/ RetryRollback(c) \/ ReplayGuard(c) \/ ReplayCreate(c) \/ ReplayEnqueue(c)
    \/ ResumeEnqueue(c)
-----------------------------------------------------------------------------
(***************************************************************************)
(* The sweeper.                                                            *)
(***************************************************************************)
\* Mutant: selects the runs that have started.
SweepStarted(r) ==
    /\ status[r] = "RUNNING"
    /\ Add(StartJob(r))
    /\ UNCHANGED <<dbVars, effects, walk, client, override, envVars, ops, faults>>

SweepPending(r) ==
    /\ status[r] = "PENDING"
    /\ Add(StartJob(r))
    /\ UNCHANGED <<dbVars, effects, walk, client, override, envVars, ops, faults>>

\* Mutant: the same id as the live resume.
ReconciledResume0(r, cursor, n) == ResumeJob(r, cursor, 0)

ReconciledResume(r, cursor, n) == ResumeJob(r, cursor, n)

ReconcileAwaiting(r) ==
    LET n == Len(tasks[r]) IN
    /\ status[r] = "AWAITING_INPUT"
    /\ n > 0
    /\ tasks[r][n].status # "PENDING"
    /\ Add(ReconciledResume(r, DeriveResumeCursor(StepsOf(r), tasks[r][n].step,
                                                  tasks[r][n].status), n))
    /\ UNCHANGED <<dbVars, effects, walk, client, override, envVars, ops, faults>>

\* Between its claim and its last write a retry request has touched the run
\* moments ago, so the run is not stale.
MidClaim(r) ==
    \E c \in Clients : client[c].run = r /\ client[c].pc \in {"enqueue", "clear", "rollback"}

ReconcileRunning(r) ==
    /\ status[r] = "RUNNING"
    /\ ~ InFlight(r)
    /\ ~ MidClaim(r)
    /\ status' = [status EXCEPT ![r] = "FAILED"]
    /\ marker' = [marker EXCEPT ![r] = NoStep]
    /\ UNCHANGED <<version, ledger, tasks, effects, queueVars, walk, client,
                   override, envVars, ops, faults>>

SweeperStep(r) == SweepPending(r) \/ ReconcileAwaiting(r) \/ ReconcileRunning(r)
-----------------------------------------------------------------------------
(***************************************************************************)
(* The broker and the environment.                                         *)
(***************************************************************************)
\* The slot loses the lock of its job while its walk goes on (a "zombie").
Stall(w) ==
    /\ "stall" \in FaultKinds /\ faults < MaxFaults
    /\ walk[w].owns
    /\ faults' = faults + 1
    /\ walk' = [walk EXCEPT ![w].owns = FALSE]
    /\ UNCHANGED <<dbVars, effects, queueVars, client, override, envVars, ops>>

\* The process dies: slots, requests and the override map are gone.
Crash ==
    /\ "crash" \in FaultKinds /\ faults < MaxFaults
    /\ faults' = faults + 1
    /\ walk' = [w \in Workers |-> IdleWalk]
    /\ client' = [c \in Clients |-> IdleClient]
    /\ override' = [r \in Runs |-> NoStep]
    /\ UNCHANGED <<dbVars, effects, queueVars, envVars, ops>>

\* The stalled check: an active job nobody holds goes back to waiting, once;
\* the second time it is failed (maxStalledCount = 1).
Redeliver(j) ==
    /\ j \in active
    /\ ~ \E w \in Workers : walk[w].owns /\ walk[w].job = j
    /\ active' = active \ {j}
    /\ IF j \in stalled
       THEN finished' = finished \cup {j} /\ UNCHANGED <<waiting, stalled>>
       ELSE /\ waiting' = waiting \cup {j}
            /\ stalled' = stalled \cup {j}
            /\ UNCHANGED finished
    /\ UNCHANGED <<dbVars, effects, walk, client, override, envVars, ops, faults>>

\* A finished job ages out (removeOnComplete, removeOnFail).
Evict(j) ==
    /\ j \in finished
    /\ finished' = finished \ {j}
    /\ stalled' = stalled \ {j}
    /\ UNCHANGED <<dbVars, effects, waiting, active, walk, client, override,
                   envVars, ops, faults>>

\* The grant is revoked or expires, or its user is offboarded.
RevokeGrant ==
    /\ grantActive
    /\ grantActive' = FALSE
    /\ UNCHANGED <<dbVars, effects, queueVars, walk, client, override, latest,
                   ops, faults>>

PublishVersion ==
    /\ latest < Len(Versions)
    /\ latest' = latest + 1
    /\ UNCHANGED <<dbVars, effects, queueVars, walk, client, override, grantActive,
                   ops, faults>>

Next ==
    \/ \E w \in Workers : WorkerStep(w)
    \/ \E w \in Workers : RequeueRefused(w) \/ Throw(w) \/ FailRunSafelyThrows(w) \/ Stall(w)
    \/ \E c \in Clients : ClientBegins(c) \/ ClientStep(c)
    \/ \E c \in Clients : RetryEnqueueRefused(c) \/ EnqueueRefused(c)
    \/ \E r \in Runs : SweeperStep(r)
    \/ \E j \in active : Redeliver(j)
    \/ \E j \in finished : Evict(j)
    \/ Crash
    \/ RevokeGrant
    \/ PublishVersion

Spec == Init /\ [][Next]_vars

(***************************************************************************)
(* A slot that can work does, a request that began goes on, the sweeper    *)
(* runs every minute and the broker checks for stalled jobs.  Nothing      *)
(* promises that an operator acts, or that a finished job is ever evicted. *)
(***************************************************************************)
Fairness ==
    /\ \A w \in Workers : WF_vars(WorkerStep(w))
    /\ \A c \in Clients : WF_vars(ClientStep(c))
    /\ \A r \in Runs : WF_vars(SweepPending(r)) /\ WF_vars(ReconcileAwaiting(r))
                       /\ WF_vars(ReconcileRunning(r))
    /\ WF_vars(\E j \in active : Redeliver(j))

FairSpec == Spec /\ Fairness
=============================================================================
