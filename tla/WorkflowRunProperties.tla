----------------------- MODULE WorkflowRunProperties -----------------------
(***************************************************************************)
(* What the run engine must satisfy.  Which faults each property survives   *)
(* is said with it; the README says which run checks it.                    *)
(***************************************************************************)
EXTENDS WorkflowRun

Outs == {"", "SUCCEEDED", "FAILED", "RETRY", "AWAITING_INPUT", "COMPENSATED"}
Pcs == {"idle", "claim", "check", "build", "inactive", "terminal", "exec",
        "record", "requeue", "undo", "undoing", "settle", "safe", "done"}
ClientPcs == {"idle", "count", "claim", "enqueue", "clear", "rollback",
              "guard", "create", "start", "resume"}
Rows == [step : Keys, attempt : Nat, status : RowStatuses]
Tasks == [step : Keys, status : TaskStatuses]
Walks == [pc : Pcs, job : Job \cup {NoJob}, owns : BOOLEAN, cursor : Targets,
          attempt : Nat, out : Outs, todo : SUBSET Nat]
Requests == [pc : ClientPcs, run : Runs \cup {0}, step : Targets, attempt : Nat,
             override : BOOLEAN, version : DOMAIN Versions \cup {0}]

\* Every variable keeps its type, whatever the faults.  (The database columns,
\* the queue's job ids, the state a walk or a request holds in memory.)
TypeOK ==
    /\ status \in [Runs -> Statuses]
    /\ marker \in [Runs -> Targets]
    /\ version \in [Runs -> DOMAIN Versions]
    /\ ledger \in [Runs -> Seq(Rows)]
    /\ tasks \in [Runs -> Seq(Tasks)]
    /\ effects \in [Keys -> Nat]
    /\ waiting \subseteq Job
    /\ active \subseteq Job
    /\ finished \subseteq Job
    /\ stalled \subseteq Job
    /\ walk \in [Workers -> Walks]
    /\ client \in [Clients -> Requests]
    /\ override \in [Runs -> Keys \cup {NoStep}]
    /\ grantActive \in BOOLEAN
    /\ latest \in DOMAIN Versions
    /\ ops \in Nat
    /\ faults \in Nat
-----------------------------------------------------------------------------
(***************************************************************************)
(* One driver per run.                                                     *)
(***************************************************************************)
\* A walk past its claim and before its last write.
PastContext == {"terminal", "exec", "record", "requeue", "undo", "undoing", "settle"}
Holding == PastContext \cup {"build", "inactive"}

\* A retry job that would still walk its run: its attempt has no row, and no
\* slot is walking with it yet (or the slot that did died).
Dangling(j) ==
    /\ j \in waiting \cup active
    /\ j.kind = "retry"
    /\ ~ HasRow(j.run, j.cursor, j.attempt)
    /\ \A w \in Workers : walk[w].pc \in Holding => walk[w].job # j

\* Everything that may still execute a step of r without a further claim.
Drivers(r) ==
    {<<"walk", w>> : w \in {v \in Workers : walk[v].pc \in Holding /\ RunOf(v) = r}}
    \cup {<<"job", j>> : j \in {i \in waiting \cup active : i.run = r /\ Dangling(i)}}
    \cup {<<"request", c>> : c \in {d \in Clients :
              client[d].pc \in {"enqueue", "rollback"} /\ client[d].run = r}}

\* The claims (PENDING -> RUNNING, AWAITING_INPUT -> RUNNING, FAILED ->
\* RUNNING) and the retry job's two checks let one driver at a time onto a
\* run: a walk that is past the grant check is alone with a RUNNING run, so
\* the unguarded status writes it makes never overwrite anyone's.  While the
\* grant is usable no run has two drivers, and only RUNNING runs have one.
\* Survives crashes and refused enqueues; not stalls (a zombie walk goes on)
\* nor database errors (failRunSafely fails a run somebody else drives).
SingleDriver ==
    \A r \in Runs :
        /\ Drivers(r) # {} =>
              status[r] = "RUNNING" \/ (status[r] = "FAILED" /\ ~ GrantUsable)
        /\ GrantUsable => \A x, y \in Drivers(r) : x = y
        /\ \A w \in Workers :
              walk[w].pc \in PastContext /\ RunOf(w) = r =>
                  status[r] = "RUNNING" /\ Drivers(r) = {<<"walk", w>>}

\* At most one run of the lineage can still provision or already has: the
\* lineage lock of retry and replay-latest (AUD-007), kept although every
\* other status write bypasses the lock.  Crashes and refused enqueues.
OneLiveRun ==
    \A r, s \in Runs : status[r] \in Live /\ status[s] \in Live => r = s

\* The engine implements the lifecycle of its runs: a status moves only along
\* the lifecycle's edges, so a finished run stays finished, and a run joins
\* the live ones only when the others are idle.  Crashes, refused enqueues.
Lifecycle == INSTANCE RunLifecycle WITH Runs <- Runs, status <- status
ImplementsLifecycle == Lifecycle!Spec
-----------------------------------------------------------------------------
(***************************************************************************)
(* Cursors, pauses and the ledger.                                         *)
(***************************************************************************)
Born(r) == r \in Runs /\ status[r] # "NONE"

\* What each of them knows of its run; x is a walk or a request.
JobKnown(j) ==
    /\ Born(j.run)
    /\ j.kind = "retry" => j.cursor \in KeysOf(StepsOf(j.run))
    /\ j.kind = "resume" => j.cursor \in KeysOf(StepsOf(j.run)) \cup Terminals

WalkKnown(x) ==
    x.pc # "idle" =>
        /\ JobKnown(x.job)
        /\ x.pc \in {"build", "inactive", "exec", "record", "requeue"} =>
              x.cursor \in KeysOf(StepsOf(x.job.run))

TaskKnown(r, task) == Born(r) /\ task.step \in KeysOf(StepsOf(r))

RequestKnown(x) ==
    /\ x.pc # "idle" => Born(x.run)
    /\ x.pc \in {"count", "claim", "enqueue", "clear", "rollback"} =>
          x.step \in KeysOf(StepsOf(x.run))
    /\ x.pc = "resume" => x.step \in KeysOf(StepsOf(x.run)) \cup Terminals

\* Wherever a walk, a job, a task or a request takes up a run, it names a step
\* of the version THAT run is pinned to (or, for a resume, a terminal), so
\* the walk's cursor-not-found exit, a task on an unknown step and a retry at
\* a step of another version cannot happen.  All faults.
CursorsKnown ==
    /\ \A w \in Workers : WalkKnown(walk[w])
    /\ \A j \in waiting \cup active \cup finished : JobKnown(j)
    /\ \A r \in Runs : \A i \in DOMAIN tasks[r] : TaskKnown(r, tasks[r][i])
    /\ \A c \in Clients : RequestKnown(client[c])

\* One row per attempt of a step (compensation rows apart): a redelivered or
\* double-scheduled retry job never repeats a recorded attempt.  Crashes and
\* refused enqueues, one operator request at a time.
UniqueRows ==
    \A r \in Runs : \A i, j \in DOMAIN ledger[r] :
        /\ ledger[r][i].status # "COMPENSATED"
        /\ ledger[r][j].status # "COMPENSATED"
        /\ ledger[r][i].step = ledger[r][j].step
        /\ ledger[r][i].attempt = ledger[r][j].attempt
        => i = j

\* What leads a walk of r to step k: the start of the version, or a step whose
\* recorded outcome, or whose resolved task, follows an edge to k.
LedTo(r, k) ==
    LET steps == StepsOf(r)
        Takes(key, edge(_, _)) == edge(steps, IndexOf(steps, key)) = k
    IN  \/ k = steps[1].key
        \/ \E i \in DOMAIN ledger[r] :
             LET row == ledger[r][i] IN
             \/ row.status = "SUCCEEDED" /\ Takes(row.step, OnSuccess)
             \/ row.status = "FAILED" /\ Takes(row.step, OnFailure)
        \/ \E i \in DOMAIN tasks[r] :
             LET task == tasks[r][i] IN
             \/ task.status = "COMPLETED" /\ Takes(task.step, OnSuccess)
             \/ /\ task.status = "CANCELLED" /\ Takes(task.step, OnFailure)
                /\ StepAt(steps, task.step).kind = "MANUAL"

\* No walk skips a step: a step is executed only if the run's own rows and
\* tasks lead to it, whoever brought the cursor (a retry, a resume late or
\* repeated, a rolled back claim, a replay of another run, a redelivered
\* job).  A rejected approval leads only along its failure edge.  All faults.
NoStepSkipped ==
    \A w \in Workers :
        walk[w].pc \in {"exec", "record"} => LedTo(RunOf(w), walk[w].cursor)

NonIdempotent ==
    {k \in Keys : \E v \in DOMAIN Versions :
        /\ k \in KeysOf(Versions[v])
        /\ StepAt(Versions[v], k).kind = "HTTP"
        /\ ~ StepAt(Versions[v], k).idempotent}

-----------------------------------------------------------------------------
(***************************************************************************)
(* Action properties that state what comments of the code promise.         *)
(***************************************************************************)
\* A resume takes a run out of AWAITING_INPUT only for a task that has been
\* resolved: "exactly one resume job proceeds - a duplicate is a no-op".
ResumeOnlyResolved ==
    [][\A r \in Runs :
        status[r] = "AWAITING_INPUT" /\ status'[r] = "RUNNING" =>
            tasks[r][Len(tasks[r])].status # "PENDING"]_vars

\* A non-idempotent call is not made again once a row of the lineage says it
\* succeeded: "every already-SUCCEEDED step BEFORE it is skipped (a
\* non-idempotent create cannot double-provision)".  A call whose row a crash
\* swallowed is not covered, and cannot be.
NoDoubleProvision ==
    [][\A k \in NonIdempotent : effects'[k] # effects[k] =>
        \A r \in Runs : ~ \E i \in DOMAIN ledger[r] :
            ledger[r][i].step = k /\ ledger[r][i].status = "SUCCEEDED"]_vars

\* The same within one run: whatever is retried, redelivered or reconciled, a
\* non-idempotent step whose success the run has recorded is not executed
\* again.  Crashes and refused enqueues, one operator request at a time.
NoRepeatInRun ==
    [][\A w \in Workers, k \in NonIdempotent :
        walk[w].pc = "exec" /\ walk[w].cursor = k /\ effects'[k] # effects[k] =>
            ~ \E i \in DOMAIN ledger[RunOf(w)] :
                ledger[RunOf(w)][i].step = k /\ ledger[RunOf(w)][i].status = "SUCCEEDED"]_vars

\* A replay is created only when no step that its version runs again is a
\* non-idempotent call that already succeeded in the run it supersedes.
\* Violated: the guard takes array order for execution order (versions
\* Backward), and reads before the lineage lock (versions Linear, two clients).
ReplaySafe ==
    [][\A c \in Clients : client[c].pc = "create" /\ client'[c].pc = "start" =>
        \A i \in DOMAIN Versions[client[c].version] :
            LET step == Versions[client[c].version][i] IN
            step.kind = "HTTP" /\ ~ step.idempotent =>
                \A k \in DOMAIN ledger[client[c].run] :
                    ledger[client[c].run][k].step = step.key =>
                        ledger[client[c].run][k].status # "SUCCEEDED"]_vars
-----------------------------------------------------------------------------
(***************************************************************************)
(* Liveness, under Fairness.                                               *)
(***************************************************************************)
\* "Postgres remembers": a committed PENDING run is started, although its
\* enqueue was refused or the process died before it.
PendingLeaves ==
    \A r \in Runs : status[r] = "PENDING" ~> status[r] # "PENDING"

\* CCOR-4: no run stays RUNNING for ever, whatever happens to its walk.
RunningLeaves ==
    \A r \in Runs : status[r] = "RUNNING" ~> status[r] # "RUNNING"

Resolved(r) ==
    /\ status[r] = "AWAITING_INPUT"
    /\ tasks[r][Len(tasks[r])].status # "PENDING"

\* CCOR-2: once the task is resolved the run resumes, although the resume was
\* refused, lost, or deduplicated against a finished job.
ResolvedLeaves == \A r \in Runs : Resolved(r) ~> ~ Resolved(r)
=============================================================================
