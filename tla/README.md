# lazyit: a verification development

lazyit is an IT-asset and access-management server: a NestJS API
(`apps/api`), a Next.js client, shared zod schemas (`packages/shared`) and an
infrastructure agent. PostgreSQL (Prisma) holds the state, Valkey (BullMQ) holds
the job queues, and one API process runs both the HTTP requests and the
in-process queue workers.

This directory holds TLA+ modules translated from that code, the TLC
configurations that check them on small instances, and proofs checked by TLAPS.
`PROJECT.json` maps every definition to the source lines it stands for. Paths
below are relative to the repository; `orchestrator` is
`apps/api/src/workflow-engine/run/workflow-run.orchestrator.ts`.

## 1. Inventory

### The core: the applications workflow engine

Granting or revoking a user's access to an application can run a *workflow*: a
graph of steps (HTTP calls to the application, or manual tasks for a person).
This is where the server's own concurrency, retries and recovery live, so it is
modelled first.

| Component | State it keeps | Operations | Interacts with |
|---|---|---|---|
| Run orchestrator (`run/workflow-run.orchestrator.ts`, `run/run-context.ts`) | `WorkflowRun.status`, its error (with the failed step key), the step ledger, `pendingOverrides` in memory | `start`, `resume`, `retryStep`, `retryRun`, the walk | claims rows in Postgres, calls handlers, enqueues retries |
| Queue and worker (`run/workflow-run.worker.ts`, `run/workflow-trigger.service.ts`) | BullMQ jobs: waiting, active, finished | `enqueueStart/Resume/Retry`, `process`, `failRunSafely`, the in-flight scan | delivers jobs at least once, deduplicates by job id |
| Sweeper (`run/workflow-run.sweeper.ts`) | none | re-enqueue PENDING, re-enqueue resolved AWAITING_INPUT, fail abandoned RUNNING | races everything above |
| Run requests (`runs/workflow-runs.service.ts`, `run/run-lineage.ts`) | the lineage lock (a Postgres advisory lock per trigger and grant) | `retry`, `replayLatest` | the orchestrator, the queue |
| Manual tasks (`tasks/manual-tasks.service.ts`) | `ManualTask.status` | `submit`, `skip`, `fail` | enqueues the resume |
| Step graph (`run/transitions.ts`, `packages/shared/src/schemas/workflow.ts`) | pure | effective edges, validation with the cycle check, resume cursor, replay guard | used by all of the above |
| Step handlers (`handlers/`) | none | one outcome per call | external systems |
| Definitions, connections | workflow versions | publish a version | a run pins the version it started with |

What is hard in it: the queue redelivers and forgets; a claim is a
compare-and-set on a status that several kinds of job can satisfy; values read
before a claim are used after it; the broker may refuse an enqueue after the
database committed; the process may die between a remote call and its ledger
row; a replay makes a second run for the same grant. What makes it correct: one
driver per run, one live run per grant event, a status machine nobody bypasses,
no remote create repeated once it is known to have succeeded, every cursor a
step of the run's own version, and every run ended or waiting for a person.

### Access and accounts

Who may use what, and what happens to it when a person, a grant or a vault goes.
Every operation is an HTTP handler (or the expiry sweeper) that reads, opens one
transaction at READ COMMITTED, and writes.

| Component | State it keeps | Operations | Hard because |
|---|---|---|---|
| Access grants (`access-grants/`) | `AccessGrant`, the outbox `WorkflowRun` of each event | create, expiry update, revoke, batch revoke, sweep | "the last grant" is a count another revoke changes; the sweep revokes what it listed earlier |
| Access requests (`access-requests/`) | `AccessRequest` | file, approve (creates the grant), deny | two decisions of one request; an approval's grant and status must both happen |
| Users (`users/`) | `User` row: role, active, deleted, password, session epoch | role and status changes, resets, offboarding, restore | the last administrator is a count; an offboarding touches every table while others write to them |
| Asset assignments (`asset-assignments/`) | `AssetAssignment` | check out, release, acknowledge | two releases; a release beside an offboarding |
| Secret manager (`secret-manager/`) | vaults, wrapped keys | vault create/delete, membership grant/revoke | a member added to a vault or of a person that is going |
| OAuth server (`oauth/`) | codes, connections, refresh tokens | consent, exchange and replay, rotation, disconnect | one refresh token presented twice; a revocation during a rotation |

### Stock, purchases and places

| Component | State it keeps | Operations | Hard because |
|---|---|---|---|
| Consumables (`consumables/`) | the stock counter and the movement ledger | IN, OUT, ADJUSTMENT, delivery, return, archive, restore | counter and ledger are two rows; returns are bounded by what is still out |
| Purchase orders (`purchase-orders/`) | purchases, lines, seats of an application | header and line edits, cancel, apply seats, link and receive units and stock, create from assets | a line is edited, cancelled, removed and filled at once; seats are written as absolute numbers |
| Assets, models, locations (`assets/`, `asset-models/`, `locations/`, `common/parent-row-lock.ts`) | rows with parents that may be archived | create, move, delete with reassignment, restore, re-parent | a delete moves its dependents while they change; six lock orders must agree |

### The AI assistant

A conversation runs one model turn at a time as a BullMQ job; the model calls
tools, and a tool that changes data waits for its user as a card (or a form).

| Component | State it keeps | Operations | Hard because |
|---|---|---|---|
| Run loop and worker (`ai/runtime/agent-loop.ts`, `agent-run.worker.ts`) | `AiRun`, the conversation's messages, the step records | claim, step, resolve each call, pause, resume, end | everything between two awaits can change under it; it must never execute a write twice |
| Run lifecycle (`run-lifecycle.ts`) | the same | finalize, answer the open step, resume if decided | shared by the loop, the requests and the sweeper; the compare-and-set says who goes on |
| Requests (`agent-run.orchestrator.ts`, `approval.service.ts`, `input.service.ts`) | the invocation rows | submit, cancel, approve, reject, answer a form | race the loop, time and each other |
| AI tools (`ai/core/ai-tool.service.ts`) | `AiToolInvocation` | propose, approve, execute, reject, expire, cancel | a claim, a ledger entry and the outcome are separate writes |
| Sweeper (`agent-run.sweeper.ts`, `run-queue.ts`) | none | expire, close interrupted writes, resume or cancel, re-enqueue, fail abandoned | it must tell a lost run from a slow one |

### The rest of the server

Infrastructure agents, import, directory sync, instance update: loops of their
own, not modelled yet. CRUD and plumbing: catalogue, articles and attachments,
applications, service accounts, suppliers, notifications, search and dashboards,
authentication, health, the MCP adapter, the web client, the agent, the deployment
scripts. `PROJECT.json` lists each with its status and the reason.

## 2. Modules

| Module | What it is |
|---|---|
| `WorkflowSteps` | the step graph: effective edges (`onSuccess`, `onFailure`, `onError`), terminal tokens, validity of a version, the resume cursor of a task, the retryable outcomes, the replay guard. Pure operators, no recursion. |
| `StepGraphSet`, `StepPath` | the graphs of an instance, and a path through one: what the two machines below share |
| `CycleCheck` | the depth-first cycle check of the version schema, one action per iteration of its loop, against a definition of acyclicity that does no search |
| `StepWalk` | one walk of a run along the edges of a valid graph, with retries, pauses and resumes, nothing else |
| `StepGraphs` | both machines over the same graphs |
| `RunLifecycle` | abstract: the status machine of the runs of one lineage |
| `WorkflowRun`, `WorkflowRunProperties` | the engine for one lineage (all runs of one trigger and grant): worker slots, requests, sweeper, broker, faults; and its properties |
| `AccessState` | the tables of access and accounts, requests in progress, row locks, deadlock and rollback |
| `AccessGrants`, `AccessRequests`, `Accounts`, `AssetAssignments`, `SecretVaults`, `OAuthTokens` | the operations of one component each, on those tables |
| `RequestBoard` | abstract: what the access requests promise |
| `AccessGovernance` | the composition of the six, and its properties |
| `ProcurementState` | the tables of stock, purchases and places, row locks with Postgres's modes, deadlock and rollback |
| `Stock`, `PurchaseOrders`, `PurchaseReceiving`, `Places` | the operations of one component each |
| `Procurement` | the composition, and its properties |
| `AssistantState` | one conversation: runs, history, invocations, queue, who is at work |
| `AssistantLoop`, `AssistantRequests`, `AssistantSweep` | the loop with the passages all actors share, the user's requests, the reconcilers |
| `AssistantLifecycle` | abstract: the status machine of a conversation's runs |
| `AssistantRun` | the composition with time, faults, fairness, and its properties |
| `StepGraphProofs`, `WorkflowRunProofs`, `AccessProofs`, `AssistantProofs`, `AssistantSafety`, `ProcurementProofs`, `ProcurementSafety`, `ProcurementLocks` | the proofs |
| `MCStepGraphs`, `MCWorkflowRun`, `MCAccess`, `MCProcurement`, `MCAssistant` | instances for TLC |

Three refinements are checked, each with the abstract variables given as functions
of the detailed state: `WorkflowRun` implements `RunLifecycle`,
`AccessGovernance` implements `RequestBoard`, and `AssistantRun` implements
`AssistantLifecycle`. All three are proved too.

### How `WorkflowRun` corresponds to the code

* A run is `PENDING` when the grant's transaction commits; whether the enqueue
  that follows happened is a choice of `Init`. Run 1 is that run; each replay
  creates the next one, pinned to the version that is latest when its guard reads.
* `walk[w]` is the call stack of one worker slot. One action is what happens
  between two awaits: `Take`, the claims (`ClaimStart`, `ClaimResume`,
  `CheckAttempt` then `CheckRunning` for a retry job), `BuildContext`, `Execute`
  (the remote call), one `Record...`/`Pause` per outcome, `Requeue`, the
  compensation loop (`ListUndo`, `RecordUndo`), the unguarded final write
  (`Settle`, `FinalizeInactive`), `Finish` (the job is acknowledged).
* `client[c]` is one operator request: `RetryRead`, `RetryCount`, `RetryClaim`
  (with the lineage lock), `RetryEnqueue` or its refusal, then `RetryClear` or
  `RetryRollback`; `ReplayRead`, `ReplayGuard`, `ReplayCreate`, `ReplayEnqueue`;
  `ResolveTask`, `ResumeEnqueue`.
* `SweepPending`, `ReconcileAwaiting`, `ReconcileRunning` are the sweeper.
* The broker is external and modelled by how the code relies on it: `Add` ignores
  an id it still knows, even of a finished job; an active job whose slot is gone is
  redelivered once and then failed; finished jobs are evicted at any time.
* Faults, each taken from `FaultKinds` and counted by `MaxFaults`: `broker` (an
  enqueue is refused), `crash` (slots, requests and `pendingOverrides` are lost,
  database and broker stay), `throw` (a database call of a walk fails and
  `failRunSafely` runs, which may fail too), `stall` (a job's lock expires while
  its walk goes on).

What is abstracted: payloads, mapping, rendering, notifications, audit and
logging; a step's remote call is a choice of its outcome. `effects` counts the
calls answered with success only. A failure to resolve the connection is a FAILED
outcome, as in the code. The wall-clock thresholds of the sweeper are dropped: a
reconciler may run whenever its condition holds, except that `ReconcileRunning`
(five minutes without an update) does not overtake a request between its claim
and its last write. A reconciler also reaches every run: its `take: 100`, which
names no order (`workflow-run.sweeper.ts:111,157,220`), is not modelled, so that a
hundred runs which wait for people hide a resolved one from `ReconcileAwaiting` is out of
scope. Two adjacent reads of the same rows with no effect between
them are one action in `ReconcileAwaiting`, `ReplayGuard` and `RetryRead`; what
they read is used in later actions, so its staleness is kept. Step keys are
assumed not to be terminal tokens, which the schema enforces, and the token
`NoStep` stands for an error that names no step.

Every bound is a constant: `MaxRuns` (runs of the lineage, so replays plus one),
`MaxOps` (requests that begin), `MaxFaults`, the sets `Workers` (5 in the code) and
`Clients`, and the step graphs `Versions`.

### How `AccessGovernance` corresponds to the code

* `client[c]` is one handler: what it has read, the locks its transaction holds and
  the writes it has made and not committed (`staged`, `reclaim`, `plans`, `fired`).
  One action is what happens between two statements that another request can see or
  must wait for; a commit applies what was staged. Nobody sees a staged write, and a
  statement that meets a lock another request holds cannot happen (`Waits`).
* Locks are the code's own: the advisory locks on the set of administrators and on a
  (person, application) pair, `FOR UPDATE` on a person's row, the row locks that an
  UPDATE takes on grants, connections and tokens. An insert that references a person
  waits for that row and does not look at `deletedAt`, as Postgres does.
* `Fail` rolls a transaction back: a fault (bounded by `MaxFaults`), or a member of a
  circle of waiting requests.
* A grant records who revoked it and how, and the workflow runs its events
  committed (`runs`); what becomes of those is `WorkflowRun`'s subject. A person's
  password is described by who set it (its owner, or the role of whoever handed it
  out). Time is `TimePasses` (an expiry becomes due) and `TokenAges` (the grace of a
  rotated refresh token is over).
* `Starts` gives the tables a behaviour begins with and the kinds of requests that
  come in then (`mix`): the kinds that touch the same rows meet, and every kind is in
  some mix. Without it the product of all requests is out of reach.

### How `Procurement` corresponds to the code

* Requests, staged writes, waiting, deadlock and rollback as above, with Postgres's
  row lock modes: `FOR UPDATE`, a plain UPDATE ("no key update"), a foreign key or
  `FOR KEY SHARE` ("key share"). Rows have ids, and a request that locks several rows
  asks for them one by one, in the order the code names.
* Movements are the ledger; `consumables[i].stock` is the counter that each movement
  increments, guards or sets. A line receives what movements (stock) and assets
  (units) name it.
* Left out: a purchase's free status beyond draft and ordered, suppliers, money,
  positions, categories, status labels, tags, batch asset operations, users as
  delivery targets, consumables that cannot be returned. Seats change only through
  purchase lines: a direct `PATCH` of an application's `seatsPurchased`, which may set
  any number, is not modelled, and would break `SeatsAreApplied` by intent.
* A purchase made from assets takes one line per group (`Grouped`): assets of one model
  share a line, those without a model are grouped by name, which is any grouping. Each
  line is written under a share of the group's live model (`FromAssetsModel`), while the
  assets are locked.
* Every start has a sound location forest. Older data may hold a live location under an
  archived one, which `assertParentAssignable` tolerates (`locations.service.ts:502`);
  `TreeSound` says that no operation makes such a place, not that it repairs one.

### How `AssistantRun` corresponds to the code

* `actor[a]` is the call stack of a worker slot, a request or the sweeper (one
  process runs them all); one action is what happens between two awaits: the claim of
  `advance`, the answer of the open step, the guard, the model's answer with
  `persistStep`, the boundary check, one action per call of the step, the pause; the
  count, the read and the compare-and-set of `resumeIfDecided`, then the enqueue; the
  compare-and-set of `finalize`, the closing of the calls, the answer of the open
  step. The model's answer is a choice: nothing (an error), text, or one of `CallSets`.
* `history` is the provider messages in order; a step record is a message's `linked`
  flag: before the pause the record names no rows, so whoever answers the step then
  gives every call the fallback. `told` is what the model is told of each call.
* `invocations[i].done` counts the times the change behind a write was made: it is
  the world outside, not a column.
* `SUCCEEDED` and `FAILED` of a run are one status, `FINISHED`: nothing distinguishes
  them but a text. A principal that lost `ai:use` and an assistant that was switched
  off are one flag, `allowed`.
* A job is a count per run: ids only merge duplicates, and a job too many is the
  worse case. Faults: `crash` (all stacks are lost, held jobs are delivered again),
  `broker` (an enqueue is refused), `throw` (a database call fails), `disallow`. What a
  failing call does depends on where it is: an outcome that cannot be recorded leaves the
  row executing, and the loop takes the call for one that waits (`RecordFails`);
  `failUnexpectedly` goes on without a row it could not mark (`MarkFails`), a `finalize`
  without a call it could not close but not without what it must read (`CloseFails`);
  anywhere else the error reaches the top (`Escapes`).
* The sweeper reaches every row and run: the batch of a pass (`AI_SWEEP_BATCH`, no order)
  is not modelled.
* Left out: the headless channel (no approvals), conversation settings and their
  read-only state, idempotency keys, token, rate and mutation limits, previews and
  step-up refusals (the card stays pending), streaming.

## 3. Runs

| Run | Question | Instance |
|---|---|---|
| `step_graphs` | Does the schema's cycle check accept exactly the acyclic graphs (`VerdictRight`)? Can a walk of a valid graph visit a step twice (`NoStepTwice`)? What ends a walk is then never the orchestrator's cap of 200 iterations, unless automatic retries that the broker refused are made in process: each of those is an iteration too. | every graph of three steps, the middle one possibly manual: each edge to any step or terminal |
| `engine_requests` | With two concurrent requests: one driver per run (`SingleDriver`), one live run per lineage (`OneLiveRun`), no step executed that the run's own rows and tasks do not lead to (`NoStepSkipped`), every run keeps to its lifecycle (`ImplementsLifecycle`)? | two runs, two versions, two slots, two requests, one crash or refusal, the grant revoked at any time |
| `engine_one_request` | One request at a time: is an attempt recorded once (`UniqueRows`), is a create repeated in the run that recorded it (`NoRepeatInRun`)? | two runs and versions, create then an idempotent sync with one automatic retry; two requests, one crash or refusal |
| `engine_live` | Under fairness: a PENDING run starts (`PendingLeaves`), a RUNNING run leaves RUNNING (`RunningLeaves`), a resolved run resumes (`ResolvedLeaves`) | one manual step, three requests, one crash or refusal |
| `engine_faulty` | Under database errors and lost locks: types (`TypeOK`), and every cursor a step of its run's version (`CursorsKnown`) | compensation, pause and escalation; two faults, a revoke-triggered workflow |
| `access` | However requests cross: an administrator is left (`LastAdmin`) and none has a password somebody lesser handed out (`NoHandedAdmin`); wrapped keys belong to members (`KeysHeldByMembers`); an assignment is released once (`ReleasedOnce`); connections and tokens agree (`ConnectionsSound`); the last revocation deprovisions (`LastRevocationDeprovisions`); a revocation is final (`RevocationFinal`); an offboarding leaves nothing behind at its commit (`OffboardComplete`); requests are decided once (`ImplementsBoard`) | two people, two applications with the two policies, one asset, two vaults; 17 starts, each with the kinds of requests that share rows; three handlers, the sweeper, three requests, one rollback |
| `procurement` | Types with the column's ceiling (`TypeOK`); counter and ledger agree (`StockIsLedger`); returns stay within a delivery (`ReturnsWithinDelivery`); seats are what was applied, in total and application by application (`SeatsAreApplied`); a purchase stays identified (`PurchaseIdentified`); what arrived stays on a line of its kind (`ReceiptsMatchLine`); no arrived unit is cancelled (`NeverCancelsArrived`); the location tree stays a tree (`TreeSound`); a delete strands nothing (`NothingStranded`); only deletes take part in a deadlock (`OnlyDeletesDeadlock`) | two consumables, two licensed applications, two purchases with two lines, two assets, three locations, two models; a ceiling of 2; three handlers, three requests, one rollback |
| `assistant` | One slot drives a run, alone (`OneDriver`); every call of the model is answered (`EveryCallAnswered`); a write is executed at most once and never while it waits or after it was rejected, expired or cancelled (`WritesOnce`); one run at a time, each keeping to its lifecycle (`ImplementsAssistant`) | two runs of two steps, two slots, two requests at a time, the sweeper; three requests or faults, of which one crash or job the broker refuses, none of them after the second run was submitted |
| `assistant_live` | Under fairness: every run of the assistant ends and no call stays undecided (`NothingHangs`) | one run, one slot, writes and forms, three requests or faults, of which two crashes, refusals, errors or switch-offs |

Each property fails when a guard, a lock or a reset of the code is dropped: for every
property `PROJECT.json` names such a change ("mutants"), and the modules keep the
changed definition, marked as a mutant, beside the original.

**Bounds.** Three steps and two versions let every kind of edge meet every other;
two slots and two requests are what a race on a claim needs, and a third would have
to race both. Three handlers are what the worst interleavings of the access and
purchase rules need: a check, its commit, and the commit that comes in between; three
handlers also close a circle of waiting. Rows are two of each kind where a rule
compares two (lines of a purchase, grants of a person), and one elsewhere. A ceiling of
2 makes the limits of every counter reachable. `assistant` needs two runs because the
late end of one crosses the next, and two slots because the job of one run may be held
while another is claimed; two steps are the fewest with a call, as the last step of a
run never calls. Two requests at a time let a decision cross another decision, a form's
answer or a cancel. Two action constraints keep the second run small: once it is
submitted nobody disturbs it (`LastRunUndisturbed`), and its message comes when no other
request is at work, but for one that has just ended the run before it
(`LastSubmitAlone`). So requests and faults meet the first run, the lapse of a card and
the sweeper both, and the second shows what the first left behind; the theorems on
`AssistantRun` have neither bound. A step makes one call in the runs; the
theorems hold for steps with any number of calls. One fault is enough to strand each kind
of state of the engine: what recovers from a second one is the same sweeper.
`assistant_live` has two. `engine_one_request` has a single client because with two
`NoRepeatInRun` is *false*, see below; the race of two retries is the subject of
`engine_requests`. Deadlock checking is off: when the bounds are used up and every run
has ended the system may stop. What Postgres calls a deadlock is part of the models
(`Deadlocked`).

**Fairness.** Of the engine, `FairSpec` assumes weak fairness of a worker slot that can
act (the event loop), of a request that has begun, of each reconciler (it runs every
minute) and of the broker's stalled-job check. Of the assistant: weak fairness of the
slots (a model call has a timeout), of requests in progress, of the sweeper's pass and
of the lapse of a card (its time runs out); strong fairness of the start of each
reconciler, because a pass runs all five one after the other: while one is busy the
others are disabled, and a pass that comes every minute reaches each of them.
Nothing is assumed of operators (they need not act, nor decide on a card), of the
broker's eviction, of the environment, or of faults.

### Where the code does not do what its comments say

| Run | What TLC shows |
|---|---|
| `resume_twice` | The reconciler re-enqueues a resume under an id of its own. If the live resume runs first and the run pauses at the next manual step, the duplicate claims that pause, whose task nobody resolved, and walks from the old cursor. |
| `replay_alternating` | No concurrency: replay, let the replay fail after its create, retry the first run. The guard reads only the rows of the run it replays, and a FAILED run of the lineage does not block: the account is created twice. |
| `half_offboarded` | A grant that was checked before an offboarding is written after it: the person is deleted and holds a grant. |

Also reachable in the models, without a run of their own.

*Engine.*
- Two retries read the same failed `create`; one completes it and fails at the next
  step; the other's claim tests only `FAILED` and runs `create` again
  (`NoDoubleProvision`, graph `Linear`, two clients; `orchestrator.ts:249`).
- The replay guard compares array positions; with explicit edges a create listed after
  the failed step may have run before it (`ReplaySafe`, versions `Backward`;
  `orchestrator.ts:974`).
- A retry enqueue that is deduplicated against the finished job of an earlier retry with
  the same attempt number: the run waits for the staleness reconciler, which fails it
  without naming a step.
- The late clear of one retry erases the marker a second retry's rollback relies on.
- A start job that ended in two database errors (or two crashes) swallows the sweeper's
  re-enqueue until the broker forgets it, and the run stays PENDING: `engine_live` holds
  with one fault, not with two.
- A replay judged safe before the source run's retry completed its create; a retry job
  redelivered after its lock expired, walking beside the slot that lost it.

*Access.*
- A deactivation that read the person inactive does not bump the session epoch; if a
  reactivation, a consent and an exchange commit in between, a later reactivation revives
  the connection (`NeverRevived`, five requests).
- An authorization code replayed between its burn and the link of its connection revokes
  nothing.
- An offboarding re-records an assignment that somebody released meanwhile (its update is
  not guarded), which is why `ReleasedOnce` leaves offboardings out.
- Batch revocations whose lists are in opposite order, a batch and an offboarding, or a
  refresh and a disconnection can deadlock: one of them is rolled back whole, where the
  batch's comment (AUD-043) says a row that lost its race "is skipped too".
- An offboarding revokes grants without a deprovision run, while
  `access-grant-expiry.sweeper.ts` says its own revocation is "EXACTLY as an offboarding
  revoke".
- The sweeper revokes a grant whose expiry was extended after it was listed; a grant
  created between the count of a revoke and its commit is deprovisioned with it.
- Check-outs and new vaults, like grants, can land on a person who was offboarded
  meanwhile.

*Procurement.*
- An unlink of assets, or a link that moves them, holds the assets and waits for the
  purchase, while a delete of the location holds the purchase and waits for the assets:
  a deadlock that `parent-row-lock.ts:20-21` and `asset-models.service.ts:282-284` rule
  out. So do a model delete beside a line's mapping or an asset's change of model, and a
  delivery, a location delete and a receipt in a circle of three.
- Receiving units checks the line once, without a lock: a unit may land on a line that
  was removed. Restoring an asset does not look at its line or location.
- Two receipts pass the read of the counter's ceiling, and the increment of the second
  errors in its transaction, where the comment says it can never "hit a P2020
  mid-transaction". An IN increments by id, also an item archived meanwhile.
- An asset is created with a model that was checked before the model was deleted.
- Between a location delete's scan of purchases and its commit, an unlink, a link that moves
  assets, a removed asset, a line that is added, removed or changed, or a restored
  purchase opens a purchase again, which stays at the deleted location: the delete locks
  only the purchases that were open, and these requests do not look at the location.
  `NothingStranded` leaves them out (`Reopening`).
- An asset restored while its location is deleted stays there, and one restored on a line
  after a cancellation has counted makes the line exceed its quantity, for restoring
  locks neither. `NothingStranded` and `NeverCancelsArrived` leave the restore out.
- A licence line that is mapped to another application leaves the seats it applied where
  they are (`updateLine`'s comment says so of the line's count): the totals still agree,
  application by application only without such a mapping.
- `updateLine` may set the cancelled quantity to the whole quantity, arrived units
  included.

*Assistant.*
- A run that was cancelled answers the conversation's open step whatever run it belongs
  to. If the next run has already begun a step, its write is executing by automatic
  approval and the model is told "not executed" (`NeverDenied`; the comment at
  `run-lifecycle.ts:86` says an executing call is never answered so). When that run
  appends its own results, the step has two answers (`AnsweredOnce`; "concurrent callers
  answer it exactly once", `run-lifecycle.ts:323-328`).
- `resumeIfDecided` counts, then reads the run, then compares the status only: a count
  taken in one pause resumes the run in the next one, whose card is undecided
  (`ResumeOnlyDecided`, three steps and two actors).
- With database errors, the resume at the end of a pause can throw after another slot
  has taken the run on; `failUnexpectedly` then fails that run under the other slot's
  feet (`OneDriver` and `EveryCallAnswered` with `throw`; they are checked without it).

## 4. Proofs

Assumptions of all of them: the named ASSUMEs on the constants (a version is a
valid step graph, bounds are naturals), nothing about their size.

* `StepGraphProofs!VerdictRightAlways` and `NoStepTwiceAlways`: `Spec => []VerdictRight`
  and `Spec => []NoStepTwice` for the check and the walk together, for any set of step
  arrays of any length. `SearchInv` is the argument of a depth-first search: the gray
  steps are the frames of the stack, each one edge above the next, so an edge back to a
  gray step closes a cycle; the edges a frame is done with lead to black steps, so a step
  turns black after everything it leads to, and no set of black steps leads back into
  itself. When the search ends without a cycle every step is black. The walk's part says
  that the visited steps are a chain of edges which the cursor continues: if a step came
  back, the steps between its two visits would be a set of the kind the verdict excludes.
* `WorkflowRunProofs!TypeCorrect` and `CursorsAlwaysKnown`: `Spec => []TypeOK` and
  `Spec => []CursorsKnown`, for any number of runs, slots and requests, any valid
  versions and every kind and number of faults. Neither is inductive: a walk that
  is to record needs its outcome, a resume needs the edges of its graph, a replay
  in progress needs the version it will pin. `TInv` adds what a walk and a request
  hold at each program counter (`WalkHolds`, `RequestHolds`). The proof has one
  lemma per action. Two facts carry it: a step is `Stable` (runs are never unborn
  and a born run never changes its version), so what was known stays known, and it
  is `Changed` only where it says so, so each action answers for one slot, one
  request or one job.
* `WorkflowRunProofs!NoStepEverSkipped`: `Spec => []NoStepSkipped`, under the same
  generality and every fault. The property speaks of the walks that execute; what brings
  them there is passed from hand to hand, so `Brought` says it of every hand: the cursors
  of walks, of waiting, active and finished jobs, of the run's error, its tasks and the
  requests under way are led to by the run's rows and resolved tasks. What led somewhere
  keeps leading there (`LedStays`), because a born run keeps its version, its rows and its
  resolved tasks (`Remembers`), so each action answers only for the cursor it brings.
* `WorkflowRunProofs!SingleDriverAlways`, `LifecycleImplemented` and
  `OneLiveRunAlways`: the other properties of `engine_requests`, for any number of
  runs, slots, requests, crashes and refused enqueues. They assume
  `FaultKinds \subseteq {"crash", "broker"}`: with a lost lock or a database error
  they do not hold (`failRunSafely` fails a run somebody else drives).
  `SingleDriver` is not inductive. It says nothing of what lets a driver in, nor of
  why a walk that ends leaves no driver behind. `DInv` adds
  - `Slots`: a slot owns an active job, no two slots the same one, and no job is both
    waiting and active, so the broker redelivers no job that is being walked;
  - `RetryWalk`: a walk begun by a retry job has recorded the job's attempt before it
    leaves the run, so its own job, still active, does not drive the run again;
  - `Refusing`: the grant a walk found gone stays gone.

  Most steps bring no driver to any run (`Quiet`, then `QuietRun`); a handover (claim
  to walk, walk to re-enqueued job, request to job, walk to job by a crash) gives the
  run from one driver to the next. The unguarded status writes (`Settle`, `Pause`)
  are made by a walk that is alone with a RUNNING run, so they follow an edge of
  `RunLifecycle`; the lifecycle alone then keeps one run live.

* `AccessProofs!LastAdminHolds` and `NoHandedAdminHolds`: for any number of people,
  handlers, requests and rollbacks, and any starts that satisfy the named ASSUMEs. A
  demotion, a deactivation or an offboarding writes without looking again, so `LastAdmin`
  is not inductive. `AdminInv` adds
  - `Guarded`: the lock on the set of administrators has one holder, and a request that has
    passed the check (`Removing`) holds it and leaves another usable administrator;
  - `Carried`: what an update or a reset is about to write is one of the writes there are;
  - `ClientShape`: every handler has a request record.

  Nothing takes another administrator away meanwhile, because whoever could would have to
  hold the lock. `NoHandedAdmin` needs no lock of its own: the reset re-reads the role of
  the row it has locked, and the promotion revokes the passwords of the row it has
  locked, so whichever commits second sees the first. All operations that touch neither
  roles nor passwords are handled at once: they keep the table of users or change it
  harmlessly (`Kept`), and hold no part of the protocol (`Quiet`).

* The rest of `AccessProofs`: eight theorems, on one invariant. `AccessInv` types the tables and says
  of every request in progress what it is about (`Subject`), what it has staged
  (`Staging`), and which locks it holds where it stands (`Standing`); `Exclusive` says that
  a lock has one holder, a share of a vault apart. The starts are any that
  `StartsAssumption` admits. One lemma per action shows that its request stays in order
  (`Advances`); what the others hold survives because tables only grow (`Grown`). On it:
  - `AccessTypes`: `TypeOK`.
  - `RevocationsFinal`: whatever has staged a grant finds it active at its commit
    (`StagedActive`), since it re-read the row it had locked.
  - `AccessImplementsBoard`: the refinement of `RequestBoard`, step by step.
  - `AssignmentsReleasedOnce`: without offboardings, whose update is unguarded.
  - `KeysHeld`: a member is added under a share of the vault's lock (`Sharing`), so no
    deletion of the vault or of the person comes in between.
  - `OffboardsComplete`: from the lock on the person on, every active grant of hers is
    staged or still ahead in the list (`Covering`).
  - `LastRevocations`: a revoke that has counted under the pair's lock, and another that
    still will, see each other (`Watching`, `Watched`).
  - `ConnectionsAreSound`: a rotation works on the token it locked, a deletion on the
    connection it locked, a code on the connection linked to it (`TokensSound`, `Rotating`,
    `Deleting`, `Linked`).
* `ProcurementProofs`: six of the properties of `procurement`, for any tables a behaviour
  may start from and any number of rows, requests and rollbacks. None is inductive: a
  request writes what it read some steps ago. `ProcurementInv` says, per operation, what
  was read and which lock keeps it true (`Moving`, `Clearing`, `Removing`, `Updating`,
  `Cancelling`, `Applying`, `Linking`), and that no two requests hold locks that exclude
  one another (`LocksExclude`). A step then has two obligations: its own request is in
  order afterwards, and no other request is disturbed, table by table (`Undisturbed`).
  Most writes are `Modest`: they take nothing anybody relies on. Four are not, and each is
  answered by the locks it holds: the removal and the update of a line by its purchase and
  the line, seats by line and application, a movement by its item and its delivery. Sums are
  cardinalities and are proved about by lemmas on one more, one changed or one missing
  summand; the ledger is stated by the level after each movement, which a step extends.

* `ProcurementSafety`: three more, `TreeStaysSound`, `NothingIsStranded` and
  `CancelNeverOvertakes`, on top of `ProcurementInv`. They compare what a request saw with
  what there is when it writes, so `SafetyInv` says of every request (`Careful`) what it has
  locked and read by where it stands: a move or a restore of a location the whole way up
  (`Rearranging`), a delete every child, open purchase and asset there (`Vacating`,
  `VacatingOrders`, `VacatingAssets`), whoever sends something the live row it goes to
  (`Relocating`), a cancellation what it counted (`Remaining`), and so on.
  One lemma per action shows three things at once (`Safely`): its own request is still
  careful, the step strands and cancels nothing wrongly, and the others are spared. A write
  is `Gentle` if it touches only what nobody else may hold (`Owns`, from the lock modes),
  and a gentle write `Spares` every other request. `TreeSound` is an invariant by `Rehung`:
  a forest in which a node is hung below a live one that is not under it stays a forest,
  which needs the witness set of the way up (`WalkedUp`) and no recursion.

* `ProcurementLocks!OnlyDeletesInDeadlocks`: `Spec => []OnlyDeletesDeadlock`, for circles of
  waiting of any length. `OrderInv` says, operation by operation and by
  where a request stands, which locks it holds and which it asks for next (`Orderly`, kept by
  every action: `OrderKept`). From it, every request but a delete of a location or a model
  asks above what it holds (`Keeps`), in the order tree, location, movement, purchase,
  consumable, asset, line, application, the assets in the order of their ids. What does not
  fit that order is harmless (`Harmless`): a share of a location or a reference to a model is refused by
  deletes only, the row of a delivery is asked for again by a return that has it already,
  and a share of a purchase is refused only by one who has the whole purchase, and such a
  request waits for nobody who waits in turn (`WholeWaitsForNone`). So in a circle without
  a delete everybody waits for a row below one that its holder waits for (`Climbs`), and
  the highest row anybody waits for (`HighestOf`) has none above it.

* `AssistantProofs!AssistantTypes` and `AssistantImplements`: `Spec => []TypeOK` and
  `Spec => ImplementsAssistant`, for any number of runs, slots and users and for every
  kind of fault. `Holds` says what an actor has in hand at each program counter: a run
  once it works, a row of that run where it decides, executes or closes one, and at
  `finalize` an end that the statuses it may come from allow. Rows only grow and keep
  what they are about (`Grow`), so what an actor holds stays true while others move.
* `AssistantSafety!AssistantWritesOnce`: `Spec => []WritesOnce`, again under every
  fault, with any number of users deciding and cancelling at once. A row that the sweeper
  closed as of unknown outcome may still be executed by its claimant; of such a row the
  model is told "unknown". By itself the property says nothing of how a write comes to be
  made. `WriteInv` adds that
  one slot at most is in the loop of a run, which is RUNNING or over (`Alone`), that rows
  are told apart by run, step and call and a step's calls are met in order (`Keyed`), that
  a claimed row has one claimant, and what its status says of the write (`Claimed`), and
  that a tool message says "done" only of rows that say so (`Answered`).
* `AssistantSafety!AssistantOneDriver` and `AssistantCallsAnswered`: `[]OneDriver` and
  `[]EveryCallAnswered`, under `"throw" \notin FaultKinds`; with failing database calls
  neither holds (section 3). `TurnInv` joins the two, for each needs the other: only a
  driver of a RUNNING run adds a step (`Undisturbed`, `Driven`, `OneActive`, `Ends`),
  and what it adds is answered by it or by whoever takes the run out of RUNNING (`Turn`).

Only model-checked:

- all liveness (`PendingLeaves`, `RunningLeaves`, `ResolvedLeaves`, `NothingHangs`);
- `UniqueRows` and `NoRepeatInRun`: the run keeps to one request at a time, and an
  invariant over every attempt a run records is not written yet.

Stated, and false in the models: `ReplaySafe` and `NeverRevived`, like the findings of
section 3. No run checks them.

## 5. Not modelled, and the plan

Not modelled: the components of section 1's last list, the handlers' I/O, mapping and
secrets, dry runs, the AI's headless channel and limits, suppliers and catalogue CRUD
(`PROJECT.json` gives the reason for each).

Infrastructure agents, import and directory sync are loops whose steps are almost all
comparison and merging of reported data, one report, file or person at a time; what they
write goes through rows of their own, or through the account operations modelled here.
The rest of the repository is user interface, DTOs, adapters and single-row CRUD: a model
of it would restate the code.

Plan, most important first:

1. **Ledger proofs of the engine**: `UniqueRows`, then `NoRepeatInRun`, on top of `DInv`.
2. **Directory sync** over `Accounts`, and the merge of suppliers beside the purchases.
