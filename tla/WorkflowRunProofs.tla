------------------------- MODULE WorkflowRunProofs -------------------------
(***************************************************************************)
(* The types of the run engine, the cursors it takes its runs up at, and   *)
(* what led to each of them, under every fault; then one driver per run,   *)
(* one live run per lineage, and the lifecycle: what the claims buy when   *)
(* the process may crash and the broker may refuse.  For every set of      *)
(* versions and any number of worker slots, operator requests and replays. *)
(***************************************************************************)
EXTENDS WorkflowRunProperties, WellFoundedInduction, SequenceTheorems, TLAPS

Settled == {"SUCCEEDED", "FAILED", "COMPENSATED"}

\* What a walk holds between two of its steps, besides what it knows of its run.
WalkHolds(x) ==
    /\ x.pc = "claim" => x.cursor = x.job.cursor
    /\ x.pc = "check" => x.cursor = x.job.cursor /\ x.job.kind = "retry"
    /\ x.pc = "settle" => x.out \in Settled
    /\ x.pc = "undoing" => x.todo \subseteq DOMAIN ledger[x.job.run]

RequestHolds(x) == x.pc = "create" => x.version \in DOMAIN Versions

TInv ==
    /\ TypeOK
    /\ CursorsKnown
    /\ \A w \in Workers : WalkHolds(walk[w])
    /\ \A c \in Clients : RequestHolds(client[c])
-----------------------------------------------------------------------------
(***************************************************************************)
(* The step graph.                                                         *)
(***************************************************************************)
\* What the author-time validation gives a version.
LEMMA VersionFacts ==
    ASSUME NEW v \in DOMAIN Versions
    PROVE  /\ Versions[v] \in Seq(StepRecords)
           /\ Len(Versions[v]) \in Nat /\ Len(Versions[v]) >= 1
           /\ DOMAIN Versions[v] = 1 .. Len(Versions[v])
           /\ KeysOf(Versions[v]) \subseteq Keys
           /\ KeysOf(Versions[v]) \cap Terminals = {}
           /\ NoStep \notin KeysOf(Versions[v])
           /\ Versions[v][1].key \in KeysOf(Versions[v])
<1>1. Versions[v] \in Seq(StepRecords) /\ ValidSteps(Versions[v])
  BY VersionsAssumption
<1>2. Len(Versions[v]) \in Nat /\ Len(Versions[v]) >= 1 /\ DOMAIN Versions[v] = 1 .. Len(Versions[v])
  <2>1. Len(Versions[v]) \in 1 .. 50
    BY <1>1 DEF ValidSteps
  <2>2. DOMAIN Versions[v] = 1 .. Len(Versions[v])
    BY <1>1, LenProperties
  <2> QED BY <2>1, <2>2
<1>3. KeysOf(Versions[v]) \subseteq Keys
  BY DEF Keys
<1>4. KeysOf(Versions[v]) \cap Terminals = {}
  BY <1>1 DEF ValidSteps, TargetsKnown, KeysOf
<1>5. NoStep \notin KeysOf(Versions[v])
  BY VersionsAssumption
<1>6. Versions[v][1].key \in KeysOf(Versions[v])
  BY <1>2 DEF KeysOf
<1> QED BY <1>1, <1>2, <1>3, <1>4, <1>5, <1>6

\* An edge of a known step leads to a known step or out of the graph.
LEMMA EdgesKnown ==
    ASSUME NEW v \in DOMAIN Versions, NEW key \in KeysOf(Versions[v])
    PROVE  LET steps == Versions[v]
               i == IndexOf(steps, key)
           IN  /\ i \in DOMAIN steps
               /\ OnSuccess(steps, i) \in KeysOf(steps) \cup {EndSuccess}
               /\ OnFailure(steps, i) \in KeysOf(steps) \cup Terminals
<1> DEFINE steps == Versions[v]
           i == IndexOf(steps, key)
<1>1. i \in DOMAIN steps /\ steps[i].key = key
  BY DEF KeysOf, IndexOf
<1>2. TargetsKnown(steps) /\ DOMAIN steps = 1 .. Len(steps) /\ Len(steps) \in Nat
  BY VersionsAssumption, VersionFacts DEF ValidSteps
<1> HIDE DEF i, steps
<1>3. /\ steps[i].onSuccess \in KeysOf(steps) \cup {EndSuccess, Unset}
      /\ steps[i].onFailure \in KeysOf(steps) \cup FailureTerminals \cup {Unset}
  BY <1>1, <1>2 DEF TargetsKnown
<1>4. i < Len(steps) => steps[i + 1].key \in KeysOf(steps)
  BY <1>1, <1>2 DEF KeysOf
<1>5. OnSuccess(steps, i) \in KeysOf(steps) \cup {EndSuccess}
  BY <1>3, <1>4 DEF OnSuccess
<1>6. OnFailure(steps, i) \in KeysOf(steps) \cup Terminals
  BY <1>3, <1>5 DEF OnFailure, Terminals, FailureTerminals
<1> QED BY <1>1, <1>5, <1>6 DEF i, steps

\* A resolved task hands its run back to a known step or a terminal.
LEMMA ResumeKnown ==
    ASSUME NEW v \in DOMAIN Versions, NEW key \in KeysOf(Versions[v]), NEW res
    PROVE  DeriveResumeCursor(Versions[v], key, res) \in KeysOf(Versions[v]) \cup Terminals
  BY EdgesKnown DEF DeriveResumeCursor, Terminals, FailureTerminals
-----------------------------------------------------------------------------
(***************************************************************************)
(* Natural numbers: least and greatest elements.                           *)
(***************************************************************************)
\* A non-empty set of natural numbers has a least element.
LEMMA LeastElement ==
    ASSUME NEW S \in SUBSET Nat, S # {}
    PROVE  \E n \in S : \A m \in S : n <= m
<1>1. IsWellFoundedOn(OpToRel(<, Nat), Nat)
  BY NatLessThanWellFounded
<1>2. PICK n \in S : \A m \in S : <<m, n>> \notin OpToRel(<, Nat)
  BY <1>1, WFMin
<1>3. OpToRel(<, Nat) = {p \in Nat \X Nat : p[1] < p[2]}
  BY Zenon DEF OpToRel
<1>4. ASSUME NEW m \in S PROVE n <= m
  <2>1. <<m, n>> \notin {p \in Nat \X Nat : p[1] < p[2]}
    BY <1>2, <1>3
  <2>2. ~ (m < n)
    BY <2>1
  <2> QED BY <2>2
<1> QED BY <1>4

\* The attempts of a ledger are bounded.  (By least counterexample: m is the
\* length of the shortest prefix without a bound.)
LEMMA AttemptsBounded ==
    ASSUME NEW rows \in Seq(Rows)
    PROVE  \E b \in Nat : \A i \in DOMAIN rows : rows[i].attempt <= b
<1> DEFINE Bounds(m, b) == \A i \in 1 .. m : rows[i].attempt <= b
           Bad == {m \in 0 .. Len(rows) : ~ \E b \in Nat : Bounds(m, b)}
<1>1. Len(rows) \in Nat /\ DOMAIN rows = 1 .. Len(rows)
  BY LenProperties
<1>2. \A i \in 1 .. Len(rows) : rows[i].attempt \in Nat
  <2>1. \A i \in 1 .. Len(rows) : rows[i] \in Rows
    BY ElementOfSeq
  <2> QED BY <2>1 DEF Rows
<1>3. ASSUME Bad # {} PROVE FALSE
  <2>1. Bad \in SUBSET Nat
    BY <1>1
  <2>2. PICK m \in Bad : \A n \in Bad : m <= n
    <3> HIDE DEF Bad
    <3> QED BY <1>3, <2>1, LeastElement
  <2>3. m \in 0 .. Len(rows) /\ ~ \E b \in Nat : Bounds(m, b)
    OBVIOUS
  <2> HIDE DEF Bad
  <2>4. m # 0
    <3>1. \A i \in 1 .. 0 : rows[i].attempt <= 0
      OBVIOUS
    <3>2. m = 0 => Bounds(m, 0)
      BY <3>1
    <3> QED BY <2>3, <3>2
  <2>5. m - 1 \in 0 .. Len(rows) /\ m \in 1 .. Len(rows)
    BY <1>1, <2>3, <2>4
  <2>6. PICK b \in Nat : Bounds(m - 1, b)
    <3>1. m - 1 \notin Bad
      BY <2>2, <2>3, <1>1
    <3> QED BY <2>5, <3>1 DEF Bad
  <2>7. PICK c \in Nat : b <= c /\ rows[m].attempt <= c
    <3>1. rows[m].attempt \in Nat
      BY <1>2, <2>5
    <3>2. CASE rows[m].attempt <= b
      BY <3>2
    <3>3. CASE ~ (rows[m].attempt <= b)
      BY <3>1, <3>3
    <3> QED BY <3>2, <3>3
  <2>8. ASSUME NEW i \in 1 .. m PROVE rows[i].attempt <= c
    <3>1. CASE i = m
      BY <3>1, <2>7
    <3>2. CASE i # m
      <4>1. i \in 1 .. m - 1 /\ i \in 1 .. Len(rows)
        BY <3>2, <2>5, <1>1
      <4>2. rows[i].attempt <= b /\ rows[i].attempt \in Nat
        BY <4>1, <2>6, <1>2
      <4> QED BY <4>2, <2>7
    <3> QED BY <3>1, <3>2
  <2> QED BY <2>3, <2>8
<1>4. \E b \in Nat : Bounds(Len(rows), b)
  <2>1. Len(rows) \in 0 .. Len(rows)
    BY <1>1
  <2> QED BY <1>3, <2>1
<1> QED BY <1>1, <1>4

\* The next attempt of a step is a natural number, past every recorded one.
LEMMA NextAttemptType ==
    ASSUME NEW r \in Runs, ledger[r] \in Seq(Rows), NEW step
    PROVE  /\ NextAttempt(r, step) \in Nat
           /\ \A i \in DOMAIN ledger[r] :
                 ledger[r][i].step = step => ledger[r][i].attempt < NextAttempt(r, step)
<1> DEFINE tried == {ledger[r][i].attempt :
                       i \in {k \in DOMAIN ledger[r] : ledger[r][k].step = step}}
           above == {b \in Nat : \A m \in tried : m <= b}
<1>1. tried \in SUBSET Nat
  <2>1. \A i \in DOMAIN ledger[r] : ledger[r][i] \in Rows
    BY ElementOfSeq, LenProperties
  <2>2. \A row \in Rows : row.attempt \in Nat
    BY DEF Rows
  <2> QED BY <2>1, <2>2
<1>2. above # {} /\ above \in SUBSET Nat
  <2>1. PICK b \in Nat : \A i \in DOMAIN ledger[r] : ledger[r][i].attempt <= b
    BY AttemptsBounded
  <2>2. b \in above
    BY <2>1
  <2> QED BY <2>2
<1>3. PICK b \in above : \A n \in above : b <= n
  BY <1>2, LeastElement
<1>4. CASE tried = {}
  BY <1>4 DEF NextAttempt
<1>5. CASE tried # {}
  <2>1. b \in tried
    <3> SUFFICES ASSUME b \notin tried PROVE FALSE
      OBVIOUS
    <3> HIDE DEF tried
    <3>0. b \in Nat /\ \A m \in tried : m <= b
      OBVIOUS
    <3>1. \A m \in tried : m \in Nat /\ m < b
      BY <1>1, <3>0
    <3>2. b - 1 \in Nat /\ \A m \in tried : m <= b - 1
      BY <1>5, <3>0, <3>1
    <3>3. b - 1 \in above
      BY <3>2
    <3> QED BY <1>3, <3>0, <3>3
  <2> DEFINE top == CHOOSE n \in tried : \A m \in tried : m <= n
  <2> HIDE DEF tried
  <2>2. top \in tried /\ \A m \in tried : m <= top
    BY <1>3, <2>1
  <2>3. top \in Nat
    BY <2>2, <1>1
  <2>4. NextAttempt(r, step) = 1 + top
    BY <1>5 DEF NextAttempt, tried
  <2> HIDE DEF top
  <2>5. \A m \in tried : m < NextAttempt(r, step)
    BY <2>2, <2>3, <2>4, <1>1
  <2> QED BY <2>3, <2>4, <2>5 DEF tried
<1> QED BY <1>4, <1>5
-----------------------------------------------------------------------------
(***************************************************************************)
(* What is known of a run stays known: runs are not unborn, a born run     *)
(* keeps its version, and the ledger only grows.                           *)
(***************************************************************************)
Stable ==
    \A r \in Runs :
        /\ status[r] # "NONE" => status'[r] # "NONE" /\ version'[r] = version[r]
        /\ DOMAIN ledger[r] \subseteq DOMAIN ledger'[r]

\* The part of TInv a step has to re-establish: what it changed.
Changed ==
    /\ \A w \in Workers :
          walk'[w] = walk[w] \/ (WalkKnown(walk[w]) /\ WalkHolds(walk[w]))'
    /\ \A j \in (waiting \cup active \cup finished)' :
          j \in waiting \cup active \cup finished \/ JobKnown(j)'
    /\ \A r \in Runs : \A i \in DOMAIN tasks'[r] :
          \/ i \in DOMAIN tasks[r] /\ tasks'[r][i].step = tasks[r][i].step
          \/ TaskKnown(r, tasks[r][i])'
    /\ \A c \in Clients :
          client'[c] = client[c] \/ (RequestKnown(client[c]) /\ RequestHolds(client[c]))'

\* A known job stays known: runs and their pinned versions never go away.
LEMMA JobStays ==
    ASSUME Stable, NEW j, JobKnown(j)
    PROVE  JobKnown(j)'
  BY DEF Stable, JobKnown, Born, StepsOf

\* A walk's cursor stays a step of its run's version.
LEMMA WalkStays ==
    ASSUME Stable, NEW x, WalkKnown(x), WalkHolds(x)
    PROVE  WalkKnown(x)' /\ WalkHolds(x)'
  BY JobStays DEF Stable, WalkKnown, WalkHolds, JobKnown, Born, StepsOf

\* A task keeps naming a step of its run's version, whatever its status.
LEMMA TaskStays ==
    ASSUME Stable, NEW r, NEW t, NEW u, TaskKnown(r, t), u.step = t.step
    PROVE  TaskKnown(r, u)'
  BY DEF Stable, TaskKnown, Born, StepsOf

\* A request keeps naming a run and a step that exist.
LEMMA RequestStays ==
    ASSUME Stable, NEW x, RequestKnown(x), RequestHolds(x)
    PROVE  RequestKnown(x)' /\ RequestHolds(x)'
  BY DEF Stable, RequestKnown, RequestHolds, Born, StepsOf

\* The invariant survives a step that is stable, well typed, and changes
\* only what it leaves known.
LEMMA Frame ==
    ASSUME TInv, Stable, TypeOK', Changed
    PROVE  TInv'
<1>1. ASSUME NEW w \in Workers PROVE (WalkKnown(walk[w]) /\ WalkHolds(walk[w]))'
  <2>1. CASE walk'[w] = walk[w]
    <3>1. WalkKnown(walk[w]) /\ WalkHolds(walk[w])
      BY DEF TInv, CursorsKnown
    <3> QED BY <2>1, <3>1, WalkStays
  <2> QED BY <2>1 DEF Changed
<1>2. ASSUME NEW j \in (waiting \cup active \cup finished)' PROVE JobKnown(j)'
  <2>1. CASE j \in waiting \cup active \cup finished
    BY <2>1, JobStays DEF TInv, CursorsKnown
  <2> QED BY <2>1 DEF Changed
<1>3. ASSUME NEW r \in Runs, NEW i \in DOMAIN tasks'[r] PROVE TaskKnown(r, tasks[r][i])'
  <2>1. CASE i \in DOMAIN tasks[r] /\ tasks'[r][i].step = tasks[r][i].step
    <3>1. TaskKnown(r, tasks[r][i])
      BY <2>1 DEF TInv, CursorsKnown
    <3> QED BY <2>1, <3>1, TaskStays
  <2> QED BY <2>1 DEF Changed
<1>4. ASSUME NEW c \in Clients PROVE (RequestKnown(client[c]) /\ RequestHolds(client[c]))'
  <2>1. CASE client'[c] = client[c]
    <3>1. RequestKnown(client[c]) /\ RequestHolds(client[c])
      BY DEF TInv, CursorsKnown
    <3> QED BY <2>1, <3>1, RequestStays
  <2> QED BY <2>1 DEF Changed
<1> QED BY <1>1, <1>2, <1>3, <1>4 DEF TInv, CursorsKnown
-----------------------------------------------------------------------------
(***************************************************************************)
(* The worker.                                                             *)
(***************************************************************************)
\* A walk that is under way: its record, its job and its run.
LEMMA Walking ==
    ASSUME TInv, NEW w \in Workers, walk[w].pc # "idle"
    PROVE  /\ walk[w] \in Walks
           /\ WalkKnown(walk[w]) /\ WalkHolds(walk[w])
           /\ walk[w].job \in Job /\ JobKnown(walk[w].job)
           /\ RunOf(w) \in Runs /\ status[RunOf(w)] # "NONE"
           /\ version[RunOf(w)] \in DOMAIN Versions
           /\ KeysOf(StepsOf(RunOf(w))) \subseteq Keys
<1>1. walk[w] \in Walks /\ WalkKnown(walk[w]) /\ WalkHolds(walk[w])
  BY DEF TInv, TypeOK, CursorsKnown
<1>2. JobKnown(walk[w].job) /\ walk[w].job.run \in Runs /\ status[walk[w].job.run] # "NONE"
  BY <1>1 DEF WalkKnown, JobKnown, Born
<1>3. 0 \notin Runs
  BY DEF Runs
<1>4. walk[w].job \in Job
  BY <1>1, <1>2, <1>3 DEF Walks, NoJob
<1>5. version[RunOf(w)] \in DOMAIN Versions
  BY <1>2 DEF TInv, TypeOK, RunOf
<1> QED BY <1>1, <1>2, <1>4, <1>5, VersionFacts DEF RunOf, StepsOf

\* The step at the cursor of a walk that has one.
LEMMA AtStep ==
    ASSUME TInv, NEW w \in Workers,
           walk[w].pc \in {"build", "inactive", "exec", "record", "requeue"}
    PROVE  walk[w].cursor \in KeysOf(StepsOf(RunOf(w))) /\ walk[w].cursor \in Keys
  BY Walking DEF WalkKnown, RunOf

\* What a step of a walk does to the walks.
Moved(w, pc, cursor, attempt, out, todo) ==
    /\ walk' \in [Workers -> Walks]
    /\ \A v \in Workers : v # w => walk'[v] = walk[v]
    /\ walk'[w].pc = pc
    /\ walk'[w].job = walk[w].job
    /\ walk'[w].cursor = cursor
    /\ walk'[w].attempt = attempt
    /\ walk'[w].out = out
    /\ walk'[w].todo = todo

\* WalkTo moves the program counter of one slot and nothing else of it.
LEMMA WalkToMoved ==
    ASSUME TInv, NEW w \in Workers, NEW pc \in Pcs, WalkTo(w, pc)
    PROVE  Moved(w, pc, walk[w].cursor, walk[w].attempt, walk[w].out, walk[w].todo)
  BY DEF Moved, TInv, TypeOK, WalkTo, Walks

\* The frame of a worker's step.
LEMMA WorkerFrame ==
    ASSUME TInv, Stable, TypeOK', NEW w \in Workers, walk[w].pc # "idle",
           NEW pc, NEW cursor, NEW attempt, NEW out, NEW todo,
           Moved(w, pc, cursor, attempt, out, todo),
           pc # "claim",
           pc = "check" => walk[w].job.kind = "retry" /\ cursor = walk[w].job.cursor,
           pc \in {"build", "inactive", "exec", "record", "requeue"} =>
              cursor \in KeysOf(StepsOf(RunOf(w))),
           pc = "settle" => out \in Settled,
           pc = "undoing" => todo \subseteq DOMAIN ledger'[RunOf(w)],
           \A j \in (waiting \cup active \cup finished)' :
              j \in waiting \cup active \cup finished \/ JobKnown(j)',
           \A r \in Runs : \A i \in DOMAIN tasks'[r] :
              \/ i \in DOMAIN tasks[r] /\ tasks'[r][i].step = tasks[r][i].step
              \/ TaskKnown(r, tasks[r][i])',
           UNCHANGED client
    PROVE  TInv'
<1>1. JobKnown(walk[w].job)'
  <2>1. PICK j : j = walk[w].job
    OBVIOUS
  <2>2. JobKnown(j)'
    BY <2>1, Walking, JobStays
  <2> QED BY <2>1, <2>2 DEF Moved
<1>2. StepsOf(RunOf(w))' = StepsOf(RunOf(w))
  BY Walking DEF Stable, Moved, StepsOf, RunOf
<1>3. WalkKnown(walk[w])'
  BY <1>1, <1>2 DEF WalkKnown, Moved, RunOf
<1>4. WalkHolds(walk[w])'
  BY DEF WalkHolds, Moved, RunOf
<1>5. Changed
  BY <1>3, <1>4 DEF Changed, Moved
<1> QED BY <1>5, Frame

\* claimForStart: PENDING -> RUNNING at the entry step, or nothing.
LEMMA ClaimStartTInv ==
    ASSUME TInv, NEW w \in Workers, ClaimStart(w)
    PROVE  TInv'
<1> DEFINE key == StepsOf(RunOf(w))[1].key
<1>1. walk[w].pc = "claim" /\ RunOf(w) \in Runs
  BY Walking DEF ClaimStart
<1>2. key \in KeysOf(StepsOf(RunOf(w))) /\ key \in Keys /\ key \in Targets
  BY <1>1, Walking, VersionFacts DEF StepsOf, Targets
<1> HIDE DEF key
<1>3. CASE status[RunOf(w)] = "PENDING"
  <2>1. Moved(w, "build", key, walk[w].attempt, walk[w].out, walk[w].todo)
    <3>1. walk' = [walk EXCEPT ![w].pc = "build", ![w].cursor = key]
      BY <1>3 DEF ClaimStart, key
    <3> QED BY <1>2, <3>1, ZenonT(60) DEF Moved, TInv, TypeOK, Walks, Pcs
  <2>2. status' = [status EXCEPT ![RunOf(w)] = "RUNNING"]
    BY <1>3 DEF ClaimStart
  <2>3. Stable
    BY <1>1, <2>2 DEF ClaimStart, Stable, TInv, TypeOK
  <2>4. TypeOK'
    BY <2>1, <2>2 DEF ClaimStart, Moved, TInv, TypeOK, queueVars, envVars, Statuses
  <2> QED BY <1>1, <1>2, <2>1, <2>3, <2>4, WorkerFrame DEF ClaimStart, queueVars
<1>4. CASE status[RunOf(w)] # "PENDING"
  <2>1. Moved(w, "done", walk[w].cursor, walk[w].attempt, walk[w].out, walk[w].todo)
    BY <1>4, WalkToMoved DEF ClaimStart, Pcs
  <2>3. Stable
    BY <1>4 DEF ClaimStart, Stable
  <2>4. TypeOK'
    BY <1>4, <2>1 DEF ClaimStart, Moved, TInv, TypeOK, queueVars, envVars
  <2> QED BY <1>1, <2>1, <2>3, <2>4, WorkerFrame DEF ClaimStart, queueVars
<1> QED BY <1>3, <1>4

\* Appending a row keeps the ledger's type and only adds to it.
LEMMA RowAppended ==
    ASSUME TInv, NEW r \in Runs, NEW step \in Keys, NEW attempt \in Nat,
           NEW st \in RowStatuses, AppendRow(r, step, attempt, st)
    PROVE  /\ ledger' \in [Runs -> Seq(Rows)]
           /\ \A q \in Runs : DOMAIN ledger[q] \subseteq DOMAIN ledger'[q]
<1> DEFINE row == [step |-> step, attempt |-> attempt, status |-> st]
<1>1. row \in Rows
  BY DEF Rows
<1>2. ledger \in [Runs -> Seq(Rows)]
  BY DEF TInv, TypeOK
<1>3. ledger' = [ledger EXCEPT ![r] = Append(ledger[r], row)]
  BY DEF AppendRow
<1> HIDE DEF row
<1>4. /\ Append(ledger[r], row) \in Seq(Rows)
      /\ Len(Append(ledger[r], row)) = Len(ledger[r]) + 1
  BY <1>1, <1>2, AppendProperties
<1>5. ledger' \in [Runs -> Seq(Rows)]
  BY <1>2, <1>3, <1>4
<1>6. ASSUME NEW q \in Runs PROVE DOMAIN ledger[q] \subseteq DOMAIN ledger'[q]
  <2>1. CASE q = r
    <3>1. ledger'[q] = Append(ledger[r], row)
      BY <2>1, <1>2, <1>3
    <3>2. Len(ledger[q]) \in Nat /\ DOMAIN ledger[q] = 1 .. Len(ledger[q])
      BY <1>2, LenProperties
    <3>3. DOMAIN ledger'[q] = 1 .. Len(ledger[q]) + 1
      BY <2>1, <3>1, <1>4, LenProperties
    <3> QED BY <3>2, <3>3
  <2>2. CASE q # r
    BY <2>2, <1>2, <1>3
  <2> QED BY <2>1, <2>2
<1> QED BY <1>5, <1>6

\* claimForResume: AWAITING_INPUT -> RUNNING at the cursor of the job, or nothing.
LEMMA ClaimResumeTInv ==
    ASSUME TInv, NEW w \in Workers, ClaimResume(w)
    PROVE  TInv'
<1>1. walk[w].pc = "claim" /\ walk[w].job.kind = "resume" /\ RunOf(w) \in Runs
  BY Walking DEF ClaimResume
<1>2. walk[w].cursor \in KeysOf(StepsOf(RunOf(w))) \cup Terminals
  BY <1>1, Walking DEF WalkHolds, JobKnown, RunOf
<1>3. PICK pc \in {"terminal", "build", "done"} :
         /\ WalkTo(w, pc)
         /\ pc = "build" => ~ IsTerminalTarget(walk[w].cursor)
  BY DEF ClaimResume
<1>4. Moved(w, pc, walk[w].cursor, walk[w].attempt, walk[w].out, walk[w].todo)
  BY <1>3, WalkToMoved DEF Pcs
<1>5. status' = [status EXCEPT ![RunOf(w)] = "RUNNING"] \/ UNCHANGED status
  BY DEF ClaimResume
<1>6. Stable
  BY <1>1, <1>5 DEF ClaimResume, Stable, TInv, TypeOK
<1>7. TypeOK'
  BY <1>4, <1>5 DEF ClaimResume, Moved, TInv, TypeOK, queueVars, envVars, Statuses
<1> QED BY <1>1, <1>2, <1>3, <1>4, <1>6, <1>7, WorkerFrame
        DEF ClaimResume, queueVars, IsTerminalTarget

\* attemptExists: a delivered attempt with a ledger row is a no-op.
LEMMA CheckAttemptTInv ==
    ASSUME TInv, NEW w \in Workers, CheckAttempt(w)
    PROVE  TInv'
<1>1. walk[w].pc = "claim" /\ walk[w].job.kind = "retry"
  BY DEF CheckAttempt
<1>2. walk[w].cursor = walk[w].job.cursor
  BY <1>1, Walking DEF WalkHolds
<1>3. PICK pc \in {"done", "check"} : WalkTo(w, pc)
  BY DEF CheckAttempt
<1>4. Moved(w, pc, walk[w].cursor, walk[w].attempt, walk[w].out, walk[w].todo)
  BY <1>3, WalkToMoved DEF Pcs
<1>6. Stable
  BY DEF CheckAttempt, Stable, dbVars
<1>7. TypeOK'
  BY <1>4 DEF CheckAttempt, Moved, TInv, TypeOK, dbVars, queueVars, envVars
<1> QED BY <1>1, <1>2, <1>4, <1>6, <1>7, WorkerFrame DEF CheckAttempt, queueVars, dbVars

\* The second half of a claim, which reads the status again.
LEMMA CheckRunningTInv ==
    ASSUME TInv, NEW w \in Workers, CheckRunning(w)
    PROVE  TInv'
<1>1. walk[w].pc = "check"
  BY DEF CheckRunning
<1>2. walk[w].cursor \in KeysOf(StepsOf(RunOf(w)))
  BY <1>1, Walking DEF WalkHolds, JobKnown, RunOf
<1>3. PICK pc \in {"done", "build"} : WalkTo(w, pc)
  BY DEF CheckRunning
<1>4. Moved(w, pc, walk[w].cursor, walk[w].attempt, walk[w].out, walk[w].todo)
  BY <1>3, WalkToMoved DEF Pcs
<1>6. Stable
  BY DEF CheckRunning, Stable, dbVars
<1>7. TypeOK'
  BY <1>4 DEF CheckRunning, Moved, TInv, TypeOK, dbVars, queueVars, envVars
<1> QED BY <1>1, <1>2, <1>4, <1>6, <1>7, WorkerFrame DEF CheckRunning, queueVars, dbVars

\* buildContext finds the grant usable, or the run is to be failed.
LEMMA BuildContextTInv ==
    ASSUME TInv, NEW w \in Workers, BuildContext(w)
    PROVE  TInv'
<1>1. walk[w].pc = "build" /\ walk[w].cursor \in KeysOf(StepsOf(RunOf(w)))
  BY AtStep DEF BuildContext
<1>3. PICK pc \in {"exec", "inactive"} : WalkTo(w, pc)
  BY DEF BuildContext
<1>4. Moved(w, pc, walk[w].cursor, walk[w].attempt, walk[w].out, walk[w].todo)
  BY <1>3, WalkToMoved DEF Pcs
<1>6. Stable
  BY DEF BuildContext, Stable, dbVars
<1>7. TypeOK'
  BY <1>4 DEF BuildContext, Moved, TInv, TypeOK, dbVars, queueVars, envVars
<1> QED BY <1>1, <1>4, <1>6, <1>7, WorkerFrame DEF BuildContext, queueVars, dbVars

\* The walk that lost its grant fails the run.
LEMMA FinalizeInactiveTInv ==
    ASSUME TInv, NEW w \in Workers, FinalizeInactive(w)
    PROVE  TInv'
<1>1. walk[w].pc = "inactive" /\ RunOf(w) \in Runs /\ walk[w].cursor \in Targets
  BY Walking DEF FinalizeInactive, Walks
<1>4. Moved(w, "done", walk[w].cursor, walk[w].attempt, walk[w].out, walk[w].todo)
  BY WalkToMoved DEF FinalizeInactive, Pcs
<1>5. /\ status' = [status EXCEPT ![RunOf(w)] = "FAILED"]
      /\ marker' = [marker EXCEPT ![RunOf(w)] = walk[w].cursor]
  BY DEF FinalizeInactive
<1>6. Stable
  BY <1>1, <1>5 DEF FinalizeInactive, Stable, TInv, TypeOK
<1>7. TypeOK'
  BY <1>1, <1>4, <1>5 DEF FinalizeInactive, Moved, TInv, TypeOK, queueVars, envVars, Statuses
<1> QED BY <1>1, <1>4, <1>6, <1>7, WorkerFrame DEF FinalizeInactive, queueVars

\* A walk that begins at a terminal token closes the run.
LEMMA FinalizeTerminalTInv ==
    ASSUME TInv, NEW w \in Workers, FinalizeTerminal(w)
    PROVE  TInv'
<1> DEFINE r == RunOf(w)
           paused == IF tasks[r] # <<>> THEN tasks[r][Len(tasks[r])].step ELSE walk[w].cursor
           cursor == IF walk[w].cursor \in {EndSuccess, Compensate} THEN walk[w].cursor ELSE paused
           pc == IF walk[w].cursor = Compensate THEN "undo" ELSE "settle"
           out == TerminalStatus(walk[w].cursor)
<1>1. walk[w].pc = "terminal" /\ r \in Runs /\ walk[w].cursor \in Targets
  BY Walking DEF FinalizeTerminal, Walks
<1>2. cursor \in Targets
  <2>1. tasks[r] \in Seq(Tasks)
    BY <1>1 DEF TInv, TypeOK
  <2>2. CASE tasks[r] # <<>>
    <3>1. Len(tasks[r]) \in 1 .. Len(tasks[r])
      BY <2>1, <2>2, EmptySeq
    <3>2. tasks[r][Len(tasks[r])] \in Tasks
      BY <2>1, <3>1, ElementOfSeq
    <3> QED BY <1>1, <3>2 DEF Tasks, Targets
  <2> QED BY <1>1, <2>2
<1>3. pc \in Pcs /\ pc \in {"undo", "settle"} /\ out \in Outs /\ out \in Settled
  BY DEF Pcs, Outs, Settled, TerminalStatus
<1>4. walk' = [walk EXCEPT ![w].pc = pc, ![w].out = out, ![w].cursor = cursor]
  BY DEF FinalizeTerminal
<1> HIDE DEF pc, out, cursor
<1>5. Moved(w, pc, cursor, walk[w].attempt, out, walk[w].todo)
  BY <1>2, <1>3, <1>4, ZenonT(60) DEF Moved, TInv, TypeOK, Walks
<1>6. Stable
  BY DEF FinalizeTerminal, Stable, dbVars
<1>7. TypeOK'
  BY <1>5 DEF FinalizeTerminal, Moved, TInv, TypeOK, dbVars, queueVars, envVars
<1> QED BY <1>1, <1>3, <1>5, <1>6, <1>7, WorkerFrame DEF FinalizeTerminal, queueVars, dbVars

\* The step calls the other system, which answers or does not.
LEMMA ExecuteTInv ==
    ASSUME TInv, NEW w \in Workers, Execute(w)
    PROVE  TInv'
<1> DEFINE key == walk[w].cursor
           step == StepAt(StepsOf(RunOf(w)), key)
<1>1. walk[w].pc = "exec" /\ RunOf(w) \in Runs
  BY Walking DEF Execute
<1>2. key \in KeysOf(StepsOf(RunOf(w))) /\ key \in Keys
  BY <1>1, AtStep
<1>3. PICK out \in Outcomes(step, walk[w].attempt) :
         /\ walk' = [walk EXCEPT ![w].pc = "record", ![w].out = out]
         /\ effects' = IF out = "SUCCEEDED" THEN [effects EXCEPT ![key] = @ + 1] ELSE effects
  BY DEF Execute
<1>4. out \in Outs
  BY DEF Outcomes, Outs
<1>5. Moved(w, "record", key, walk[w].attempt, out, walk[w].todo)
  BY <1>3, <1>4, ZenonT(60) DEF Moved, TInv, TypeOK, Walks, Pcs
<1>6. Stable
  BY DEF Execute, Stable, dbVars
<1>7. override' = [override EXCEPT ![RunOf(w)] = NoStep] \/ override' = override
  BY DEF Execute
<1>8. effects' \in [Keys -> Nat]
  BY <1>2, <1>3 DEF TInv, TypeOK
<1> HIDE DEF step, key
<1>9. TypeOK'
  BY <1>5, <1>7, <1>8 DEF Execute, Moved, TInv, TypeOK, dbVars, queueVars, envVars
<1> QED BY <1>1, <1>2, <1>5, <1>6, <1>9, WorkerFrame DEF Execute, queueVars, dbVars

\* The facts a record step needs of its walk.
LEMMA Recording ==
    ASSUME TInv, NEW w \in Workers, walk[w].pc = "record"
    PROVE  /\ RunOf(w) \in Runs
           /\ walk[w].cursor \in KeysOf(StepsOf(RunOf(w))) /\ walk[w].cursor \in Keys
           /\ walk[w].attempt \in Nat
           /\ Edge(w) \in KeysOf(StepsOf(RunOf(w))) \cup Terminals
           /\ walk[w].out = "SUCCEEDED" =>
                 Edge(w) \in KeysOf(StepsOf(RunOf(w))) \cup {EndSuccess}
           /\ KeysOf(StepsOf(RunOf(w))) \subseteq Keys
           /\ KeysOf(StepsOf(RunOf(w))) \cap Terminals = {}
<1>1. /\ RunOf(w) \in Runs /\ version[RunOf(w)] \in DOMAIN Versions
      /\ walk[w].attempt \in Nat /\ walk[w].cursor \in KeysOf(StepsOf(RunOf(w)))
      /\ walk[w].cursor \in Keys
  BY Walking, AtStep DEF Walks
<1>2. Edge(w) \in KeysOf(StepsOf(RunOf(w))) \cup Terminals
  BY <1>1, EdgesKnown DEF Edge, StepsOf, Terminals
<1>3. walk[w].out = "SUCCEEDED" => Edge(w) \in KeysOf(StepsOf(RunOf(w))) \cup {EndSuccess}
  BY <1>1, EdgesKnown DEF Edge, StepsOf
<1> QED BY <1>1, <1>2, <1>3, VersionFacts DEF StepsOf

\* A slot that is given a new walk record has moved to its fields.
LEMMA WalkReplaced ==
    ASSUME TInv, NEW w \in Workers, NEW x \in Walks, x.job = walk[w].job,
           walk' = [walk EXCEPT ![w] = x]
    PROVE  Moved(w, x.pc, x.cursor, x.attempt, x.out, x.todo)
  BY DEF Moved, TInv, TypeOK

\* A walk that goes on at another step.
LEMMA AdvanceMoved ==
    ASSUME TInv, NEW w \in Workers, NEW edge \in Targets,
           walk' = [walk EXCEPT ![w].pc = "exec", ![w].cursor = edge,
                                ![w].attempt = 1, ![w].out = ""]
    PROVE  Moved(w, "exec", edge, 1, "", walk[w].todo)
<1>1. walk[w] \in Walks /\ walk \in [Workers -> Walks]
  BY DEF TInv, TypeOK
<1>2. "exec" \in Pcs /\ "" \in Outs /\ 1 \in Nat
  BY DEF Pcs, Outs
<1>3. PICK x : x = [walk[w] EXCEPT !.pc = "exec", !.cursor = edge, !.attempt = 1, !.out = ""]
  OBVIOUS
<1>4. walk' = [walk EXCEPT ![w] = x]
  BY <1>1, <1>3
<1>5. /\ x \in Walks
      /\ x.pc = "exec" /\ x.job = walk[w].job /\ x.cursor = edge
      /\ x.attempt = 1 /\ x.out = "" /\ x.todo = walk[w].todo
  BY <1>1, <1>2, <1>3 DEF Walks
<1>6. Moved(w, x.pc, x.cursor, x.attempt, x.out, x.todo)
  BY <1>4, <1>5, WalkReplaced
<1> QED BY <1>5, <1>6

\* A MANUAL step parks the run: task, ledger row and status together.
LEMMA PauseTInv ==
    ASSUME TInv, NEW w \in Workers, Pause(w)
    PROVE  TInv'
<1>0. PICK r, task : r = RunOf(w) /\ task = [step |-> walk[w].cursor, status |-> "PENDING"]
  OBVIOUS
<1>1. /\ walk[w].pc = "record" /\ r \in Runs /\ status[r] # "NONE"
      /\ walk[w].cursor \in KeysOf(StepsOf(r)) /\ walk[w].cursor \in Keys
      /\ walk[w].attempt \in Nat
  BY <1>0, Recording, Walking DEF Pause
<1>2. /\ status' = [status EXCEPT ![r] = "AWAITING_INPUT"]
      /\ tasks' = [tasks EXCEPT ![r] = Append(tasks[r], task)]
      /\ AppendRow(r, walk[w].cursor, walk[w].attempt, walk[w].out)
      /\ walk[w].out \in RowStatuses
  BY <1>0 DEF Pause, OpenTask, RowStatuses
<1>3. /\ ledger' \in [Runs -> Seq(Rows)]
      /\ \A q \in Runs : DOMAIN ledger[q] \subseteq DOMAIN ledger'[q]
  BY <1>1, <1>2, RowAppended
<1>4. tasks \in [Runs -> Seq(Tasks)] /\ task \in Tasks
  BY <1>0, <1>1 DEF TInv, TypeOK, Tasks, TaskStatuses
<1>5. /\ Append(tasks[r], task) \in Seq(Tasks)
      /\ Len(Append(tasks[r], task)) = Len(tasks[r]) + 1
      /\ \A i \in 1 .. Len(tasks[r]) : Append(tasks[r], task)[i] = tasks[r][i]
      /\ Append(tasks[r], task)[Len(tasks[r]) + 1] = task
  BY <1>1, <1>4, AppendProperties
<1>6. tasks' \in [Runs -> Seq(Tasks)]
  BY <1>2, <1>4, <1>5
<1>7. Moved(w, "done", walk[w].cursor, walk[w].attempt, walk[w].out, walk[w].todo)
  BY WalkToMoved DEF Pause, Pcs
<1>8. Stable
  BY <1>1, <1>2, <1>3 DEF Pause, Stable, TInv, TypeOK
<1>9. TypeOK'
  BY <1>2, <1>3, <1>6, <1>7 DEF Pause, Moved, TInv, TypeOK, queueVars, envVars, Statuses
<1>10. TaskKnown(r, task)'
  <2>1. task.step \in KeysOf(StepsOf(r))
    BY <1>0, <1>1
  <2>2. version' = version /\ status'[r] # "NONE"
    BY <1>1, <1>2 DEF Pause, TInv, TypeOK
  <2> QED BY <1>1, <2>1, <2>2 DEF TaskKnown, Born, StepsOf
<1>11. ASSUME NEW q \in Runs, NEW i \in DOMAIN tasks'[q]
       PROVE  \/ i \in DOMAIN tasks[q] /\ tasks'[q][i].step = tasks[q][i].step
              \/ TaskKnown(q, tasks[q][i])'
  <2>1. CASE q # r
    BY <2>1, <1>2, <1>4
  <2>2. CASE q = r
    <3>1. tasks'[q] = Append(tasks[r], task)
      BY <2>2, <1>1, <1>2, <1>4
    <3>2. /\ Len(tasks[r]) \in Nat /\ DOMAIN tasks[r] = 1 .. Len(tasks[r])
          /\ DOMAIN tasks'[q] = 1 .. Len(tasks[r]) + 1
      BY <3>1, <1>1, <1>4, <1>5, LenProperties
    <3>3. CASE i = Len(tasks[r]) + 1
      <4>1. tasks'[q][i] = task
        BY <3>1, <3>3, <1>5
      <4> QED BY <4>1, <2>2, <1>10
    <3>4. CASE i # Len(tasks[r]) + 1
      <4>1. i \in 1 .. Len(tasks[r])
        BY <3>2, <3>4
      <4> QED BY <4>1, <3>1, <3>2, <1>5, <2>2
    <3> QED BY <3>3, <3>4
  <2> QED BY <2>1, <2>2
<1> QED BY <1>1, <1>7, <1>8, <1>9, <1>11, WorkerFrame DEF Pause, queueVars

\* A failed attempt with attempts left gets its row, then the re-enqueue.
LEMMA RecordRetryTInv ==
    ASSUME TInv, NEW w \in Workers, RecordRetry(w)
    PROVE  TInv'
<1>1. walk[w].pc = "record" /\ RunOf(w) \in Runs /\ walk[w].cursor \in KeysOf(StepsOf(RunOf(w)))
  BY Recording DEF RecordRetry
<1>2. /\ ledger' \in [Runs -> Seq(Rows)]
      /\ \A q \in Runs : DOMAIN ledger[q] \subseteq DOMAIN ledger'[q]
  BY Recording, RowAppended DEF RecordRetry, RowStatuses
<1>3. Moved(w, "requeue", walk[w].cursor, walk[w].attempt, walk[w].out, walk[w].todo)
  BY WalkToMoved DEF RecordRetry, Pcs
<1>4. Stable
  BY <1>2 DEF RecordRetry, Stable
<1>5. TypeOK'
  BY <1>2, <1>3 DEF RecordRetry, Moved, TInv, TypeOK, queueVars, envVars
<1> QED BY <1>1, <1>3, <1>4, <1>5, WorkerFrame DEF RecordRetry, queueVars

\* A success row moves the cursor along onSuccess.
LEMMA RecordSuccessTInv ==
    ASSUME TInv, NEW w \in Workers, RecordSuccess(w)
    PROVE  TInv'
<1>1. /\ walk[w].pc = "record" /\ walk[w].out = "SUCCEEDED" /\ RunOf(w) \in Runs
      /\ Edge(w) \in KeysOf(StepsOf(RunOf(w))) \cup {EndSuccess}
      /\ Edge(w) \in Targets
  BY Recording DEF RecordSuccess, Targets, Terminals
<1>2. /\ ledger' \in [Runs -> Seq(Rows)]
      /\ \A q \in Runs : DOMAIN ledger[q] \subseteq DOMAIN ledger'[q]
  BY Recording, RowAppended DEF RecordSuccess, RowStatuses
<1>3. Stable
  BY <1>2 DEF RecordSuccess, Stable
<1>4. CASE Edge(w) = EndSuccess
  <2>1. Moved(w, "settle", walk[w].cursor, walk[w].attempt, walk[w].out, walk[w].todo)
    BY <1>4, WalkToMoved DEF RecordSuccess, WalkTo, Pcs
  <2>2. TypeOK'
    BY <1>2, <2>1 DEF RecordSuccess, Moved, TInv, TypeOK, queueVars, envVars
  <2> QED BY <1>1, <1>3, <2>1, <2>2, WorkerFrame DEF RecordSuccess, queueVars, Settled
<1>5. CASE Edge(w) # EndSuccess
  <2>0. PICK edge : edge = Edge(w)
    OBVIOUS
  <2>1. Moved(w, "exec", edge, 1, "", walk[w].todo)
    BY <1>1, <1>5, <2>0, AdvanceMoved DEF RecordSuccess
  <2>2. TypeOK'
    BY <1>2, <2>1 DEF RecordSuccess, Moved, TInv, TypeOK, queueVars, envVars
  <2>3. PICK attempt, out : Moved(w, "exec", edge, attempt, out, walk[w].todo)
    BY <2>1
  <2>5. edge \in KeysOf(StepsOf(RunOf(w)))
    BY <1>1, <1>5, <2>0
  <2>4. UNCHANGED <<client, tasks, waiting, active, finished>>
    BY DEF RecordSuccess, queueVars
  <2> QED BY <1>1, <1>3, <2>2, <2>3, <2>4, <2>5, WorkerFrame
<1> QED BY <1>4, <1>5

\* A failure row takes the edge of onFailure or onError.
LEMMA RecordFailureTInv ==
    ASSUME TInv, NEW w \in Workers, RecordFailure(w)
    PROVE  TInv'
<1>1. /\ walk[w].pc = "record" /\ walk[w].out = "FAILED" /\ RunOf(w) \in Runs
      /\ Edge(w) \in KeysOf(StepsOf(RunOf(w))) \cup Terminals
      /\ Edge(w) \in Targets /\ EndSuccess \in Targets
  BY Recording DEF RecordFailure, Targets, Terminals
<1>2. /\ ledger' \in [Runs -> Seq(Rows)]
      /\ \A q \in Runs : DOMAIN ledger[q] \subseteq DOMAIN ledger'[q]
  BY Recording, RowAppended DEF RecordFailure, RowStatuses
<1>3. Stable
  BY <1>2 DEF RecordFailure, Stable
<1>4. \E pc, cursor, attempt, out :
         /\ pc \in {"undo", "settle", "terminal", "exec"}
         /\ Moved(w, pc, cursor, attempt, out, walk[w].todo)
         /\ pc = "exec" => cursor \in KeysOf(StepsOf(RunOf(w)))
         /\ pc = "settle" => out \in Settled
  <2>1. CASE WalkTo(w, "undo")
    BY <2>1, WalkToMoved DEF Pcs
  <2>2. CASE WalkTo(w, "settle")
    <3>1. Moved(w, "settle", walk[w].cursor, walk[w].attempt, walk[w].out, walk[w].todo)
      BY <2>2, WalkToMoved DEF Pcs
    <3> QED BY <3>1, <1>1 DEF Settled
  <2>3. CASE walk' = [walk EXCEPT ![w].pc = "terminal", ![w].cursor = EndSuccess]
    <3>1. Moved(w, "terminal", EndSuccess, walk[w].attempt, walk[w].out, walk[w].todo)
      BY <1>1, <2>3, ZenonT(60) DEF Moved, TInv, TypeOK, Walks, Pcs
    <3> QED BY <3>1
  <2>4. CASE /\ ~ IsTerminalTarget(Edge(w))
             /\ walk' = [walk EXCEPT ![w].pc = "exec", ![w].cursor = Edge(w),
                                     ![w].attempt = 1, ![w].out = ""]
    <3>1. Moved(w, "exec", Edge(w), 1, "", walk[w].todo)
      BY <1>1, <2>4, AdvanceMoved
    <3>2. Edge(w) \in KeysOf(StepsOf(RunOf(w)))
      BY <1>1, <2>4 DEF IsTerminalTarget
    <3>3. PICK pc, cursor, attempt, out :
             pc = "exec" /\ cursor = Edge(w) /\ attempt = 1 /\ out = ""
      OBVIOUS
    <3>4. Moved(w, pc, cursor, attempt, out, walk[w].todo)
      BY <3>1, <3>3
    <3>5. pc \in {"undo", "settle", "terminal", "exec"}
      BY <3>3
    <3>6. pc = "exec" => cursor \in KeysOf(StepsOf(RunOf(w)))
      BY <3>2, <3>3
    <3>7. pc # "settle"
      BY <3>3
    <3> QED BY <3>4, <3>5, <3>6, <3>7
  <2> QED BY <2>1, <2>2, <2>3, <2>4 DEF RecordFailure
<1>5. PICK pc, cursor, attempt, out :
         /\ pc \in {"undo", "settle", "terminal", "exec"}
         /\ Moved(w, pc, cursor, attempt, out, walk[w].todo)
         /\ pc = "exec" => cursor \in KeysOf(StepsOf(RunOf(w)))
         /\ pc = "settle" => out \in Settled
  BY <1>4
<1>6. TypeOK'
  BY <1>2, <1>5 DEF RecordFailure, Moved, TInv, TypeOK, queueVars, envVars
<1> QED BY <1>1, <1>3, <1>5, <1>6, WorkerFrame DEF RecordFailure, queueVars

\* A job of a known kind for a run that exists may join the queue.
LEMMA Enqueued ==
    ASSUME TInv, Stable, NEW j \in Job, JobKnown(j), Add(j)
    PROVE  /\ waiting' \subseteq Job /\ active' \subseteq Job /\ finished' \subseteq Job
           /\ stalled' \subseteq Job
           /\ \A i \in (waiting \cup active \cup finished)' :
                 i \in waiting \cup active \cup finished \/ JobKnown(i)'
<1>1. JobKnown(j)'
  BY JobStays
<1>2. waiting' \subseteq waiting \cup {j} /\ UNCHANGED <<active, finished, stalled>>
  BY DEF Add
<1>3. ASSUME NEW i \in (waiting \cup active \cup finished)'
      PROVE  i \in waiting \cup active \cup finished \/ JobKnown(i)'
  BY <1>1, <1>2
<1> QED BY <1>2, <1>3 DEF TInv, TypeOK

\* The retry of an attempt is put on the queue.
LEMMA RequeueTInv ==
    ASSUME TInv, NEW w \in Workers, Requeue(w)
    PROVE  TInv'
<1>1. /\ walk[w].pc = "requeue" /\ RunOf(w) \in Runs /\ status[RunOf(w)] # "NONE"
      /\ walk[w].cursor \in KeysOf(StepsOf(RunOf(w))) /\ walk[w].cursor \in Keys
      /\ walk[w].attempt \in Nat
  BY Walking, AtStep DEF Requeue, Walks
<1>2. PICK j : j = RetryJob(RunOf(w), walk[w].cursor, walk[w].attempt + 1)
  OBVIOUS
<1>3. j \in Job /\ JobKnown(j) /\ Add(j)
  BY <1>1, <1>2 DEF Requeue, RetryJob, Job, JobKnown, Born, Targets
<1>4. Moved(w, "done", walk[w].cursor, walk[w].attempt, walk[w].out, walk[w].todo)
  BY WalkToMoved DEF Requeue, Pcs
<1>5. Stable
  BY DEF Requeue, Stable, dbVars
<1>6. /\ waiting' \subseteq Job /\ active' \subseteq Job /\ finished' \subseteq Job
      /\ stalled' \subseteq Job
      /\ \A i \in (waiting \cup active \cup finished)' :
            i \in waiting \cup active \cup finished \/ JobKnown(i)'
  BY <1>3, <1>5, Enqueued
<1>7. TypeOK'
  BY <1>4, <1>6 DEF Requeue, Moved, TInv, TypeOK, dbVars, envVars
<1>8. UNCHANGED <<client, tasks>>
  BY DEF Requeue, dbVars
<1> QED BY <1>1, <1>4, <1>5, <1>6, <1>7, <1>8, WorkerFrame

\* The broker refuses the retry and the job throws.
LEMMA RequeueRefusedTInv ==
    ASSUME TInv, NEW w \in Workers, RequeueRefused(w)
    PROVE  TInv'
<1>1. /\ walk[w].pc = "requeue" /\ walk[w].cursor \in KeysOf(StepsOf(RunOf(w)))
      /\ walk[w].attempt + 1 \in Nat
  <2>1. walk[w].pc = "requeue"
    BY DEF RequeueRefused
  <2>2. walk[w] \in Walks
    BY <2>1, Walking
  <2>3. walk[w].attempt \in Nat
    BY <2>2 DEF Walks
  <2> QED BY <2>1, <2>3, AtStep
<1>2. PICK n \in Nat : n = walk[w].attempt + 1
  BY <1>1
<1>3. PICK x : x = [walk[w] EXCEPT !.pc = "exec", !.attempt = n, !.out = ""]
  OBVIOUS
<1>4. x \in Walks /\ x.pc = "exec" /\ x.job = walk[w].job /\ x.cursor = walk[w].cursor
  BY <1>1, <1>3, Walking DEF Walks, Pcs, Outs
<1>5. walk' = [walk EXCEPT ![w] = x]
  BY <1>2, <1>3 DEF RequeueRefused, TInv, TypeOK
<1>6. Moved(w, x.pc, x.cursor, x.attempt, x.out, x.todo)
  BY <1>4, <1>5, WalkReplaced
<1>7. Stable
  BY DEF RequeueRefused, Stable, dbVars
<1>8. faults' \in Nat
  <2>1. faults \in Nat
    BY DEF TInv, TypeOK
  <2>2. faults' = faults + 1
    BY DEF RequeueRefused, Refused
  <2> QED BY <2>1, <2>2
<1>9. TypeOK'
  BY <1>6, <1>8 DEF RequeueRefused, Moved, TInv, TypeOK, dbVars, queueVars, envVars
<1>10. UNCHANGED <<client, tasks, waiting, active, finished>>
  BY DEF RequeueRefused, queueVars, dbVars
<1> QED BY <1>1, <1>4, <1>6, <1>7, <1>9, <1>10, WorkerFrame

\* A compensation lists the steps that succeeded.
LEMMA ListUndoTInv ==
    ASSUME TInv, NEW w \in Workers, ListUndo(w)
    PROVE  TInv'
<1>1. walk[w].pc = "undo" /\ RunOf(w) \in Runs
  BY Walking DEF ListUndo
<1>2. PICK todo : todo = Succeeded(RunOf(w))
  OBVIOUS
<1>3. todo \subseteq DOMAIN ledger[RunOf(w)] /\ todo \in SUBSET Nat
  <2>1. ledger[RunOf(w)] \in Seq(Rows)
    BY <1>1 DEF TInv, TypeOK
  <2>2. DOMAIN ledger[RunOf(w)] \subseteq Nat
    BY <2>1, LenProperties
  <2> QED BY <2>2, <1>2 DEF Succeeded
<1>4. walk' = [walk EXCEPT ![w].pc = "undoing", ![w].todo = todo]
  BY <1>2 DEF ListUndo
<1>5. Moved(w, "undoing", walk[w].cursor, walk[w].attempt, walk[w].out, todo)
  BY <1>3, <1>4, ZenonT(60) DEF Moved, TInv, TypeOK, Walks, Pcs
<1>6. Stable
  BY DEF ListUndo, Stable, dbVars
<1>7. TypeOK'
  BY <1>5 DEF ListUndo, Moved, TInv, TypeOK, dbVars, queueVars, envVars
<1>8. UNCHANGED <<client, tasks, ledger, waiting, active, finished>>
  BY DEF ListUndo, queueVars, dbVars
<1> QED BY <1>1, <1>3, <1>5, <1>6, <1>7, <1>8, WorkerFrame

\* A compensation row marks one of them undone.
LEMMA RecordUndoTInv ==
    ASSUME TInv, NEW w \in Workers, RecordUndo(w)
    PROVE  TInv'
<1>1. /\ walk[w].pc = "undoing" /\ RunOf(w) \in Runs
      /\ walk[w].todo \subseteq DOMAIN ledger[RunOf(w)]
  BY Walking DEF RecordUndo, WalkHolds, RunOf
<1>2. UNCHANGED <<client, tasks, waiting, active, finished, stalled, status, marker, version,
                  effects, override, grantActive, latest, ops, faults>>
  BY DEF RecordUndo, queueVars, envVars
<1>3. CASE /\ walk' = [walk EXCEPT ![w].pc = "settle", ![w].out = "COMPENSATED"]
           /\ UNCHANGED ledger
  <2>1. Moved(w, "settle", walk[w].cursor, walk[w].attempt, "COMPENSATED", walk[w].todo)
    BY <1>3, ZenonT(60) DEF Moved, TInv, TypeOK, Walks, Pcs, Outs
  <2>2. Stable
    BY <1>2, <1>3 DEF Stable
  <2>3. TypeOK'
    BY <1>2, <1>3, <2>1 DEF Moved, TInv, TypeOK
  <2>4. "COMPENSATED" \in Settled
    BY DEF Settled
  <2> QED BY <1>1, <1>2, <2>1, <2>2, <2>3, <2>4, WorkerFrame
<1>4. CASE \E i \in walk[w].todo :
             /\ AppendRow(RunOf(w), ledger[RunOf(w)][i].step, 1, "COMPENSATED")
             /\ walk' = [walk EXCEPT ![w].todo = @ \ {i}]
  <2>1. PICK i \in walk[w].todo :
             /\ AppendRow(RunOf(w), ledger[RunOf(w)][i].step, 1, "COMPENSATED")
             /\ walk' = [walk EXCEPT ![w].todo = @ \ {i}]
    BY <1>4
  <2>2. ledger[RunOf(w)][i].step \in Keys
    <3>1. ledger[RunOf(w)] \in Seq(Rows) /\ i \in DOMAIN ledger[RunOf(w)]
      BY <1>1 DEF TInv, TypeOK
    <3>2. ledger[RunOf(w)][i] \in Rows
      BY <3>1, ElementOfSeq, LenProperties
    <3> QED BY <3>2 DEF Rows
  <2>3. /\ ledger' \in [Runs -> Seq(Rows)]
        /\ \A q \in Runs : DOMAIN ledger[q] \subseteq DOMAIN ledger'[q]
    BY <1>1, <2>1, <2>2, RowAppended DEF RowStatuses
  <2>4. PICK todo : todo = walk[w].todo \ {i}
    OBVIOUS
  <2>5. todo \in SUBSET Nat /\ todo \subseteq DOMAIN ledger'[RunOf(w)]
    BY <1>1, <2>3, <2>4, Walking DEF Walks
  <2>6. walk' = [walk EXCEPT ![w].todo = todo]
    BY <2>1, <2>4
  <2>7. Moved(w, walk[w].pc, walk[w].cursor, walk[w].attempt, walk[w].out, todo)
    BY <2>5, <2>6, ZenonT(60) DEF Moved, TInv, TypeOK, Walks
  <2>8. Stable
    BY <1>2, <2>3 DEF Stable
  <2>9. TypeOK'
    BY <1>2, <2>3, <2>7 DEF Moved, TInv, TypeOK
  <2> QED BY <1>1, <1>2, <2>5, <2>7, <2>8, <2>9, WorkerFrame
<1> QED BY <1>3, <1>4 DEF RecordUndo

\* The walk writes the final status of the run.
LEMMA SettleTInv ==
    ASSUME TInv, NEW w \in Workers, Settle(w)
    PROVE  TInv'
<1>1. walk[w].pc = "settle" /\ walk[w].out \in Settled /\ walk[w].cursor \in Targets
  BY Walking DEF Settle, WalkHolds, Walks
<1>2. RunOf(w) \in Runs
  BY <1>1, Walking
<1>3. Moved(w, "done", walk[w].cursor, walk[w].attempt, walk[w].out, walk[w].todo)
  BY WalkToMoved DEF Settle, Pcs
<1>4. /\ status' = [status EXCEPT ![RunOf(w)] = walk[w].out]
      /\ marker' = [marker EXCEPT ![RunOf(w)] = walk[w].cursor] \/ UNCHANGED marker
  BY DEF Settle, FailedStep
<1>5. Stable
  BY <1>1, <1>2, <1>4 DEF Settle, Stable, TInv, TypeOK, Settled
<1>6. TypeOK'
  BY <1>1, <1>2, <1>3, <1>4 DEF Settle, Moved, TInv, TypeOK, queueVars, envVars, Statuses, Settled
<1>7. UNCHANGED <<client, tasks, waiting, active, finished>>
  BY DEF Settle, queueVars
<1> QED BY <1>1, <1>3, <1>5, <1>6, <1>7, WorkerFrame

\* An exception ends the walk; the worker fails the run.
LEMMA ThrowTInv ==
    ASSUME TInv, NEW w \in Workers, Throw(w) \/ FailRunSafelyThrows(w)
    PROVE  TInv'
<1>1. PICK pc \in {"safe", "done"} : WalkTo(w, pc)
  BY DEF Throw, FailRunSafelyThrows
<1>2. walk[w].pc # "idle"
  BY DEF Throw, FailRunSafelyThrows
<1>3. Moved(w, pc, walk[w].cursor, walk[w].attempt, walk[w].out, walk[w].todo)
  BY <1>1, WalkToMoved DEF Pcs
<1>4. /\ UNCHANGED <<dbVars, effects, queueVars, client, override, envVars, ops>>
      /\ faults' = faults + 1
  BY DEF Throw, FailRunSafelyThrows
<1>5. Stable
  BY <1>4 DEF Stable, dbVars
<1>6. TypeOK'
  BY <1>3, <1>4 DEF Moved, TInv, TypeOK, dbVars, queueVars, envVars
<1>7. UNCHANGED <<client, tasks, waiting, active, finished>>
  BY <1>4 DEF dbVars, queueVars
<1> QED BY <1>2, <1>3, <1>5, <1>6, <1>7, WorkerFrame

\* failRunSafely: the guarded update to FAILED, and the job is done.
LEMMA FailRunSafelyTInv ==
    ASSUME TInv, NEW w \in Workers, FailRunSafely(w)
    PROVE  TInv'
<1>1. walk[w].pc = "safe" /\ RunOf(w) \in Runs
  BY Walking DEF FailRunSafely
<1>2. Moved(w, "done", walk[w].cursor, walk[w].attempt, walk[w].out, walk[w].todo)
  BY WalkToMoved DEF FailRunSafely, Pcs
<1>3. \/ UNCHANGED <<status, marker>>
      \/ /\ status' = [status EXCEPT ![RunOf(w)] = "FAILED"]
         /\ marker' = [marker EXCEPT ![RunOf(w)] = NoStep]
  BY DEF FailRunSafely
<1>4. Stable
  BY <1>1, <1>3 DEF FailRunSafely, Stable, TInv, TypeOK
<1>5. TypeOK'
  BY <1>1, <1>2, <1>3 DEF FailRunSafely, Moved, TInv, TypeOK, queueVars, envVars, Statuses, Targets
<1>6. UNCHANGED <<client, tasks, waiting, active, finished>>
  BY DEF FailRunSafely, queueVars
<1> QED BY <1>1, <1>2, <1>4, <1>5, <1>6, WorkerFrame

\* A free slot takes a waiting job.
LEMMA TakeTInv ==
    ASSUME TInv, NEW w \in Workers, Take(w)
    PROVE  TInv'
<1>1. Stable
  BY DEF Take, dbVars, Stable
<1>2. PICK j \in waiting :
        /\ waiting' = waiting \ {j}
        /\ active' = active \cup {j}
        /\ walk' = [walk EXCEPT ![w] =
                [IdleWalk EXCEPT !.pc = "claim", !.job = j, !.owns = TRUE,
                                 !.cursor = j.cursor, !.attempt = j.attempt]]
  BY DEF Take
<1>3. j \in Job /\ JobKnown(j)
  BY DEF TInv, TypeOK, CursorsKnown
<1>4. TypeOK'
  BY <1>2, <1>3 DEF Take, TInv, TypeOK, dbVars, envVars, Walks, IdleWalk, Pcs, Job, Outs
<1>5. Changed
  BY <1>1, <1>2, <1>3, JobStays
     DEF Take, dbVars, Changed, TInv, TypeOK, WalkKnown, WalkHolds, IdleWalk
<1> QED BY <1>1, <1>4, <1>5, Frame

\* An idle slot is a walk, and knows of no run.
LEMMA IdleWalkType ==
    IdleWalk \in Walks /\ IdleWalk.pc = "idle" /\ WalkKnown(IdleWalk)' /\ WalkHolds(IdleWalk)'
  BY DEF IdleWalk, Walks, Pcs, Outs, Targets, WalkKnown, WalkHolds

\* The job of an ended walk leaves the active list.
LEMMA FinishTInv ==
    ASSUME TInv, NEW w \in Workers, Finish(w)
    PROVE  TInv'
<1>1. walk' = [walk EXCEPT ![w] = IdleWalk]
  BY DEF Finish
<1>2. /\ walk' \in [Workers -> Walks]
      /\ \A v \in Workers : walk'[v] = walk[v] \/ walk'[v] = IdleWalk
  BY <1>1, IdleWalkType DEF TInv, TypeOK
<1>3. walk[w].job \in Job /\ JobKnown(walk[w].job)
  BY Walking DEF Finish
<1>4. active' \subseteq active /\ finished' \subseteq finished \cup {walk[w].job}
  BY DEF Finish
<1>5. Stable
  BY DEF Finish, Stable, dbVars
<1>6. UNCHANGED <<dbVars, effects, waiting, stalled, client, override, envVars, ops, faults>>
  BY DEF Finish
<1>7. TypeOK'
  BY <1>2, <1>3, <1>4, <1>6 DEF TInv, TypeOK, dbVars, envVars
<1>8. PICK k : k = walk[w].job
  OBVIOUS
<1>9. JobKnown(k)'
  BY <1>3, <1>5, <1>8, JobStays
<1>10. \A v \in Workers :
          walk'[v] = walk[v] \/ (WalkKnown(walk[v]) /\ WalkHolds(walk[v]))'
  <2>1. PICK x : x = IdleWalk
    OBVIOUS
  <2>2. WalkKnown(x)' /\ WalkHolds(x)'
    BY <2>1, IdleWalkType
  <2> QED BY <1>2, <2>1, <2>2
<1>11. \A j \in (waiting \cup active \cup finished)' :
          j \in waiting \cup active \cup finished \/ JobKnown(j)'
  BY <1>4, <1>6, <1>8, <1>9
<1>12. Changed
  BY <1>6, <1>10, <1>11 DEF Changed, dbVars
<1> QED BY <1>5, <1>7, <1>12, Frame

\* A job whose lock ran out goes back while its walk goes on.
LEMMA StallTInv ==
    ASSUME TInv, NEW w \in Workers, Stall(w)
    PROVE  TInv'
<1>1. walk' = [walk EXCEPT ![w].owns = FALSE]
  BY DEF Stall
<1>2. UNCHANGED <<dbVars, effects, queueVars, client, override, envVars, ops>> /\ faults' = faults + 1
  BY DEF Stall
<1>3. /\ walk' \in [Workers -> Walks]
      /\ \A v \in Workers : /\ walk'[v].pc = walk[v].pc /\ walk'[v].job = walk[v].job
                            /\ walk'[v].cursor = walk[v].cursor /\ walk'[v].out = walk[v].out
                            /\ walk'[v].todo = walk[v].todo
  BY <1>1 DEF TInv, TypeOK, Walks
<1>4. Stable
  BY <1>2 DEF Stable, dbVars
<1>5. TypeOK'
  BY <1>2, <1>3 DEF TInv, TypeOK, dbVars, queueVars, envVars
<1>6. ASSUME NEW v \in Workers PROVE (WalkKnown(walk[v]) /\ WalkHolds(walk[v]))'
  <2>1. PICK x : x = walk[v]
    OBVIOUS
  <2>2. WalkKnown(x)' /\ WalkHolds(x)'
    BY <2>1, <1>4, WalkStays DEF TInv, CursorsKnown
  <2>3. PICK j : j = walk[v].job
    OBVIOUS
  <2> QED BY <2>1, <2>2, <2>3, <1>3 DEF WalkKnown, WalkHolds
<1>7. Changed
  BY <1>2, <1>6 DEF Changed, dbVars, queueVars
<1> QED BY <1>4, <1>5, <1>7, Frame
-----------------------------------------------------------------------------
(***************************************************************************)
(* Operator requests.                                                      *)
(***************************************************************************)
\* A request that is under way: its record and its run.
LEMMA Asking ==
    ASSUME TInv, NEW c \in Clients
    PROVE  /\ client[c] \in Requests
           /\ RequestKnown(client[c]) /\ RequestHolds(client[c])
           /\ client[c].pc # "idle" =>
                 /\ client[c].run \in Runs
                 /\ status[client[c].run] # "NONE"
                 /\ version[client[c].run] \in DOMAIN Versions
                 /\ KeysOf(StepsOf(client[c].run)) \subseteq Keys
<1>1. client[c] \in Requests /\ RequestKnown(client[c]) /\ RequestHolds(client[c])
  BY DEF TInv, TypeOK, CursorsKnown
<1>2. ASSUME client[c].pc # "idle"
      PROVE  /\ client[c].run \in Runs /\ status[client[c].run] # "NONE"
             /\ version[client[c].run] \in DOMAIN Versions
  BY <1>1, <1>2 DEF RequestKnown, Born, TInv, TypeOK
<1> QED BY <1>1, <1>2, VersionFacts DEF StepsOf

\* The idle request is well typed and knows nothing.
LEMMA IdleClientType ==
    ASSUME NEW x, x = IdleClient
    PROVE  x \in Requests /\ RequestKnown(x)' /\ RequestHolds(x)'
  BY DEF IdleClient, Requests, ClientPcs, Targets, RequestKnown, RequestHolds

\* The request goes on: another pc, everything else as it was.
LEMMA RequestToType ==
    ASSUME TInv, NEW c \in Clients, NEW pc \in ClientPcs, RequestTo(c, pc)
    PROVE  \E x \in Requests :
              /\ client' = [client EXCEPT ![c] = x]
              /\ x.pc = pc /\ x.run = client[c].run /\ x.step = client[c].step
              /\ x.version = client[c].version
<1>1. PICK x : x = [client[c] EXCEPT !.pc = pc]
  OBVIOUS
<1>2. /\ x \in Requests /\ x.pc = pc /\ x.run = client[c].run /\ x.step = client[c].step
      /\ x.version = client[c].version
  BY <1>1, Asking DEF Requests
<1>3. client' = [client EXCEPT ![c] = x]
  BY <1>1 DEF RequestTo, TInv, TypeOK
<1> QED BY <1>2, <1>3

\* The frame of a request's step.
LEMMA ClientFrame ==
    ASSUME TInv, Stable, TypeOK', NEW c \in Clients,
           NEW x, client' = [client EXCEPT ![c] = x], RequestKnown(x)', RequestHolds(x)',
           \A j \in (waiting \cup active \cup finished)' :
              j \in waiting \cup active \cup finished \/ JobKnown(j)',
           \A r \in Runs : \A i \in DOMAIN tasks'[r] :
              \/ i \in DOMAIN tasks[r] /\ tasks'[r][i].step = tasks[r][i].step
              \/ TaskKnown(r, tasks[r][i])',
           UNCHANGED walk
    PROVE  TInv'
<1>1. \A d \in Clients : client'[d] = client[d] \/ (RequestKnown(client[d]) /\ RequestHolds(client[d]))'
  BY DEF TInv, TypeOK
<1>2. Changed
  BY <1>1 DEF Changed
<1> QED BY <1>2, Frame

\* The step of a run's error is a step of its version.
LEMMA FailedStepKnown ==
    ASSUME NEW steps, NEW key, ResolveFailedStepKey(key, steps) # NoStep
    PROVE  ResolveFailedStepKey(key, steps) \in KeysOf(steps)
  BY DEF ResolveFailedStepKey

\* A retry reads the FAILED run and resolves the step to restart at.
LEMMA RetryReadTInv ==
    ASSUME TInv, NEW c \in Clients, NEW r \in Runs, NEW ov \in BOOLEAN, RetryRead(c, r, ov)
    PROVE  TInv'
<1>1. PICK key : key = ResolveFailedStepKey(marker[r], StepsOf(r))
  OBVIOUS
<1>2. key \in KeysOf(StepsOf(r)) /\ key \in Targets
  <2>1. key \in KeysOf(StepsOf(r))
    BY <1>1, FailedStepKnown DEF RetryRead
  <2>2. version[r] \in DOMAIN Versions
    BY DEF TInv, TypeOK
  <2> QED BY <2>1, <2>2, VersionFacts DEF StepsOf, Targets
<1>3. PICK x : x = [IdleClient EXCEPT !.pc = "count", !.run = r, !.step = key, !.override = ov]
  OBVIOUS
<1>4. /\ x \in Requests /\ x.pc = "count" /\ x.run = r /\ x.step = key
  BY <1>2, <1>3 DEF IdleClient, Requests, ClientPcs
<1>5. client' = [client EXCEPT ![c] = x] /\ status[r] = "FAILED" /\ ops' = ops + 1
  BY <1>1, <1>3 DEF RetryRead, Begin
<1>6. UNCHANGED <<dbVars, effects, queueVars, walk, override, envVars, faults>>
  BY DEF RetryRead
<1>7. Stable
  BY <1>6 DEF Stable, dbVars
<1>8. TypeOK'
  BY <1>4, <1>5, <1>6 DEF TInv, TypeOK, dbVars, queueVars, envVars
<1>9. RequestKnown(x)' /\ RequestHolds(x)'
  BY <1>2, <1>4, <1>5, <1>6 DEF RequestKnown, RequestHolds, Born, StepsOf, dbVars
<1>10. UNCHANGED <<walk, waiting, active, finished, tasks>>
  BY <1>6 DEF dbVars, queueVars
<1> QED BY <1>5, <1>7, <1>8, <1>9, <1>10, ClientFrame

\* A retry counts the attempts of the step it restarts at.
LEMMA RetryCountTInv ==
    ASSUME TInv, NEW c \in Clients, RetryCount(c)
    PROVE  TInv'
<1>1. /\ client[c].pc = "count" /\ client[c].run \in Runs
      /\ status[client[c].run] # "NONE" /\ client[c].step \in KeysOf(StepsOf(client[c].run))
  BY Asking DEF RetryCount, RequestKnown
<1>2. PICK n : n = NextAttempt(client[c].run, client[c].step)
  OBVIOUS
<1>3. n \in Nat
  BY <1>1, <1>2, NextAttemptType DEF TInv, TypeOK
<1>4. PICK x : x = [client[c] EXCEPT !.pc = "claim", !.attempt = n]
  OBVIOUS
<1>5. x \in Requests /\ x.pc = "claim" /\ x.run = client[c].run /\ x.step = client[c].step
  BY <1>3, <1>4, Asking DEF Requests, ClientPcs
<1>6. client' = [client EXCEPT ![c] = x]
  BY <1>2, <1>4 DEF RetryCount, TInv, TypeOK
<1>7. UNCHANGED <<dbVars, effects, queueVars, walk, override, envVars, ops, faults>>
  BY DEF RetryCount
<1>8. Stable
  BY <1>7 DEF Stable, dbVars
<1>9. TypeOK'
  BY <1>5, <1>6, <1>7 DEF TInv, TypeOK, dbVars, queueVars, envVars
<1>10. RequestKnown(x)' /\ RequestHolds(x)'
  BY <1>1, <1>5, <1>7 DEF RequestKnown, RequestHolds, Born, StepsOf, dbVars
<1>11. UNCHANGED <<walk, waiting, active, finished, tasks>>
  BY <1>7 DEF dbVars, queueVars
<1> QED BY <1>6, <1>8, <1>9, <1>10, <1>11, ClientFrame

\* A retry claims the run: FAILED -> RUNNING.
LEMMA RetryClaimTInv ==
    ASSUME TInv, NEW c \in Clients, RetryClaim(c)
    PROVE  TInv'
<1>1. /\ client[c].pc = "claim" /\ client[c].run \in Runs /\ status[client[c].run] # "NONE"
      /\ client[c].step \in KeysOf(StepsOf(client[c].run)) /\ client[c].step \in Keys
  BY Asking DEF RetryClaim, RequestKnown
<1>2. UNCHANGED <<marker, version, ledger, tasks, effects, queueVars, walk,
                  envVars, ops, faults>>
  BY DEF RetryClaim
<1>3. PICK x \in Requests :
         /\ client' = [client EXCEPT ![c] = x]
         /\ \/ x = IdleClient
            \/ x.pc = "enqueue" /\ x.run = client[c].run /\ x.step = client[c].step
  <2>1. CASE Answer(c)
    BY <2>1, IdleClientType DEF Answer
  <2>2. CASE RequestTo(c, "enqueue")
    <3>1. "enqueue" \in ClientPcs
      BY DEF ClientPcs
    <3> QED BY <2>2, <3>1, RequestToType
  <2> QED BY <2>1, <2>2 DEF RetryClaim
<1>4. /\ status' = [status EXCEPT ![client[c].run] = "RUNNING"] \/ UNCHANGED status
      /\ override' = [override EXCEPT ![client[c].run] = client[c].step] \/ UNCHANGED override
  BY DEF RetryClaim
<1>5. Stable
  BY <1>1, <1>2, <1>4 DEF Stable, TInv, TypeOK
<1>6. TypeOK'
  BY <1>1, <1>2, <1>3, <1>4 DEF TInv, TypeOK, queueVars, envVars, Statuses
<1>7. RequestKnown(x)' /\ RequestHolds(x)'
  <2>1. CASE x = IdleClient
    BY <2>1, IdleClientType
  <2>2. CASE x.pc = "enqueue" /\ x.run = client[c].run /\ x.step = client[c].step
    <3>1. x.run \in Runs /\ status'[x.run] # "NONE" /\ version' = version
      BY <1>1, <1>2, <1>5, <2>2 DEF Stable
    <3>2. x.step \in KeysOf(StepsOf(x.run))
      BY <1>1, <2>2
    <3> QED BY <3>1, <3>2, <2>2 DEF RequestKnown, RequestHolds, Born, StepsOf
  <2> QED BY <1>3, <2>1, <2>2
<1>8. UNCHANGED <<walk, waiting, active, finished, tasks>>
  BY <1>2 DEF queueVars
<1> QED BY <1>3, <1>5, <1>6, <1>7, <1>8, ClientFrame

\* The claimed retry is put on the queue.
LEMMA RetryEnqueueTInv ==
    ASSUME TInv, NEW c \in Clients, RetryEnqueue(c)
    PROVE  TInv'
<1>1. /\ client[c].pc = "enqueue" /\ client[c].run \in Runs /\ status[client[c].run] # "NONE"
      /\ client[c].step \in KeysOf(StepsOf(client[c].run)) /\ client[c].step \in Keys
      /\ client[c].attempt \in Nat
  BY Asking DEF RetryEnqueue, RequestKnown, Requests
<1>2. UNCHANGED <<dbVars, effects, walk, override, envVars, ops, faults>>
  BY DEF RetryEnqueue
<1>3. PICK j : j = RetryJob(client[c].run, client[c].step, client[c].attempt)
  OBVIOUS
<1>4. j \in Job /\ JobKnown(j) /\ Add(j)
  BY <1>1, <1>3 DEF RetryEnqueue, RetryJob, Job, JobKnown, Born, Targets
<1>5. Stable
  BY <1>2 DEF Stable, dbVars
<1>6. PICK x \in Requests :
         /\ client' = [client EXCEPT ![c] = x]
         /\ x.pc = "clear" /\ x.run = client[c].run /\ x.step = client[c].step
  BY RequestToType DEF RetryEnqueue, ClientPcs
<1>7. /\ waiting' \subseteq Job /\ active' \subseteq Job /\ finished' \subseteq Job
      /\ stalled' \subseteq Job
      /\ \A i \in (waiting \cup active \cup finished)' :
            i \in waiting \cup active \cup finished \/ JobKnown(i)'
  BY <1>4, <1>5, Enqueued
<1>8. TypeOK'
  BY <1>2, <1>6, <1>7 DEF TInv, TypeOK, dbVars, envVars
<1>9. RequestKnown(x)' /\ RequestHolds(x)'
  BY <1>1, <1>2, <1>6 DEF RequestKnown, RequestHolds, Born, StepsOf, dbVars
<1>10. UNCHANGED <<walk, tasks>>
  BY <1>2 DEF dbVars
<1> QED BY <1>5, <1>6, <1>7, <1>8, <1>9, <1>10, ClientFrame

\* The broker refuses it and the claim is to be given back.
LEMMA RetryEnqueueRefusedTInv ==
    ASSUME TInv, NEW c \in Clients, RetryEnqueueRefused(c)
    PROVE  TInv'
<1>1. /\ client[c].pc = "enqueue" /\ client[c].run \in Runs /\ status[client[c].run] # "NONE"
      /\ client[c].step \in KeysOf(StepsOf(client[c].run))
  BY Asking DEF RetryEnqueueRefused, RequestKnown
<1>2. /\ UNCHANGED <<dbVars, effects, queueVars, walk, override, envVars, ops>>
      /\ faults' = faults + 1
  BY DEF RetryEnqueueRefused, Refused
<1>3. PICK x \in Requests :
         /\ client' = [client EXCEPT ![c] = x]
         /\ x.pc = "rollback" /\ x.run = client[c].run /\ x.step = client[c].step
  BY RequestToType DEF RetryEnqueueRefused, ClientPcs
<1>4. Stable
  BY <1>2 DEF Stable, dbVars
<1>5. TypeOK'
  BY <1>2, <1>3 DEF TInv, TypeOK, dbVars, queueVars, envVars
<1>6. RequestKnown(x)' /\ RequestHolds(x)'
  BY <1>1, <1>2, <1>3 DEF RequestKnown, RequestHolds, Born, StepsOf, dbVars
<1>7. UNCHANGED <<walk, waiting, active, finished, tasks>>
  BY <1>2 DEF dbVars, queueVars
<1> QED BY <1>3, <1>4, <1>5, <1>6, <1>7, ClientFrame

\* RetryClear and RetryRollback: the request ends.
LEMMA RetryEndsTInv ==
    ASSUME TInv, NEW c \in Clients, RetryClear(c) \/ RetryRollback(c)
    PROVE  TInv'
<1>1. client[c].pc # "idle" /\ client[c].run \in Runs
  BY Asking DEF RetryClear, RetryRollback
<1>2. PICK x : x = IdleClient
  OBVIOUS
<1>3. x \in Requests /\ RequestKnown(x)' /\ RequestHolds(x)' /\ client' = [client EXCEPT ![c] = x]
  BY <1>2, IdleClientType DEF RetryClear, RetryRollback, Answer
<1>4. /\ UNCHANGED <<version, ledger, tasks, effects, queueVars, walk, envVars, ops, faults>>
      /\ status' = [status EXCEPT ![client[c].run] = "FAILED"] \/ UNCHANGED status
      /\ marker' = [marker EXCEPT ![client[c].run] = NoStep] \/ UNCHANGED marker
      /\ override' = [override EXCEPT ![client[c].run] = NoStep] \/ UNCHANGED override
  BY DEF RetryClear, RetryRollback, DropOverride
<1>5. Stable
  BY <1>1, <1>4 DEF Stable, TInv, TypeOK
<1>6. TypeOK'
  BY <1>1, <1>3, <1>4 DEF TInv, TypeOK, queueVars, envVars, Statuses, Targets
<1>7. UNCHANGED <<walk, waiting, active, finished, tasks>>
  BY <1>4 DEF queueVars
<1> QED BY <1>3, <1>5, <1>6, <1>7, ClientFrame

\* A replay reads the run it was asked for.
LEMMA ReplayReadTInv ==
    ASSUME TInv, NEW c \in Clients, NEW r \in Runs, ReplayRead(c, r)
    PROVE  TInv'
<1>1. PICK m : m = marker[r]
  OBVIOUS
<1>2. m \in Targets
  BY <1>1 DEF TInv, TypeOK
<1>3. PICK x : x = [IdleClient EXCEPT !.pc = "guard", !.run = r, !.step = m]
  OBVIOUS
<1>4. x \in Requests /\ x.pc = "guard" /\ x.run = r
  BY <1>2, <1>3 DEF IdleClient, Requests, ClientPcs
<1>5. client' = [client EXCEPT ![c] = x] /\ status[r] = "FAILED" /\ ops' = ops + 1
  BY <1>1, <1>3 DEF ReplayRead, Begin
<1>6. UNCHANGED <<dbVars, effects, queueVars, walk, override, envVars, faults>>
  BY DEF ReplayRead
<1>7. Stable
  BY <1>6 DEF Stable, dbVars
<1>8. TypeOK'
  BY <1>4, <1>5, <1>6 DEF TInv, TypeOK, dbVars, queueVars, envVars
<1>9. RequestKnown(x)' /\ RequestHolds(x)'
  BY <1>4, <1>5, <1>6 DEF RequestKnown, RequestHolds, Born, StepsOf, dbVars
<1>10. UNCHANGED <<walk, waiting, active, finished, tasks>>
  BY <1>6 DEF dbVars, queueVars
<1> QED BY <1>5, <1>7, <1>8, <1>9, <1>10, ClientFrame

\* A replay compares the versions and the steps that succeeded.
LEMMA ReplayGuardTInv ==
    ASSUME TInv, NEW c \in Clients, ReplayGuard(c)
    PROVE  TInv'
<1>1. client[c].pc = "guard" /\ client[c].run \in Runs /\ status[client[c].run] # "NONE"
  BY Asking DEF ReplayGuard
<1>2. latest \in DOMAIN Versions
  BY DEF TInv, TypeOK
<1>3. PICK x \in Requests :
         /\ client' = [client EXCEPT ![c] = x]
         /\ \/ x = IdleClient
            \/ x.pc = "create" /\ x.run = client[c].run /\ x.version = latest
  <2>1. CASE Answer(c)
    BY <2>1, IdleClientType DEF Answer
  <2>2. CASE client' = [client EXCEPT ![c].pc = "create", ![c].version = latest]
    <3>1. PICK x : x = [client[c] EXCEPT !.pc = "create", !.version = latest]
      OBVIOUS
    <3>2. x \in Requests /\ x.pc = "create" /\ x.run = client[c].run /\ x.version = latest
      BY <1>2, <3>1, Asking DEF Requests, ClientPcs
    <3>3. client' = [client EXCEPT ![c] = x]
      BY <2>2, <3>1 DEF TInv, TypeOK
    <3> QED BY <3>2, <3>3
  <2> QED BY <2>1, <2>2 DEF ReplayGuard
<1>4. UNCHANGED <<dbVars, effects, queueVars, walk, override, envVars, ops, faults>>
  BY DEF ReplayGuard
<1>5. Stable
  BY <1>4 DEF Stable, dbVars
<1>6. TypeOK'
  BY <1>3, <1>4 DEF TInv, TypeOK, dbVars, queueVars, envVars
<1>7. RequestKnown(x)' /\ RequestHolds(x)'
  <2>1. CASE x = IdleClient
    BY <2>1, IdleClientType
  <2>2. CASE x.pc = "create" /\ x.run = client[c].run /\ x.version = latest
    BY <1>1, <1>2, <1>4, <2>2 DEF RequestKnown, RequestHolds, Born, dbVars
  <2> QED BY <1>3, <2>1, <2>2
<1>8. UNCHANGED <<walk, waiting, active, finished, tasks>>
  BY <1>4 DEF dbVars, queueVars
<1> QED BY <1>3, <1>5, <1>6, <1>7, <1>8, ClientFrame

\* The replay is the next run of the lineage.
LEMMA NextRunUnborn ==
    ASSUME Unborn # {}, NEW n,
           n = CHOOSE r \in Unborn : \A m \in Unborn : r <= m
    PROVE  n \in Runs /\ status[n] = "NONE"
<1>1. Unborn \in SUBSET Nat
  BY RunsAssumption DEF Unborn, Runs
<1>2. \E r \in Unborn : \A m \in Unborn : r <= m
  BY <1>1, LeastElement
<1>3. n \in Unborn
  BY <1>2
<1> QED BY <1>3 DEF Unborn

\* A replay creates a fresh run of the latest version.
LEMMA ReplayCreateTInv ==
    ASSUME TInv, NEW c \in Clients, ReplayCreate(c)
    PROVE  TInv'
<1>1. client[c].pc = "create" /\ client[c].version \in DOMAIN Versions
  BY Asking DEF ReplayCreate, RequestHolds
<1>2. UNCHANGED <<marker, ledger, tasks, effects, queueVars, walk, override,
                  envVars, ops, faults>>
  BY DEF ReplayCreate
<1>3. UNCHANGED <<walk, waiting, active, finished, tasks>>
  BY <1>2 DEF queueVars
<1>4. CASE LineageIdle /\ Unborn # {}
  <2>1. PICK n : n = CHOOSE r \in Unborn : \A m \in Unborn : r <= m
    OBVIOUS
  <2>2. n \in Runs /\ status[n] = "NONE"
    BY <1>4, <2>1, NextRunUnborn
  <2>3. /\ status' = [status EXCEPT ![n] = "PENDING"]
        /\ version' = [version EXCEPT ![n] = client[c].version]
        /\ client' = [client EXCEPT ![c].pc = "start", ![c].run = n]
    BY <1>4, <2>1 DEF ReplayCreate
  <2>4. PICK x : x = [client[c] EXCEPT !.pc = "start", !.run = n]
    OBVIOUS
  <2>5. x \in Requests /\ x.pc = "start" /\ x.run = n
    BY <2>2, <2>4, Asking DEF Requests, ClientPcs
  <2>6. client' = [client EXCEPT ![c] = x]
    BY <2>3, <2>4 DEF TInv, TypeOK
  <2>7. Stable
    BY <1>2, <2>2, <2>3 DEF Stable, TInv, TypeOK
  <2>8. TypeOK'
    BY <1>1, <1>2, <2>2, <2>3, <2>5, <2>6, ZenonT(60) DEF TInv, TypeOK, queueVars, envVars, Statuses
  <2>9. status'[n] = "PENDING"
    BY <2>2, <2>3 DEF TInv, TypeOK
  <2>10. RequestKnown(x)' /\ RequestHolds(x)'
    BY <2>2, <2>5, <2>9 DEF RequestKnown, RequestHolds, Born
  <2> QED BY <1>3, <2>6, <2>7, <2>8, <2>10, ClientFrame
<1>5. CASE ~ (LineageIdle /\ Unborn # {})
  <2>1. PICK x : x = IdleClient
    OBVIOUS
  <2>2. x \in Requests /\ RequestKnown(x)' /\ RequestHolds(x)' /\ client' = [client EXCEPT ![c] = x]
    BY <1>5, <2>1, IdleClientType DEF ReplayCreate, Answer
  <2>3. UNCHANGED <<status, version>>
    BY <1>5 DEF ReplayCreate
  <2>4. Stable
    BY <1>2, <2>3 DEF Stable
  <2>5. TypeOK'
    BY <1>2, <2>2, <2>3 DEF TInv, TypeOK, queueVars, envVars
  <2> QED BY <1>3, <2>2, <2>4, <2>5, ClientFrame
<1> QED BY <1>4, <1>5

\* ReplayEnqueue and ResumeEnqueue: the job joins the queue, the request ends.
LEMMA ClientEnqueueTInv ==
    ASSUME TInv, NEW c \in Clients, ReplayEnqueue(c) \/ ResumeEnqueue(c)
    PROVE  TInv'
<1>1. client[c].run \in Runs /\ status[client[c].run] # "NONE" /\ client[c].step \in Targets
  BY Asking DEF ReplayEnqueue, ResumeEnqueue, Requests
<1>2. PICK j : j \in Job /\ JobKnown(j) /\ Add(j)
  <2>1. CASE ReplayEnqueue(c)
    <3>1. StartJob(client[c].run) \in Job /\ JobKnown(StartJob(client[c].run))
      BY <1>1 DEF StartJob, Job, Targets, JobKnown, Born
    <3> QED BY <2>1, <3>1 DEF ReplayEnqueue
  <2>2. CASE ResumeEnqueue(c)
    <3>1. PICK j : j = ResumeJob(client[c].run, client[c].step, 0)
      OBVIOUS
    <3>2. client[c].step \in KeysOf(StepsOf(client[c].run)) \cup Terminals
      BY <2>2, Asking DEF ResumeEnqueue, RequestKnown
    <3>3. j \in Job /\ JobKnown(j)
      BY <1>1, <3>1, <3>2 DEF ResumeJob, Job, JobKnown, Born
    <3> QED BY <2>2, <3>1, <3>3 DEF ResumeEnqueue
  <2> QED BY <2>1, <2>2
<1>3. PICK x : x = IdleClient
  OBVIOUS
<1>4. x \in Requests /\ RequestKnown(x)' /\ RequestHolds(x)' /\ client' = [client EXCEPT ![c] = x]
  BY <1>3, IdleClientType DEF ReplayEnqueue, ResumeEnqueue, Answer
<1>5. UNCHANGED <<dbVars, effects, walk, override, envVars, ops, faults>>
  BY DEF ReplayEnqueue, ResumeEnqueue
<1>6. Stable
  BY <1>5 DEF Stable, dbVars
<1>7. /\ waiting' \subseteq Job /\ active' \subseteq Job /\ finished' \subseteq Job
      /\ stalled' \subseteq Job
      /\ \A i \in (waiting \cup active \cup finished)' :
            i \in waiting \cup active \cup finished \/ JobKnown(i)'
  BY <1>2, <1>6, Enqueued
<1>8. TypeOK'
  BY <1>4, <1>5, <1>7 DEF TInv, TypeOK, dbVars, envVars
<1>9. UNCHANGED <<walk, tasks>>
  BY <1>5 DEF dbVars
<1> QED BY <1>4, <1>6, <1>7, <1>8, <1>9, ClientFrame

\* A start or resume job is refused: the run waits for the sweep.
LEMMA EnqueueRefusedTInv ==
    ASSUME TInv, NEW c \in Clients, EnqueueRefused(c)
    PROVE  TInv'
<1>1. PICK x : x = IdleClient
  OBVIOUS
<1>2. x \in Requests /\ RequestKnown(x)' /\ RequestHolds(x)' /\ client' = [client EXCEPT ![c] = x]
  BY <1>1, IdleClientType DEF EnqueueRefused, Answer
<1>3. /\ UNCHANGED <<dbVars, effects, queueVars, walk, override, envVars, ops>>
      /\ faults' = faults + 1
  BY DEF EnqueueRefused, Refused
<1>4. Stable
  BY <1>3 DEF Stable, dbVars
<1>5. TypeOK'
  BY <1>2, <1>3 DEF TInv, TypeOK, dbVars, queueVars, envVars
<1>6. UNCHANGED <<walk, waiting, active, finished, tasks>>
  BY <1>3 DEF dbVars, queueVars
<1> QED BY <1>2, <1>4, <1>5, <1>6, ClientFrame

\* A task is resolved and its run resumed.
LEMMA ResolveTaskTInv ==
    ASSUME TInv, NEW c \in Clients, NEW r \in Runs, NEW i, NEW res \in {"COMPLETED", "CANCELLED"},
           ResolveTask(c, r, i, res)
    PROVE  TInv'
<1>1. tasks[r] \in Seq(Tasks) /\ tasks \in [Runs -> Seq(Tasks)] /\ i \in DOMAIN tasks[r]
  BY DEF ResolveTask, TInv, TypeOK
<1>2. status[r] # "NONE" /\ tasks[r][i].step \in KeysOf(StepsOf(r))
  BY <1>1 DEF TInv, CursorsKnown, TaskKnown, Born
<1>3. PICK step : step = DeriveResumeCursor(StepsOf(r), tasks[r][i].step, res)
  OBVIOUS
<1>4. step \in KeysOf(StepsOf(r)) \cup Terminals /\ step \in Targets
  <2>1. version[r] \in DOMAIN Versions
    BY DEF TInv, TypeOK
  <2> QED BY <1>2, <1>3, <2>1, ResumeKnown, VersionFacts DEF StepsOf, Targets
<1>5. PICK x : x = [IdleClient EXCEPT !.pc = "resume", !.run = r, !.step = step]
  OBVIOUS
<1>6. x \in Requests /\ x.pc = "resume" /\ x.run = r /\ x.step = step
  BY <1>4, <1>5 DEF IdleClient, Requests, ClientPcs
<1>7. /\ client' = [client EXCEPT ![c] = x] /\ ops' = ops + 1
      /\ tasks' = [tasks EXCEPT ![r][i].status = res]
  BY <1>3, <1>5 DEF ResolveTask, Begin
<1>8. PICK task : task = [tasks[r][i] EXCEPT !.status = res]
  OBVIOUS
<1>9. tasks[r][i] \in Tasks /\ i \in 1 .. Len(tasks[r])
  BY <1>1, ElementOfSeq, LenProperties
<1>10. task \in Tasks /\ task.step = tasks[r][i].step
  BY <1>8, <1>9 DEF Tasks, TaskStatuses
<1>11. PICK s : s = [tasks[r] EXCEPT ![i] = task]
  OBVIOUS
<1>12. /\ s \in Seq(Tasks) /\ DOMAIN s = DOMAIN tasks[r]
       /\ \A k \in DOMAIN s : s[k].step = tasks[r][k].step
  BY <1>1, <1>9, <1>10, <1>11, ExceptSeq, LenProperties
<1>13. tasks' = [tasks EXCEPT ![r] = s]
  BY <1>7, <1>8, <1>11
<1>14. /\ tasks' \in [Runs -> Seq(Tasks)]
       /\ \A q \in Runs : \A k \in DOMAIN tasks'[q] :
             k \in DOMAIN tasks[q] /\ tasks'[q][k].step = tasks[q][k].step
  BY <1>1, <1>12, <1>13
<1>15. UNCHANGED <<status, marker, version, ledger, effects, queueVars, walk,
                   override, envVars, faults>>
  BY DEF ResolveTask
<1>16. Stable
  BY <1>15 DEF Stable
<1>17. TypeOK'
  BY <1>6, <1>7, <1>14, <1>15 DEF TInv, TypeOK, queueVars, envVars
<1>18. RequestKnown(x)' /\ RequestHolds(x)'
  BY <1>2, <1>4, <1>6, <1>15 DEF RequestKnown, RequestHolds, Born, StepsOf
<1>19. UNCHANGED <<walk, waiting, active, finished>>
  BY <1>15 DEF queueVars
<1> QED BY <1>7, <1>14, <1>16, <1>17, <1>18, <1>19, ClientFrame
-----------------------------------------------------------------------------
(***************************************************************************)
(* The sweeper, the broker and the environment.                            *)
(***************************************************************************)
\* The frame of a step that touches neither walks nor requests nor tasks.
LEMMA QueueFrame ==
    ASSUME TInv, Stable, TypeOK',
           \A j \in (waiting \cup active \cup finished)' :
              j \in waiting \cup active \cup finished \/ JobKnown(j)',
           UNCHANGED <<walk, client, tasks>>
    PROVE  TInv'
<1>1. Changed
  BY DEF Changed
<1> QED BY <1>1, Frame

\* SweepPending and ReconcileAwaiting: a job for a run that exists.
LEMMA SweepTInv ==
    ASSUME TInv, NEW r \in Runs, SweepPending(r) \/ ReconcileAwaiting(r)
    PROVE  TInv'
<1>1. status[r] # "NONE"
  BY DEF SweepPending, ReconcileAwaiting
<1>2. PICK j : j \in Job /\ JobKnown(j) /\ Add(j)
  <2>1. CASE SweepPending(r)
    <3>1. StartJob(r) \in Job /\ JobKnown(StartJob(r))
      BY <1>1 DEF StartJob, Job, Targets, JobKnown, Born
    <3> QED BY <2>1, <3>1 DEF SweepPending
  <2>2. CASE ReconcileAwaiting(r)
    <3>1. PICK n : n = Len(tasks[r])
      OBVIOUS
    <3>2. tasks[r] \in Seq(Tasks) /\ n > 0 /\ version[r] \in DOMAIN Versions
      BY <2>2, <3>1 DEF ReconcileAwaiting, TInv, TypeOK
    <3>3. n \in Nat /\ n \in DOMAIN tasks[r]
      BY <3>1, <3>2, LenProperties
    <3>4. tasks[r][n].step \in KeysOf(StepsOf(r))
      BY <3>3 DEF TInv, CursorsKnown, TaskKnown
    <3>5. PICK cursor : cursor = DeriveResumeCursor(StepsOf(r), tasks[r][n].step, tasks[r][n].status)
      OBVIOUS
    <3>6. cursor \in KeysOf(StepsOf(r)) \cup Terminals /\ cursor \in Targets
      BY <3>2, <3>4, <3>5, ResumeKnown, VersionFacts DEF StepsOf, Targets
    <3>7. PICK j : j = ReconciledResume(r, cursor, n)
      OBVIOUS
    <3>8. j \in Job /\ JobKnown(j)
      BY <1>1, <3>3, <3>6, <3>7 DEF ReconciledResume, ResumeJob, Job, JobKnown, Born
    <3>9. Add(j)
      BY <2>2, <3>1, <3>5, <3>7 DEF ReconcileAwaiting
    <3> QED BY <3>8, <3>9
  <2> QED BY <2>1, <2>2
<1>3. UNCHANGED <<dbVars, effects, walk, client, override, envVars, ops, faults>>
  BY DEF SweepPending, ReconcileAwaiting
<1>4. Stable
  BY <1>3 DEF Stable, dbVars
<1>5. /\ waiting' \subseteq Job /\ active' \subseteq Job /\ finished' \subseteq Job
      /\ stalled' \subseteq Job
      /\ \A i \in (waiting \cup active \cup finished)' :
            i \in waiting \cup active \cup finished \/ JobKnown(i)'
  BY <1>2, <1>4, Enqueued
<1>6. TypeOK'
  BY <1>3, <1>5 DEF TInv, TypeOK, dbVars, envVars
<1>7. UNCHANGED <<walk, client, tasks>>
  BY <1>3 DEF dbVars
<1> QED BY <1>4, <1>5, <1>6, <1>7, QueueFrame

\* The reconciler fails a RUNNING run that nothing drives.
LEMMA ReconcileRunningTInv ==
    ASSUME TInv, NEW r \in Runs, ReconcileRunning(r)
    PROVE  TInv'
<1>1. /\ status' = [status EXCEPT ![r] = "FAILED"]
      /\ marker' = [marker EXCEPT ![r] = NoStep]
      /\ UNCHANGED <<version, ledger, tasks, effects, queueVars, walk, client,
                     override, envVars, ops, faults>>
  BY DEF ReconcileRunning
<1>2. Stable
  BY <1>1 DEF Stable, TInv, TypeOK
<1>3. TypeOK'
  BY <1>1 DEF TInv, TypeOK, queueVars, envVars, Statuses, Targets
<1>4. UNCHANGED <<walk, client, tasks, waiting, active, finished>>
  BY <1>1 DEF queueVars
<1> QED BY <1>2, <1>3, <1>4, QueueFrame

\* Redelivery and eviction only move jobs between the lists of the queue.
LEMMA BrokerTInv ==
    ASSUME TInv, (\E j \in active : Redeliver(j)) \/ (\E j \in finished : Evict(j))
    PROVE  TInv'
<1>1. UNCHANGED <<dbVars, effects, walk, client, override, envVars, ops, faults>>
  BY DEF Redeliver, Evict
<1>2. /\ waiting' \subseteq waiting \cup active /\ active' \subseteq active
      /\ finished' \subseteq finished \cup active /\ stalled' \subseteq stalled \cup active
  BY DEF Redeliver, Evict
<1>3. Stable
  BY <1>1 DEF Stable, dbVars
<1>4. TypeOK'
  BY <1>1, <1>2 DEF TInv, TypeOK, dbVars, envVars
<1>5. UNCHANGED <<walk, client, tasks>>
  BY <1>1 DEF dbVars
<1> QED BY <1>2, <1>3, <1>4, <1>5, QueueFrame

\* A crash empties the slots and the requests; the database stays.
LEMMA CrashTInv ==
    ASSUME TInv, Crash
    PROVE  TInv'
<1>1. /\ faults' = faults + 1
      /\ walk' = [w \in Workers |-> IdleWalk]
      /\ client' = [c \in Clients |-> IdleClient]
      /\ override' = [r \in Runs |-> NoStep]
      /\ UNCHANGED <<dbVars, effects, queueVars, envVars, ops>>
  BY DEF Crash
<1>2. Stable
  BY <1>1 DEF Stable, dbVars
<1>3. PICK x, y : x = IdleWalk /\ y = IdleClient
  OBVIOUS
<1>4. /\ x \in Walks /\ WalkKnown(x)' /\ WalkHolds(x)'
      /\ y \in Requests /\ RequestKnown(y)' /\ RequestHolds(y)'
  BY <1>3, IdleWalkType, IdleClientType
<1>5. /\ walk' \in [Workers -> Walks] /\ \A w \in Workers : walk'[w] = x
      /\ client' \in [Clients -> Requests] /\ \A c \in Clients : client'[c] = y
  BY <1>1, <1>3, <1>4
<1>6. TypeOK'
  BY <1>1, <1>5 DEF TInv, TypeOK, dbVars, queueVars, envVars
<1>7. Changed
  BY <1>1, <1>4, <1>5 DEF Changed, dbVars, queueVars
<1> QED BY <1>2, <1>6, <1>7, Frame

\* The grant is revoked, or a version of the workflow is published.
LEMMA EnvironmentTInv ==
    ASSUME TInv, RevokeGrant \/ PublishVersion
    PROVE  TInv'
<1>1. /\ UNCHANGED <<dbVars, effects, queueVars, walk, client, override, ops, faults>>
      /\ grantActive' \in BOOLEAN
  BY DEF RevokeGrant, PublishVersion, TInv, TypeOK
<1>2. latest' \in DOMAIN Versions
  <2>1. CASE RevokeGrant
    BY <2>1 DEF RevokeGrant, TInv, TypeOK
  <2>2. CASE PublishVersion
    <3>1. DOMAIN Versions = 1 .. Len(Versions) /\ Len(Versions) \in Nat
      BY VersionsAssumption, LenProperties
    <3>2. latest \in DOMAIN Versions
      BY DEF TInv, TypeOK
    <3>3. latest' = latest + 1 /\ latest < Len(Versions)
      BY <2>2 DEF PublishVersion
    <3> QED BY <3>1, <3>2, <3>3
  <2> QED BY <2>1, <2>2
<1>3. Stable
  BY <1>1 DEF Stable, dbVars
<1>4. TypeOK'
  BY <1>1, <1>2 DEF TInv, TypeOK, dbVars, queueVars
<1>5. UNCHANGED <<walk, client, tasks, waiting, active, finished>>
  BY <1>1 DEF dbVars, queueVars
<1> QED BY <1>3, <1>4, <1>5, QueueFrame
-----------------------------------------------------------------------------
\* The first run has one known job, or none yet, and no walk.
LEMMA InitTInv == Init => TInv
<1> SUFFICES ASSUME Init PROVE TInv
  OBVIOUS
<1>1. 1 \in Runs /\ 1 \in DOMAIN Versions
  <2>1. Len(Versions) \in Nat /\ DOMAIN Versions = 1 .. Len(Versions) /\ Len(Versions) > 0
    BY VersionsAssumption, LenProperties
  <2> QED BY <2>1, RunsAssumption DEF Runs
<1>2. /\ \A w \in Workers : walk[w] = IdleWalk
      /\ \A c \in Clients : client[c] = IdleClient
      /\ waiting \subseteq {StartJob(1)} /\ active = {} /\ finished = {} /\ stalled = {}
      /\ status[1] = "PENDING"
      /\ \A r \in Runs : tasks[r] = <<>>
  BY <1>1 DEF Init
<1>3. StartJob(1) \in Job /\ JobKnown(StartJob(1))
  BY <1>1, <1>2 DEF StartJob, Job, Targets, JobKnown, Born
<1>4. /\ ledger \in [Runs -> Seq(Rows)] /\ tasks \in [Runs -> Seq(Tasks)]
  BY EmptySeq DEF Init
<1>5. /\ walk \in [Workers -> Walks] /\ client \in [Clients -> Requests]
  <2>1. IdleWalk \in Walks
    BY DEF IdleWalk, Walks, Pcs, Outs, Targets
  <2>2. IdleClient \in Requests
    BY DEF IdleClient, Requests, ClientPcs, Targets
  <2> QED BY <2>1, <2>2 DEF Init
<1>6. TypeOK
  BY <1>1, <1>2, <1>3, <1>4, <1>5 DEF Init, TypeOK, Statuses, Targets
<1>7. IdleWalk.pc = "idle" /\ IdleClient.pc = "idle"
  BY DEF IdleWalk, IdleClient
<1>8. CursorsKnown
  <2>1. (\A w \in Workers : WalkKnown(walk[w])) /\ \A c \in Clients : RequestKnown(client[c])
    BY <1>2, <1>7 DEF WalkKnown, RequestKnown
  <2> QED BY <1>2, <1>3, <2>1 DEF CursorsKnown
<1>9. (\A w \in Workers : WalkHolds(walk[w])) /\ \A c \in Clients : RequestHolds(client[c])
  BY <1>2, <1>7 DEF WalkHolds, RequestHolds
<1> QED BY <1>6, <1>8, <1>9 DEF TInv

\* A stutter keeps the invariant.
LEMMA StutterTInv ==
    ASSUME TInv, UNCHANGED vars
    PROVE  TInv'
<1>1. /\ UNCHANGED <<status, marker, version, ledger, tasks, effects, waiting, active,
                     finished, stalled, walk, client>>
      /\ UNCHANGED <<override, grantActive, latest, ops, faults>>
  BY DEF vars, dbVars, queueVars, envVars
<1>2. Stable
  BY <1>1 DEF Stable
<1>3. TypeOK'
  BY <1>1 DEF TInv, TypeOK
<1> QED BY <1>1, <1>2, <1>3, QueueFrame

\* Every step of the engine keeps the invariant.
LEMMA NextTInv == TInv /\ [Next]_vars => TInv'
<1> SUFFICES ASSUME TInv, [Next]_vars PROVE TInv'
  OBVIOUS
<1>1. CASE \E w \in Workers : WorkerStep(w)
  BY <1>1, TakeTInv, ClaimStartTInv, ClaimResumeTInv, CheckAttemptTInv, CheckRunningTInv,
     BuildContextTInv, FinalizeInactiveTInv, FinalizeTerminalTInv, ExecuteTInv, PauseTInv,
     RecordRetryTInv, RecordSuccessTInv, RecordFailureTInv, RequeueTInv, ListUndoTInv,
     RecordUndoTInv, SettleTInv, FailRunSafelyTInv, FinishTInv
     DEF WorkerStep
<1>2. CASE \E w \in Workers : RequeueRefused(w) \/ Throw(w) \/ FailRunSafelyThrows(w) \/ Stall(w)
  BY <1>2, RequeueRefusedTInv, ThrowTInv, StallTInv
<1>3. CASE \E c \in Clients : ClientBegins(c) \/ ClientStep(c)
  BY <1>3, RetryReadTInv, RetryCountTInv, RetryClaimTInv, RetryEnqueueTInv, RetryEndsTInv,
     ReplayReadTInv, ReplayGuardTInv, ReplayCreateTInv, ClientEnqueueTInv, ResolveTaskTInv
     DEF ClientBegins, ClientStep
<1>4. CASE \E c \in Clients : RetryEnqueueRefused(c) \/ EnqueueRefused(c)
  BY <1>4, RetryEnqueueRefusedTInv, EnqueueRefusedTInv
<1>5. CASE \E r \in Runs : SweeperStep(r)
  BY <1>5, SweepTInv, ReconcileRunningTInv DEF SweeperStep
<1>6. CASE (\E j \in active : Redeliver(j)) \/ (\E j \in finished : Evict(j))
  BY <1>6, BrokerTInv
<1>7. CASE Crash \/ RevokeGrant \/ PublishVersion
  BY <1>7, CrashTInv, EnvironmentTInv
<1>8. CASE UNCHANGED vars
  BY <1>8, StutterTInv
<1> QED BY <1>1, <1>2, <1>3, <1>4, <1>5, <1>6, <1>7, <1>8 DEF Next

\* Every variable of the engine keeps its type, whatever the faults, for any
\* number of workers and requests and every published versions.
THEOREM TypeCorrect == Spec => []TypeOK
<1>1. Spec => []TInv
  BY InitTInv, NextTInv, PTL DEF Spec
<1>2. TInv => TypeOK
  BY DEF TInv
<1> QED BY <1>1, <1>2, PTL

\* Walks, jobs, tasks and requests take a run up at a step of the version that
\* run is pinned to, or at a terminal, whatever the faults: the orchestrator's
\* walk never meets a cursor its version does not have.
THEOREM CursorsAlwaysKnown == Spec => []CursorsKnown
<1>1. Spec => []TInv
  BY InitTInv, NextTInv, PTL DEF Spec
<1>2. TInv => CursorsKnown
  BY DEF TInv
<1> QED BY <1>1, <1>2, PTL

-----------------------------------------------------------------------------
(***************************************************************************)
(* No walk skips a step: what led to every cursor there is.                *)
(***************************************************************************)
\* A cursor that is a step is one that the run's own rows and tasks lead to.
Led(r, key) == key \in KeysOf(StepsOf(r)) => LedTo(r, key)

\* Requests that bring a run the step they hold.
Bringing == {"count", "claim", "enqueue", "resume"}

\* Whoever may bring a run a cursor, or be read for one: walks, jobs, the step
\* its error names, tasks, requests.
Brought ==
    /\ \A w \in Workers : walk[w].pc # "idle" =>
          Led(RunOf(w), walk[w].job.cursor) /\ Led(RunOf(w), walk[w].cursor)
    /\ \A j \in waiting \cup active \cup finished : Led(j.run, j.cursor)
    /\ \A r \in Runs : Led(r, marker[r])
    /\ \A r \in Runs : \A i \in DOMAIN tasks[r] : Led(r, tasks[r][i].step)
    /\ \A c \in Clients : client[c].pc \in Bringing => Led(client[c].run, client[c].step)
    /\ \A r \in Runs : status[r] = "NONE" => marker[r] = NoStep

LedInv == TInv /\ Brought

\* A run keeps its version, its rows, and the tasks that were resolved.
Remembers ==
    \A r \in Runs : status[r] # "NONE" =>
        /\ version'[r] = version[r]
        /\ \A i \in DOMAIN ledger[r] : i \in DOMAIN ledger'[r] /\ ledger'[r][i] = ledger[r][i]
        /\ \A i \in DOMAIN tasks[r] :
              /\ i \in DOMAIN tasks'[r] /\ tasks'[r][i].step = tasks[r][i].step
              /\ tasks[r][i].status # "PENDING" => tasks'[r][i].status = tasks[r][i].status

\* What led to a step still does.
LEMMA LedStays ==
    ASSUME Remembers, NEW r \in Runs, status[r] # "NONE", NEW key, Led(r, key)
    PROVE  Led(r, key)'
<1>1. StepsOf(r)' = StepsOf(r)
  BY DEF Remembers, StepsOf
<1>2. SUFFICES ASSUME LedTo(r, key) PROVE LedTo(r, key)'
  BY <1>1 DEF Led
<1>3. PICK steps : steps = StepsOf(r) /\ steps = StepsOf(r)'
  BY <1>1
<1>4. CASE key = steps[1].key
  BY <1>3, <1>4 DEF LedTo
<1>5. CASE \E i \in DOMAIN ledger[r] :
              \/ /\ ledger[r][i].status = "SUCCEEDED"
                 /\ OnSuccess(steps, IndexOf(steps, ledger[r][i].step)) = key
              \/ /\ ledger[r][i].status = "FAILED"
                 /\ OnFailure(steps, IndexOf(steps, ledger[r][i].step)) = key
  <2>1. PICK i \in DOMAIN ledger[r] :
              \/ /\ ledger[r][i].status = "SUCCEEDED"
                 /\ OnSuccess(steps, IndexOf(steps, ledger[r][i].step)) = key
              \/ /\ ledger[r][i].status = "FAILED"
                 /\ OnFailure(steps, IndexOf(steps, ledger[r][i].step)) = key
    BY <1>5
  <2>2. i \in DOMAIN ledger'[r] /\ ledger'[r][i] = ledger[r][i]
    BY <2>1 DEF Remembers
  <2> QED BY <1>3, <2>1, <2>2 DEF LedTo
<1>6. CASE \E i \in DOMAIN tasks[r] :
              \/ /\ tasks[r][i].status = "COMPLETED"
                 /\ OnSuccess(steps, IndexOf(steps, tasks[r][i].step)) = key
              \/ /\ tasks[r][i].status = "CANCELLED"
                 /\ OnFailure(steps, IndexOf(steps, tasks[r][i].step)) = key
                 /\ StepAt(steps, tasks[r][i].step).kind = "MANUAL"
  <2>1. PICK i \in DOMAIN tasks[r] :
              \/ /\ tasks[r][i].status = "COMPLETED"
                 /\ OnSuccess(steps, IndexOf(steps, tasks[r][i].step)) = key
              \/ /\ tasks[r][i].status = "CANCELLED"
                 /\ OnFailure(steps, IndexOf(steps, tasks[r][i].step)) = key
                 /\ StepAt(steps, tasks[r][i].step).kind = "MANUAL"
    BY <1>6
  <2>2. /\ i \in DOMAIN tasks'[r] /\ tasks'[r][i].step = tasks[r][i].step
        /\ tasks'[r][i].status = tasks[r][i].status
    BY <2>1 DEF Remembers
  <2> QED BY <1>3, <2>1, <2>2 DEF LedTo
<1> QED BY <1>2, <1>3, <1>4, <1>5, <1>6 DEF LedTo

\* A token, or no step at all, needs nothing that leads to it.
LEMMA LedNowhere ==
    ASSUME NEW r \in Runs, NEW key \in Terminals \cup {NoStep}
    PROVE  /\ TInv => Led(r, key)
           /\ TInv' => Led(r, key)'
<1>1. \A v \in DOMAIN Versions : key \notin KeysOf(Versions[v])
  BY VersionFacts
<1>2. /\ TInv => version[r] \in DOMAIN Versions
      /\ TInv' => version'[r] \in DOMAIN Versions
  BY DEF TInv, TypeOK
<1> QED BY <1>1, <1>2 DEF Led, StepsOf

\* What a step has to answer for, actor by actor: the cursors it brought.
OnItsJob(w) == walk[w].pc # "idle" /\ walk'[w].job = walk[w].job

WalksLed == \A w \in Workers : walk'[w].pc # "idle" =>
    /\ OnItsJob(w) \/ Led(RunOf(w), walk[w].job.cursor)'
    /\ (OnItsJob(w) /\ walk'[w].cursor = walk[w].cursor) \/ Led(RunOf(w), walk[w].cursor)'

JobsLed == \A j \in (waiting \cup active \cup finished)' :
    j \in waiting \cup active \cup finished \/ Led(j.run, j.cursor)'

MarksLed == \A r \in Runs :
    /\ marker'[r] \in {marker[r], NoStep} \/ Led(r, marker[r])'
    /\ marker'[r] # marker[r] => status[r] # "NONE"
    /\ status'[r] = "NONE" => status[r] = "NONE"

TasksLed == \A r \in Runs : \A i \in DOMAIN tasks'[r] :
    \/ i \in DOMAIN tasks[r] /\ tasks'[r][i].step = tasks[r][i].step
    \/ Led(r, tasks[r][i].step)'

RequestsLed == \A c \in Clients : client'[c].pc \in Bringing =>
    \/ /\ client[c].pc \in Bringing
       /\ client'[c].run = client[c].run /\ client'[c].step = client[c].step
    \/ Led(client[c].run, client[c].step)'

\* A step that answers for the cursors it brought keeps them all led to.
LEMMA LedFrame ==
    ASSUME LedInv, TInv', Remembers, WalksLed, JobsLed, MarksLed, TasksLed, RequestsLed
    PROVE  LedInv'
<1>1. TInv /\ Brought
  BY DEF LedInv
<1>2. ASSUME NEW w \in Workers, walk'[w].pc # "idle"
      PROVE  Led(RunOf(w), walk[w].job.cursor)' /\ Led(RunOf(w), walk[w].cursor)'
  <2>1. ASSUME OnItsJob(w)
        PROVE  /\ Led(RunOf(w), walk[w].job.cursor)'
               /\ walk'[w].cursor = walk[w].cursor => Led(RunOf(w), walk[w].cursor)'
    <3>1. PICK r, from, key : r = RunOf(w) /\ from = walk[w].job.cursor /\ key = walk[w].cursor
      OBVIOUS
    <3>2. r \in Runs /\ status[r] # "NONE" /\ Led(r, from) /\ Led(r, key)
      BY <1>1, <2>1, <3>1, Walking DEF Brought, OnItsJob
    <3>3. Led(r, from)' /\ Led(r, key)'
      BY <3>2, LedStays
    <3>4. RunOf(w)' = r /\ walk'[w].job.cursor = from
      BY <2>1, <3>1 DEF RunOf, OnItsJob
    <3> QED BY <3>1, <3>3, <3>4
  <2> QED BY <1>2, <2>1 DEF WalksLed
<1>3. ASSUME NEW j \in (waiting \cup active \cup finished)' PROVE Led(j.run, j.cursor)'
  <2>1. CASE j \in waiting \cup active \cup finished
    <3>1. JobKnown(j) /\ Led(j.run, j.cursor)
      BY <1>1, <2>1 DEF TInv, CursorsKnown, Brought
    <3> QED BY <3>1, LedStays DEF JobKnown, Born
  <2> QED BY <2>1 DEF JobsLed
<1>4. ASSUME NEW r \in Runs PROVE Led(r, marker[r])'
  <2>1. CASE marker'[r] = NoStep
    <3>1. Led(r, NoStep)'
      BY LedNowhere
    <3> QED BY <2>1, <3>1
  <2>2. CASE marker'[r] = marker[r] /\ marker[r] # NoStep
    <3>1. PICK key : key = marker[r]
      OBVIOUS
    <3>2. status[r] # "NONE" /\ Led(r, key)
      BY <1>1, <2>2, <3>1 DEF Brought
    <3> QED BY <2>2, <3>1, <3>2, LedStays
  <2> QED BY <2>1, <2>2 DEF MarksLed
<1>5. ASSUME NEW r \in Runs, NEW i \in DOMAIN tasks'[r] PROVE Led(r, tasks[r][i].step)'
  <2>1. CASE i \in DOMAIN tasks[r] /\ tasks'[r][i].step = tasks[r][i].step
    <3>1. PICK key : key = tasks[r][i].step
      OBVIOUS
    <3>2. status[r] # "NONE" /\ Led(r, key)
      BY <1>1, <2>1, <3>1 DEF TInv, CursorsKnown, TaskKnown, Born, Brought
    <3> QED BY <2>1, <3>1, <3>2, LedStays
  <2> QED BY <2>1 DEF TasksLed
<1>6. ASSUME NEW c \in Clients, client'[c].pc \in Bringing
      PROVE  Led(client[c].run, client[c].step)'
  <2>1. CASE /\ client[c].pc \in Bringing
             /\ client'[c].run = client[c].run /\ client'[c].step = client[c].step
    <3>1. PICK r, key : r = client[c].run /\ key = client[c].step
      OBVIOUS
    <3>2. r \in Runs /\ status[r] # "NONE" /\ Led(r, key)
      BY <1>1, <2>1, <3>1, Asking DEF Bringing, Brought
    <3> QED BY <2>1, <3>1, <3>2, LedStays
  <2> QED BY <1>6, <2>1 DEF RequestsLed
<1>7. ASSUME NEW r \in Runs, status'[r] = "NONE" PROVE marker'[r] = NoStep
  BY <1>1, <1>7 DEF MarksLed, Brought
<1> QED BY <1>2, <1>3, <1>4, <1>5, <1>6, <1>7 DEF LedInv, Brought

\* Nothing new is known of a run: its version, rows and tasks are as before.
LEMMA Unmoved ==
    ASSUME UNCHANGED <<version, ledger, tasks>>
    PROVE  Remembers /\ TasksLed
  BY DEF Remembers, TasksLed

\* A walk that keeps its job and its cursor.
LEMMA WalkOnLed ==
    ASSUME LedInv, TInv', NEW w \in Workers,
           \/ ClaimResume(w) \/ CheckAttempt(w) \/ CheckRunning(w) \/ BuildContext(w)
           \/ Execute(w) \/ RequeueRefused(w) \/ ListUndo(w) \/ Throw(w) \/ Stall(w)
           \/ FailRunSafely(w) \/ FailRunSafelyThrows(w)
    PROVE  LedInv'
<1>1. TInv /\ UNCHANGED <<version, ledger, tasks, waiting, active, finished, client>>
  BY DEF LedInv, ClaimResume, CheckAttempt, CheckRunning, BuildContext, Execute, RequeueRefused,
         ListUndo, Throw, Stall, FailRunSafely, FailRunSafelyThrows, dbVars, queueVars
<1>2. WalksLed
  <2>1. \/ \E pc : WalkTo(w, pc)
        \/ \E pc, out : walk' = [walk EXCEPT ![w].pc = pc, ![w].out = out]
        \/ walk' = [walk EXCEPT ![w].pc = "exec", ![w].attempt = @ + 1, ![w].out = ""]
        \/ walk' = [walk EXCEPT ![w].pc = "undoing", ![w].todo = Succeeded(RunOf(w))]
        \/ walk' = [walk EXCEPT ![w].owns = FALSE]
    BY DEF ClaimResume, CheckAttempt, CheckRunning, BuildContext, Execute, RequeueRefused,
           ListUndo, Throw, Stall, FailRunSafely, FailRunSafelyThrows
  <2>2. walk[w].pc # "idle" \/ Stall(w)
    BY DEF ClaimResume, CheckAttempt, CheckRunning, BuildContext, Execute, RequeueRefused,
           ListUndo, Throw, Stall, FailRunSafely, FailRunSafelyThrows
  <2>3. walk \in [Workers -> Walks]
    BY <1>1 DEF TInv, TypeOK
  <2>4. /\ \A v \in Workers : v # w => walk'[v] = walk[v]
        /\ walk'[w].job = walk[w].job /\ walk'[w].cursor = walk[w].cursor
    <3>1. CASE \E pc : WalkTo(w, pc)
      BY <2>3, <3>1 DEF WalkTo, Walks
    <3>2. CASE \E pc, out : walk' = [walk EXCEPT ![w].pc = pc, ![w].out = out]
      BY <2>3, <3>2 DEF Walks
    <3>3. CASE walk' = [walk EXCEPT ![w].pc = "exec", ![w].attempt = @ + 1, ![w].out = ""]
      BY <2>3, <3>3 DEF Walks
    <3>4. CASE walk' = [walk EXCEPT ![w].pc = "undoing", ![w].todo = Succeeded(RunOf(w))]
      BY <2>3, <3>4 DEF Walks
    <3>5. CASE walk' = [walk EXCEPT ![w].owns = FALSE]
      BY <2>3, <3>5 DEF Walks
    <3> QED BY <2>1, <3>1, <3>2, <3>3, <3>4, <3>5
  <2>5. Stall(w) => walk'[w].pc = walk[w].pc
    BY <2>3 DEF Stall, Walks
  <2> QED BY <2>2, <2>3, <2>4, <2>5 DEF WalksLed, OnItsJob
<1>3. MarksLed
  <2>1. /\ \/ marker' = marker
           \/ marker' = [marker EXCEPT ![RunOf(w)] = NoStep] /\ status[RunOf(w)] # "NONE"
        /\ \/ status' = status
           \/ \E st \in {"RUNNING", "FAILED"} : status' = [status EXCEPT ![RunOf(w)] = st]
    BY DEF ClaimResume, CheckAttempt, CheckRunning, BuildContext, Execute, RequeueRefused,
           ListUndo, Throw, Stall, FailRunSafely, FailRunSafelyThrows, dbVars
  <2> QED BY <1>1, <2>1 DEF MarksLed, TInv, TypeOK
<1>4. JobsLed /\ RequestsLed
  BY <1>1 DEF JobsLed, RequestsLed
<1> QED BY <1>1, <1>2, <1>3, <1>4, Unmoved, LedFrame

\* A walk that keeps its job, and whose cursor, if it is another, is led to.
LEMMA WalkStepLed ==
    ASSUME LedInv, TInv', Remembers, JobsLed, MarksLed, TasksLed, UNCHANGED client,
           NEW w \in Workers, walk[w].pc # "idle", NEW r, r = RunOf(w),
           NEW x, walk' = [walk EXCEPT ![w] = x], x.job = walk[w].job,
           x.cursor = walk[w].cursor \/ Led(r, x.cursor)'
    PROVE  LedInv'
<1>1. walk \in [Workers -> Walks]
  BY DEF LedInv, TInv, TypeOK
<1>2. /\ walk'[w] = x /\ \A v \in Workers : v # w => walk'[v] = walk[v]
  BY <1>1
<1>3. RunOf(w)' = r
  BY <1>2 DEF RunOf
<1>4. WalksLed
  <2>1. ASSUME NEW v \in Workers, walk'[v].pc # "idle"
        PROVE  /\ OnItsJob(v)
               /\ walk'[v].cursor = walk[v].cursor \/ Led(RunOf(v), walk[v].cursor)'
    <3>1. CASE v = w
      BY <1>2, <1>3, <3>1 DEF OnItsJob
    <3>2. CASE v # w
      BY <1>2, <2>1, <3>2 DEF OnItsJob
    <3> QED BY <3>1, <3>2
  <2> QED BY <2>1 DEF WalksLed
<1>5. RequestsLed
  BY DEF RequestsLed
<1> QED BY <1>4, <1>5, LedFrame

\* The cursor a walk has before a step is led to after it.
LEMMA CursorStaysLed ==
    ASSUME LedInv, Remembers, NEW w \in Workers, walk[w].pc # "idle",
           NEW r, r = RunOf(w), NEW key, key = walk[w].cursor
    PROVE  r \in Runs /\ status[r] # "NONE" /\ Led(r, key)'
<1>1. r \in Runs /\ status[r] # "NONE" /\ Led(r, key)
  BY Walking DEF LedInv, Brought
<1> QED BY <1>1, LedStays

\* A walk begins at the first step of its version.
LEMMA ClaimStartLed ==
    ASSUME LedInv, TInv', NEW w \in Workers, ClaimStart(w)
    PROVE  LedInv'
<1>1. TInv /\ UNCHANGED <<marker, version, ledger, tasks, waiting, active, finished, client>>
  BY DEF LedInv, ClaimStart, queueVars
<1>2. walk[w].pc # "idle" /\ walk \in [Workers -> Walks]
  BY <1>1 DEF ClaimStart, TInv, TypeOK
<1>3. PICK r, key : r = RunOf(w) /\ key = StepsOf(RunOf(w))[1].key
  OBVIOUS
<1>4. MarksLed
  <2>1. status' = status \/ status' = [status EXCEPT ![r] = "RUNNING"]
    BY <1>3 DEF ClaimStart
  <2> QED BY <1>1, <2>1 DEF MarksLed, TInv, TypeOK
<1>5. Remembers /\ TasksLed /\ JobsLed
  BY <1>1, Unmoved DEF JobsLed
<1>6. Led(r, key)'
  BY <1>1, <1>3 DEF Led, LedTo, StepsOf
<1>7. CASE status[r] = "PENDING"
  <2>1. PICK x : x = [walk[w] EXCEPT !.pc = "build", !.cursor = key]
    OBVIOUS
  <2>2. walk' = [walk EXCEPT ![w] = x] /\ x.job = walk[w].job /\ x.cursor = key
    BY <1>2, <1>3, <1>7, <2>1 DEF ClaimStart, Walks
  <2> QED BY <1>1, <1>2, <1>3, <1>4, <1>5, <1>6, <2>2, WalkStepLed
<1>8. CASE status[r] # "PENDING"
  <2>1. PICK x : x = [walk[w] EXCEPT !.pc = "done"]
    OBVIOUS
  <2>2. walk' = [walk EXCEPT ![w] = x] /\ x.job = walk[w].job /\ x.cursor = walk[w].cursor
    BY <1>2, <1>3, <1>8, <2>1 DEF ClaimStart, WalkTo, Walks
  <2> QED BY <1>1, <1>2, <1>3, <1>4, <1>5, <2>2, WalkStepLed
<1> QED BY <1>7, <1>8

\* A walk that enters at a token may turn to the step of the last task.
LEMMA FinalizeTerminalLed ==
    ASSUME LedInv, TInv', NEW w \in Workers, FinalizeTerminal(w)
    PROVE  LedInv'
<1>1. TInv /\ UNCHANGED <<status, marker, version, ledger, tasks, waiting, active, finished, client>>
  BY DEF LedInv, FinalizeTerminal, dbVars, queueVars
<1>2. walk[w].pc # "idle" /\ walk \in [Workers -> Walks]
  BY <1>1 DEF FinalizeTerminal, TInv, TypeOK
<1>3. PICK r : r = RunOf(w)
  OBVIOUS
<1>4. Remembers /\ TasksLed /\ JobsLed /\ MarksLed
  BY <1>1, Unmoved DEF JobsLed, MarksLed
<1>5. r \in Runs
  BY <1>2, <1>3, <1>4, CursorStaysLed
<1>6. PICK pc, out, key :
        /\ walk' = [walk EXCEPT ![w].pc = pc, ![w].out = out, ![w].cursor = key]
        /\ key = walk[w].cursor \/ (tasks[r] # <<>> /\ key = tasks[r][Len(tasks[r])].step)
  BY <1>3 DEF FinalizeTerminal
<1>7. ASSUME key # walk[w].cursor PROVE Led(r, key)'
  <2>1. tasks[r] \in Seq(Tasks) /\ tasks[r] # <<>>
    BY <1>1, <1>5, <1>6, <1>7 DEF TInv, TypeOK
  <2>2. Len(tasks[r]) \in DOMAIN tasks[r]
    BY <2>1, LenProperties
  <2>3. Led(r, key) /\ status[r] # "NONE"
    BY <1>5, <1>6, <1>7, <2>2 DEF LedInv, Brought, TInv, CursorsKnown, TaskKnown, Born
  <2> QED BY <1>4, <1>5, <2>3, LedStays
<1>8. PICK x : x = [walk[w] EXCEPT !.pc = pc, !.out = out, !.cursor = key]
  OBVIOUS
<1>9. walk' = [walk EXCEPT ![w] = x] /\ x.job = walk[w].job /\ x.cursor = key
  BY <1>2, <1>6, <1>8 DEF Walks
<1> QED BY <1>1, <1>2, <1>3, <1>4, <1>7, <1>9, WalkStepLed

\* The step a failed run names is where its walk stood.
LEMMA FailedLed ==
    ASSUME LedInv, TInv', NEW w \in Workers, FinalizeInactive(w) \/ Settle(w)
    PROVE  LedInv'
<1>1. TInv /\ UNCHANGED <<version, ledger, tasks, waiting, active, finished, client>>
  BY DEF LedInv, FinalizeInactive, Settle, queueVars
<1>2. walk[w].pc # "idle" /\ walk \in [Workers -> Walks] /\ WalkTo(w, "done")
  BY <1>1 DEF FinalizeInactive, Settle, TInv, TypeOK
<1>3. PICK r, key : r = RunOf(w) /\ key = walk[w].cursor
  OBVIOUS
<1>4. Remembers /\ TasksLed /\ JobsLed
  BY <1>1, Unmoved DEF JobsLed
<1>5. r \in Runs /\ status[r] # "NONE" /\ Led(r, key)'
  BY <1>2, <1>3, <1>4, CursorStaysLed
<1>6. MarksLed
  <2>1. marker' = marker \/ marker' = [marker EXCEPT ![r] = key]
    BY <1>3 DEF FinalizeInactive, Settle, FailedStep
  <2>2. \A q \in Runs : status'[q] = "NONE" => status[q] = "NONE"
    <3>1. status' = [status EXCEPT ![r] = "FAILED"] \/ status' = [status EXCEPT ![r] = walk[w].out]
      BY <1>3 DEF FinalizeInactive, Settle
    <3>2. walk[w].pc = "settle" => walk[w].out # "NONE"
      BY <1>1 DEF TInv, WalkHolds, Settled
    <3> QED BY <1>1, <1>3, <3>1, <3>2 DEF FinalizeInactive, Settle, TInv, TypeOK
  <2> QED BY <1>1, <1>5, <2>1, <2>2 DEF MarksLed, TInv, TypeOK
<1>7. PICK x : x = [walk[w] EXCEPT !.pc = "done"]
  OBVIOUS
<1>8. walk' = [walk EXCEPT ![w] = x] /\ x.job = walk[w].job /\ x.cursor = walk[w].cursor
  BY <1>2, <1>7 DEF WalkTo, Walks
<1> QED BY <1>1, <1>2, <1>3, <1>4, <1>6, <1>8, WalkStepLed

\* A row that is appended is there, after all the rows there were.
LEMMA RowRemembered ==
    ASSUME TInv, NEW r \in Runs, NEW step \in Keys, NEW attempt \in Nat,
           NEW st \in RowStatuses, AppendRow(r, step, attempt, st)
    PROVE  /\ \A q \in Runs : \A i \in DOMAIN ledger[q] :
                 i \in DOMAIN ledger'[q] /\ ledger'[q][i] = ledger[q][i]
           /\ \E n \in DOMAIN ledger'[r] : ledger'[r][n].step = step /\ ledger'[r][n].status = st
<1>1. PICK row : row = [step |-> step, attempt |-> attempt, status |-> st]
  OBVIOUS
<1>2. row \in Rows /\ ledger \in [Runs -> Seq(Rows)]
  BY <1>1 DEF Rows, TInv, TypeOK
<1>3. ledger' = [ledger EXCEPT ![r] = Append(ledger[r], row)]
  BY <1>1 DEF AppendRow
<1>4. /\ Append(ledger[r], row) \in Seq(Rows)
      /\ Len(Append(ledger[r], row)) = Len(ledger[r]) + 1
      /\ \A i \in 1 .. Len(ledger[r]) : Append(ledger[r], row)[i] = ledger[r][i]
      /\ Append(ledger[r], row)[Len(ledger[r]) + 1] = row
  BY <1>2, AppendProperties
<1>5. Len(ledger[r]) \in Nat /\ DOMAIN ledger[r] = 1 .. Len(ledger[r])
  BY <1>2, LenProperties
<1>6. ledger'[r] = Append(ledger[r], row) /\ DOMAIN ledger'[r] = 1 .. Len(ledger[r]) + 1
  BY <1>2, <1>3, <1>4, LenProperties
<1>7. \A q \in Runs : q # r => ledger'[q] = ledger[q]
  BY <1>2, <1>3
<1>8. /\ Len(ledger[r]) + 1 \in DOMAIN ledger'[r] /\ ledger'[r][Len(ledger[r]) + 1] = row
      /\ row.step = step /\ row.status = st
  BY <1>1, <1>4, <1>5, <1>6
<1>9. \A i \in DOMAIN ledger[r] : i \in DOMAIN ledger'[r] /\ ledger'[r][i] = ledger[r][i]
  BY <1>4, <1>5, <1>6
<1>10. \E n \in DOMAIN ledger'[r] : ledger'[r][n].step = step /\ ledger'[r][n].status = st
  BY <1>8
<1>11. ASSUME NEW q \in Runs, NEW i \in DOMAIN ledger[q]
       PROVE  i \in DOMAIN ledger'[q] /\ ledger'[q][i] = ledger[q][i]
  BY <1>7, <1>9
<1> QED BY <1>10, <1>11

\* Only a row was written: everything known of a run is remembered.
LEMMA RowsRemembered ==
    ASSUME UNCHANGED <<version, tasks>>,
           \A q \in Runs : \A i \in DOMAIN ledger[q] :
              i \in DOMAIN ledger'[q] /\ ledger'[q][i] = ledger[q][i]
    PROVE  Remembers /\ TasksLed
  BY DEF Remembers, TasksLed

\* The step a recorded outcome leads to is led to.
LEMMA RecordLed ==
    ASSUME LedInv, TInv', NEW w \in Workers,
           RecordRetry(w) \/ RecordSuccess(w) \/ RecordFailure(w)
    PROVE  LedInv'
<1>1. TInv /\ UNCHANGED <<status, marker, version, tasks, waiting, active, finished, client>>
  BY DEF LedInv, RecordRetry, RecordSuccess, RecordFailure, queueVars
<1>2. walk[w].pc = "record" /\ walk \in [Workers -> Walks]
  BY <1>1 DEF RecordRetry, RecordSuccess, RecordFailure, TInv, TypeOK
<1>3. PICK r, key : r = RunOf(w) /\ key = walk[w].cursor
  OBVIOUS
<1>4. r \in Runs /\ key \in Keys /\ walk[w].attempt \in Nat
  BY <1>1, <1>2, <1>3, Recording
<1>5. PICK st \in {"SUCCEEDED", "FAILED"} :
         /\ AppendRow(r, key, walk[w].attempt, st)
         /\ (RecordSuccess(w) => st = "SUCCEEDED") /\ (RecordFailure(w) => st = "FAILED")
  BY <1>3 DEF RecordRetry, RecordSuccess, RecordFailure
<1>6. /\ \A q \in Runs : \A i \in DOMAIN ledger[q] :
            i \in DOMAIN ledger'[q] /\ ledger'[q][i] = ledger[q][i]
      /\ \E n \in DOMAIN ledger'[r] : ledger'[r][n].step = key /\ ledger'[r][n].status = st
  BY <1>1, <1>4, <1>5, RowRemembered DEF RowStatuses
<1>7. Remembers /\ TasksLed /\ JobsLed /\ MarksLed
  BY <1>1, <1>6, RowsRemembered DEF JobsLed, MarksLed
<1>8. PICK edge : edge = Edge(w)
  OBVIOUS
<1>9. ~ RecordRetry(w) => Led(r, edge)'
  <2>1. PICK steps : steps = StepsOf(r) /\ steps = StepsOf(r)'
    BY <1>1 DEF StepsOf
  <2>2. PICK n \in DOMAIN ledger'[r] : ledger'[r][n].step = key /\ ledger'[r][n].status = st
    BY <1>6
  <2>3. RecordSuccess(w) => OnSuccess(steps, IndexOf(steps, key)) = edge
    BY <1>3, <1>8, <2>1 DEF RecordSuccess, Edge
  <2>4. RecordFailure(w) => OnFailure(steps, IndexOf(steps, key)) = edge
    BY <1>3, <1>8, <2>1 DEF RecordFailure, Edge
  <2>5. ~ RecordRetry(w) => LedTo(r, edge)'
    BY <1>5, <2>1, <2>2, <2>3, <2>4 DEF LedTo
  <2> QED BY <2>5 DEF Led
<1>10. PICK x : walk' = [walk EXCEPT ![w] = x] /\ x.job = walk[w].job
                /\ (x.cursor = walk[w].cursor \/ x.cursor = EndSuccess
                    \/ (~ RecordRetry(w) /\ x.cursor = edge))
  <2>1. CASE \E pc : WalkTo(w, pc)
    <3>1. PICK pc : WalkTo(w, pc)
      BY <2>1
    <3>2. PICK x : x = [walk[w] EXCEPT !.pc = pc]
      OBVIOUS
    <3>3. walk' = [walk EXCEPT ![w] = x] /\ x.job = walk[w].job /\ x.cursor = walk[w].cursor
      BY <1>2, <3>1, <3>2 DEF WalkTo, Walks
    <3> QED BY <3>3
  <2>2. CASE walk' = [walk EXCEPT ![w].pc = "settle"]
    <3>1. WalkTo(w, "settle")
      BY <2>2 DEF WalkTo
    <3> QED BY <2>1, <3>1
  <2>3. CASE walk' = [walk EXCEPT ![w].pc = "terminal", ![w].cursor = EndSuccess]
    <3>1. PICK x : x = [walk[w] EXCEPT !.pc = "terminal", !.cursor = EndSuccess]
      OBVIOUS
    <3>2. walk' = [walk EXCEPT ![w] = x] /\ x.job = walk[w].job /\ x.cursor = EndSuccess
      BY <1>2, <2>3, <3>1 DEF Walks
    <3> QED BY <3>2
  <2>4. CASE /\ ~ RecordRetry(w)
             /\ walk' = [walk EXCEPT ![w].pc = "exec", ![w].cursor = edge,
                                     ![w].attempt = 1, ![w].out = ""]
    <3>1. PICK x : x = [walk[w] EXCEPT !.pc = "exec", !.cursor = edge, !.attempt = 1, !.out = ""]
      OBVIOUS
    <3>2. walk' = [walk EXCEPT ![w] = x] /\ x.job = walk[w].job /\ x.cursor = edge
      BY <1>2, <2>4, <3>1 DEF Walks
    <3> QED BY <2>4, <3>2
  <2>5. RecordSuccess(w) \/ RecordFailure(w) => ~ RecordRetry(w)
    BY DEF RecordSuccess, RecordFailure, RecordRetry
  <2>6. \/ \E pc : WalkTo(w, pc)
        \/ walk' = [walk EXCEPT ![w].pc = "settle"]
        \/ walk' = [walk EXCEPT ![w].pc = "terminal", ![w].cursor = EndSuccess]
        \/ /\ ~ RecordRetry(w)
           /\ walk' = [walk EXCEPT ![w].pc = "exec", ![w].cursor = edge,
                                   ![w].attempt = 1, ![w].out = ""]
    <3>1. CASE RecordRetry(w)
      BY <3>1 DEF RecordRetry
    <3>2. CASE RecordSuccess(w)
      BY <1>8, <2>5, <3>2 DEF RecordSuccess
    <3>3. CASE RecordFailure(w)
      BY <1>8, <2>5, <3>3 DEF RecordFailure
    <3> QED BY <3>1, <3>2, <3>3
  <2> QED BY <2>1, <2>2, <2>3, <2>4, <2>6
<1>11. Led(r, EndSuccess)'
  BY <1>4, LedNowhere DEF Terminals
<1> QED BY <1>1, <1>2, <1>3, <1>7, <1>9, <1>10, <1>11, WalkStepLed

\* A compensation row changes nothing of what led anywhere.
LEMMA RecordUndoLed ==
    ASSUME LedInv, TInv', NEW w \in Workers, RecordUndo(w)
    PROVE  LedInv'
<1>1. TInv /\ UNCHANGED <<status, marker, version, tasks, waiting, active, finished, client>>
  BY DEF LedInv, RecordUndo, queueVars
<1>2. walk[w].pc = "undoing" /\ walk \in [Workers -> Walks]
  BY <1>1 DEF RecordUndo, TInv, TypeOK
<1>3. PICK r : r = RunOf(w)
  OBVIOUS
<1>4. r \in Runs /\ walk[w].todo \subseteq DOMAIN ledger[r] /\ ledger[r] \in Seq(Rows)
  BY <1>1, <1>2, <1>3, Walking DEF WalkHolds, TInv, TypeOK, RunOf
<1>5. \A q \in Runs : \A i \in DOMAIN ledger[q] :
         i \in DOMAIN ledger'[q] /\ ledger'[q][i] = ledger[q][i]
  <2>1. CASE UNCHANGED ledger
    BY <2>1
  <2>2. CASE \E i \in walk[w].todo : AppendRow(r, ledger[r][i].step, 1, "COMPENSATED")
    <3>1. PICK i \in DOMAIN ledger[r] : AppendRow(r, ledger[r][i].step, 1, "COMPENSATED")
      BY <1>4, <2>2
    <3>2. ledger[r][i] \in Rows
      BY <1>4, ElementOfSeq, LenProperties
    <3>3. PICK step : step = ledger[r][i].step
      OBVIOUS
    <3>4. step \in Keys
      BY <3>2, <3>3 DEF Rows
    <3> QED BY <1>1, <1>4, <3>1, <3>3, <3>4, RowRemembered DEF RowStatuses
  <2> QED BY <1>3, <2>1, <2>2 DEF RecordUndo
<1>6. Remembers /\ TasksLed /\ JobsLed /\ MarksLed
  BY <1>1, <1>5, RowsRemembered DEF JobsLed, MarksLed
<1>7. PICK x : walk' = [walk EXCEPT ![w] = x] /\ x.job = walk[w].job /\ x.cursor = walk[w].cursor
  <2>1. CASE walk' = [walk EXCEPT ![w].pc = "settle", ![w].out = "COMPENSATED"]
    <3>1. PICK x : x = [walk[w] EXCEPT !.pc = "settle", !.out = "COMPENSATED"]
      OBVIOUS
    <3>2. walk' = [walk EXCEPT ![w] = x] /\ x.job = walk[w].job /\ x.cursor = walk[w].cursor
      BY <1>2, <2>1, <3>1 DEF Walks
    <3> QED BY <3>2
  <2>2. CASE \E i : walk' = [walk EXCEPT ![w].todo = @ \ {i}]
    <3>1. PICK i : walk' = [walk EXCEPT ![w].todo = @ \ {i}]
      BY <2>2
    <3>2. PICK x : x = [walk[w] EXCEPT !.todo = @ \ {i}]
      OBVIOUS
    <3>3. walk' = [walk EXCEPT ![w] = x] /\ x.job = walk[w].job /\ x.cursor = walk[w].cursor
      BY <1>2, <3>1, <3>2 DEF Walks
    <3> QED BY <3>3
  <2> QED BY <2>1, <2>2 DEF RecordUndo
<1> QED BY <1>1, <1>2, <1>3, <1>6, <1>7, WalkStepLed

\* A pause opens a task at the step of the walk.
LEMMA PauseLed ==
    ASSUME LedInv, TInv', NEW w \in Workers, Pause(w)
    PROVE  LedInv'
<1>1. TInv /\ UNCHANGED <<marker, version, waiting, active, finished, client>>
  BY DEF LedInv, Pause, queueVars
<1>2. walk[w].pc = "record" /\ walk \in [Workers -> Walks] /\ WalkTo(w, "done")
  BY <1>1 DEF Pause, TInv, TypeOK
<1>3. PICK r, key, task : /\ r = RunOf(w) /\ key = walk[w].cursor
                          /\ task = [step |-> key, status |-> "PENDING"]
  OBVIOUS
<1>4. r \in Runs /\ key \in Keys /\ walk[w].attempt \in Nat /\ walk[w].out \in RowStatuses
  BY <1>1, <1>2, <1>3, Recording DEF Pause, RowStatuses
<1>5. task \in Tasks /\ tasks \in [Runs -> Seq(Tasks)]
  BY <1>1, <1>3, <1>4 DEF Tasks, TaskStatuses, TInv, TypeOK
<1>6. tasks' = [tasks EXCEPT ![r] = Append(tasks[r], task)]
  BY <1>3 DEF Pause, OpenTask
<1>7. AppendRow(r, key, walk[w].attempt, walk[w].out)
  BY <1>3 DEF Pause
<1>8. \A q \in Runs : \A i \in DOMAIN ledger[q] :
         i \in DOMAIN ledger'[q] /\ ledger'[q][i] = ledger[q][i]
  BY <1>1, <1>4, <1>7, RowRemembered
<1>9. /\ \A i \in DOMAIN tasks[r] : i \in DOMAIN tasks'[r] /\ tasks'[r][i] = tasks[r][i]
      /\ \A i \in DOMAIN tasks'[r] : i \in DOMAIN tasks[r] \/ tasks'[r][i] = task
  <2>1. /\ Append(tasks[r], task) \in Seq(Tasks)
        /\ Len(Append(tasks[r], task)) = Len(tasks[r]) + 1
        /\ \A i \in 1 .. Len(tasks[r]) : Append(tasks[r], task)[i] = tasks[r][i]
        /\ Append(tasks[r], task)[Len(tasks[r]) + 1] = task
    BY <1>4, <1>5, AppendProperties
  <2>2. Len(tasks[r]) \in Nat /\ DOMAIN tasks[r] = 1 .. Len(tasks[r])
    BY <1>4, <1>5, LenProperties
  <2>3. tasks'[r] = Append(tasks[r], task) /\ DOMAIN tasks'[r] = 1 .. Len(tasks[r]) + 1
    BY <1>4, <1>5, <1>6, <2>1, LenProperties
  <2> QED BY <2>1, <2>2, <2>3
<1>10. \A q \in Runs : q # r => tasks'[q] = tasks[q]
  BY <1>5, <1>6
<1>11. Remembers
  BY <1>1, <1>8, <1>9, <1>10 DEF Remembers
<1>12. Led(r, key)'
  BY <1>2, <1>3, <1>11, CursorStaysLed
<1>13. TasksLed
  BY <1>3, <1>9, <1>10, <1>12 DEF TasksLed
<1>14. JobsLed /\ MarksLed
  BY <1>1, <1>3, <1>4 DEF JobsLed, MarksLed, Pause, TInv, TypeOK
<1>15. PICK x : x = [walk[w] EXCEPT !.pc = "done"]
  OBVIOUS
<1>16. walk' = [walk EXCEPT ![w] = x] /\ x.job = walk[w].job /\ x.cursor = walk[w].cursor
  BY <1>2, <1>15 DEF WalkTo, Walks
<1> QED BY <1>1, <1>2, <1>3, <1>11, <1>13, <1>14, <1>16, WalkStepLed

\* A job that is added, if it is, brings its own cursor.
LEMMA AddLed ==
    ASSUME NEW j, Add(j), Led(j.run, j.cursor)'
    PROVE  JobsLed
  BY DEF Add, JobsLed

\* The next attempt is queued at the step of the walk.
LEMMA RequeueLed ==
    ASSUME LedInv, TInv', NEW w \in Workers, Requeue(w)
    PROVE  LedInv'
<1>1. TInv /\ UNCHANGED <<status, marker, version, ledger, tasks, client>>
  BY DEF LedInv, Requeue, dbVars
<1>2. walk[w].pc = "requeue" /\ walk \in [Workers -> Walks] /\ WalkTo(w, "done")
  BY <1>1 DEF Requeue, TInv, TypeOK
<1>3. PICK r, key : r = RunOf(w) /\ key = walk[w].cursor
  OBVIOUS
<1>4. Remembers /\ TasksLed /\ MarksLed
  BY <1>1, Unmoved DEF MarksLed
<1>5. PICK j : j = RetryJob(r, key, walk[w].attempt + 1)
  OBVIOUS
<1>6. Add(j) /\ j.run = r /\ j.cursor = key
  BY <1>3, <1>5 DEF Requeue, RetryJob
<1>7. Led(j.run, j.cursor)'
  BY <1>2, <1>3, <1>4, <1>6, CursorStaysLed
<1>8. JobsLed
  BY <1>6, <1>7, AddLed
<1>9. PICK x : x = [walk[w] EXCEPT !.pc = "done"]
  OBVIOUS
<1>10. walk' = [walk EXCEPT ![w] = x] /\ x.job = walk[w].job /\ x.cursor = walk[w].cursor
  BY <1>2, <1>9 DEF WalkTo, Walks
<1> QED BY <1>1, <1>2, <1>3, <1>4, <1>8, <1>10, WalkStepLed

\* A slot takes a job, and its cursor with it.
LEMMA TakeLed ==
    ASSUME LedInv, TInv', NEW w \in Workers, Take(w)
    PROVE  LedInv'
<1>1. TInv /\ UNCHANGED <<status, marker, version, ledger, tasks, finished, client>>
  BY DEF LedInv, Take, dbVars
<1>2. PICK j \in waiting :
         /\ waiting' = waiting \ {j} /\ active' = active \cup {j}
         /\ walk' = [walk EXCEPT ![w] =
                [IdleWalk EXCEPT !.pc = "claim", !.job = j, !.owns = TRUE,
                                 !.cursor = j.cursor, !.attempt = j.attempt]]
  BY DEF Take
<1>3. Remembers /\ TasksLed /\ MarksLed
  BY <1>1, Unmoved DEF MarksLed
<1>4. JobsLed /\ RequestsLed
  BY <1>1, <1>2 DEF JobsLed, RequestsLed
<1>5. j.run \in Runs /\ status[j.run] # "NONE" /\ Led(j.run, j.cursor)
  BY <1>1, <1>2 DEF LedInv, Brought, TInv, CursorsKnown, JobKnown, Born
<1>6. Led(j.run, j.cursor)'
  BY <1>3, <1>5, LedStays
<1>7. /\ walk'[w].job = j /\ walk'[w].cursor = j.cursor
      /\ \A v \in Workers : v # w => walk'[v] = walk[v]
  BY <1>1, <1>2 DEF IdleWalk, TInv, TypeOK
<1>8. WalksLed
  BY <1>6, <1>7 DEF WalksLed, OnItsJob, RunOf
<1> QED BY <1>3, <1>4, <1>8, LedFrame

\* A job that is done is remembered with the cursor it had.
LEMMA FinishLed ==
    ASSUME LedInv, TInv', NEW w \in Workers, Finish(w)
    PROVE  LedInv'
<1>1. TInv /\ UNCHANGED <<status, marker, version, ledger, tasks, waiting, client>>
  BY DEF LedInv, Finish, dbVars
<1>2. Remembers /\ TasksLed /\ MarksLed /\ RequestsLed
  BY <1>1, Unmoved DEF MarksLed, RequestsLed
<1>3. PICK j : j = walk[w].job
  OBVIOUS
<1>4. j.run \in Runs /\ status[j.run] # "NONE" /\ Led(j.run, j.cursor)
  BY <1>1, <1>3, Walking DEF Finish, LedInv, Brought, RunOf
<1>5. Led(j.run, j.cursor)'
  BY <1>2, <1>4, LedStays
<1>6. JobsLed
  BY <1>1, <1>3, <1>5 DEF Finish, JobsLed
<1>7. WalksLed
  BY <1>1 DEF Finish, WalksLed, OnItsJob, IdleWalk, TInv, TypeOK
<1> QED BY <1>2, <1>6, <1>7, LedFrame

-----------------------------------------------------------------------------
\* A step of one request, which keeps the walks.
LEMMA AskLed ==
    ASSUME LedInv, TInv', Remembers, JobsLed, MarksLed, TasksLed, UNCHANGED walk,
           NEW c \in Clients, NEW x, client' = [client EXCEPT ![c] = x],
           x.pc \in Bringing =>
              \/ client[c].pc \in Bringing /\ x.run = client[c].run /\ x.step = client[c].step
              \/ Led(x.run, x.step)'
    PROVE  LedInv'
<1>1. client'[c] = x /\ \A d \in Clients : d # c => client'[d] = client[d]
  BY DEF LedInv, TInv, TypeOK
<1>2. WalksLed
  BY DEF WalksLed, OnItsJob
<1>3. RequestsLed
  <2>1. ASSUME NEW d \in Clients, client'[d].pc \in Bringing
        PROVE  \/ /\ client[d].pc \in Bringing
                  /\ client'[d].run = client[d].run /\ client'[d].step = client[d].step
               \/ Led(client[d].run, client[d].step)'
    BY <1>1, <2>1
  <2> QED BY <2>1 DEF RequestsLed
<1> QED BY <1>2, <1>3, LedFrame

\* A request that answers, or that goes on with the step it has.
LEMMA AskOnLed ==
    ASSUME LedInv, TInv', Remembers, JobsLed, MarksLed, TasksLed, UNCHANGED walk,
           NEW c \in Clients,
           \/ Answer(c)
           \/ client[c].pc \in Bringing /\ \E pc : RequestTo(c, pc)
           \/ \E pc : pc \notin Bringing /\ RequestTo(c, pc)
    PROVE  LedInv'
<1>1. client \in [Clients -> Requests]
  BY DEF LedInv, TInv, TypeOK
<1>2. CASE Answer(c)
  <2>1. PICK x : x = IdleClient
    OBVIOUS
  <2>2. client' = [client EXCEPT ![c] = x] /\ x.pc \notin Bringing
    BY <1>2, <2>1 DEF Answer, IdleClient, Bringing
  <2> QED BY <2>2, AskLed
<1>3. ASSUME NEW pc, RequestTo(c, pc), client[c].pc \in Bringing \/ pc \notin Bringing
      PROVE  LedInv'
  <2>1. PICK x : x = [client[c] EXCEPT !.pc = pc]
    OBVIOUS
  <2>2. /\ client' = [client EXCEPT ![c] = x] /\ x.pc = pc
        /\ x.run = client[c].run /\ x.step = client[c].step
    BY <1>1, <1>3, <2>1 DEF RequestTo, Requests
  <2> QED BY <1>3, <2>2, AskLed
<1> QED BY <1>2, <1>3

\* A retry takes its step from the run's error.
LEMMA RetryReadLed ==
    ASSUME LedInv, TInv', NEW c \in Clients, NEW r \in Runs, NEW ov \in BOOLEAN,
           RetryRead(c, r, ov)
    PROVE  LedInv'
<1>1. UNCHANGED <<status, marker, version, ledger, tasks, waiting, active, finished, walk>>
  BY DEF RetryRead, dbVars, queueVars
<1>2. Remembers /\ TasksLed /\ JobsLed /\ MarksLed
  BY <1>1, Unmoved DEF JobsLed, MarksLed
<1>3. PICK key : key = ResolveFailedStepKey(marker[r], StepsOf(r))
  OBVIOUS
<1>4. status[r] = "FAILED" /\ key = marker[r]
  BY <1>3 DEF RetryRead, ResolveFailedStepKey
<1>5. Led(r, key)'
  BY <1>2, <1>4, LedStays DEF LedInv, Brought
<1>6. PICK x : x = [IdleClient EXCEPT !.pc = "count", !.run = r, !.step = key, !.override = ov]
  OBVIOUS
<1>7. client' = [client EXCEPT ![c] = x] /\ x.run = r /\ x.step = key
  BY <1>3, <1>6 DEF RetryRead, IdleClient
<1> QED BY <1>1, <1>2, <1>5, <1>7, AskLed

\* The rest of a retry keeps the step, up to the job it queues.
LEMMA RetryCountLed ==
    ASSUME LedInv, TInv', NEW c \in Clients, RetryCount(c)
    PROVE  LedInv'
<1>1. UNCHANGED <<status, marker, version, ledger, tasks, waiting, active, finished, walk>>
  BY DEF RetryCount, dbVars, queueVars
<1>2. Remembers /\ TasksLed /\ JobsLed /\ MarksLed
  BY <1>1, Unmoved DEF JobsLed, MarksLed
<1>3. client[c].pc \in Bringing /\ client \in [Clients -> Requests]
  BY DEF RetryCount, Bringing, LedInv, TInv, TypeOK
<1>4. PICK n : client' = [client EXCEPT ![c].pc = "claim", ![c].attempt = n]
  BY DEF RetryCount
<1>5. PICK x : x = [client[c] EXCEPT !.pc = "claim", !.attempt = n]
  OBVIOUS
<1>6. /\ client' = [client EXCEPT ![c] = x]
      /\ x.run = client[c].run /\ x.step = client[c].step
  BY <1>3, <1>4, <1>5 DEF Requests
<1> QED BY <1>1, <1>2, <1>3, <1>6, AskLed

LEMMA RetryClaimLed ==
    ASSUME LedInv, TInv', NEW c \in Clients, RetryClaim(c)
    PROVE  LedInv'
<1>1. UNCHANGED <<marker, version, ledger, tasks, waiting, active, finished, walk>>
  BY DEF RetryClaim, queueVars
<1>2. MarksLed
  <2>1. \/ status' = status
        \/ \E r : status' = [status EXCEPT ![r] = "RUNNING"]
    BY DEF RetryClaim
  <2> QED BY <1>1, <2>1 DEF MarksLed, LedInv, TInv, TypeOK
<1>3. Remembers /\ TasksLed /\ JobsLed
  BY <1>1, Unmoved DEF JobsLed
<1>4. client[c].pc \in Bringing /\ (Answer(c) \/ RequestTo(c, "enqueue"))
  BY DEF RetryClaim, Bringing
<1> QED BY <1>1, <1>2, <1>3, <1>4, AskOnLed

LEMMA RetryEnqueueLed ==
    ASSUME LedInv, TInv', NEW c \in Clients, RetryEnqueue(c)
    PROVE  LedInv'
<1>1. UNCHANGED <<status, marker, version, ledger, tasks, walk>> /\ TInv
  BY DEF RetryEnqueue, dbVars, LedInv
<1>2. Remembers /\ TasksLed /\ MarksLed
  BY <1>1, Unmoved DEF MarksLed
<1>3. PICK r, key : r = client[c].run /\ key = client[c].step
  OBVIOUS
<1>4. r \in Runs /\ status[r] # "NONE" /\ Led(r, key)
  BY <1>1, <1>3, Asking DEF RetryEnqueue, LedInv, Brought, Bringing
<1>5. Led(r, key)'
  BY <1>2, <1>4, LedStays
<1>6. PICK j : j = RetryJob(r, key, client[c].attempt)
  OBVIOUS
<1>7. Add(j) /\ j.run = r /\ j.cursor = key /\ RequestTo(c, "clear")
  BY <1>3, <1>6 DEF RetryEnqueue, RetryJob
<1>8. JobsLed
  BY <1>5, <1>7, AddLed
<1> QED BY <1>1, <1>2, <1>7, <1>8, AskOnLed DEF Bringing

\* Refusals, the last write of a retry, and the reads and the guard of a replay.
LEMMA AskedLed ==
    ASSUME LedInv, TInv', NEW c \in Clients,
           \/ RetryEnqueueRefused(c) \/ RetryClear(c) \/ RetryRollback(c)
           \/ EnqueueRefused(c)
    PROVE  LedInv'
<1>1. UNCHANGED <<version, ledger, tasks, waiting, active, finished, walk>> /\ TInv
  BY DEF RetryEnqueueRefused, RetryClear, RetryRollback, EnqueueRefused, dbVars, queueVars, LedInv
<1>2. MarksLed
  <2>1. /\ \/ status' = status
           \/ \E r : status' = [status EXCEPT ![r] = "FAILED"]
        /\ \/ marker' = marker
           \/ \E r \in Runs : status[r] = "RUNNING" /\ marker' = [marker EXCEPT ![r] = NoStep]
    BY <1>1, Asking DEF RetryEnqueueRefused, RetryClear, RetryRollback, EnqueueRefused, dbVars
  <2> QED BY <1>1, <2>1 DEF MarksLed, TInv, TypeOK
<1>3. Remembers /\ TasksLed /\ JobsLed
  BY <1>1, Unmoved DEF JobsLed
<1>4. Answer(c) \/ RequestTo(c, "rollback")
  BY DEF RetryEnqueueRefused, RetryClear, RetryRollback, EnqueueRefused
<1> QED BY <1>1, <1>2, <1>3, <1>4, AskOnLed DEF Bringing

\* A replay brings no step: the run it creates starts at the first.
LEMMA ReplayLed ==
    ASSUME LedInv, TInv', NEW c \in Clients, NEW r \in Runs,
           ReplayRead(c, r) \/ ReplayGuard(c)
    PROVE  LedInv'
<1>1. UNCHANGED <<status, marker, version, ledger, tasks, waiting, active, finished, walk>>
  BY DEF ReplayRead, ReplayGuard, dbVars, queueVars
<1>2. Remembers /\ TasksLed /\ JobsLed /\ MarksLed
  BY <1>1, Unmoved DEF JobsLed, MarksLed
<1>3. client \in [Clients -> Requests]
  BY DEF LedInv, TInv, TypeOK
<1>4. CASE ReplayRead(c, r)
  <2>1. PICK x : x = [IdleClient EXCEPT !.pc = "guard", !.run = r, !.step = marker[r]]
    OBVIOUS
  <2>2. client' = [client EXCEPT ![c] = x] /\ x.pc = "guard"
    BY <1>4, <2>1 DEF ReplayRead, IdleClient
  <2> QED BY <1>1, <1>2, <2>2, AskLed DEF Bringing
<1>5. CASE ReplayGuard(c) /\ ~ Answer(c)
  <2>1. PICK x : x = [client[c] EXCEPT !.pc = "create", !.version = latest]
    OBVIOUS
  <2>2. client' = [client EXCEPT ![c] = x] /\ x.pc = "create"
    BY <1>3, <1>5, <2>1 DEF ReplayGuard, Requests
  <2> QED BY <1>1, <1>2, <2>2, AskLed DEF Bringing
<1> QED BY <1>1, <1>2, <1>4, <1>5, AskOnLed

LEMMA ReplayCreateLed ==
    ASSUME LedInv, TInv', NEW c \in Clients, ReplayCreate(c)
    PROVE  LedInv'
<1>1. UNCHANGED <<marker, ledger, tasks, waiting, active, finished, walk>> /\ TInv
  BY DEF ReplayCreate, queueVars, LedInv
<1>2. JobsLed /\ TasksLed
  BY <1>1 DEF JobsLed, TasksLed
<1>3. CASE UNCHANGED <<status, version>> /\ Answer(c)
  BY <1>1, <1>2, <1>3, Unmoved, AskOnLed DEF MarksLed
<1>4. CASE LineageIdle /\ Unborn # {}
  <2>1. PICK n : n = CHOOSE r \in Unborn : \A m \in Unborn : r <= m
    OBVIOUS
  <2>2. n \in Runs /\ status[n] = "NONE"
    BY <1>4, <2>1, NextRunUnborn
  <2>3. /\ status' = [status EXCEPT ![n] = "PENDING"]
        /\ version' = [version EXCEPT ![n] = client[c].version]
        /\ client' = [client EXCEPT ![c].pc = "start", ![c].run = n]
    BY <1>4, <2>1 DEF ReplayCreate
  <2>4. MarksLed
    BY <1>1, <2>2, <2>3 DEF MarksLed, TInv, TypeOK
  <2>5. Remembers
    BY <1>1, <2>2, <2>3 DEF Remembers, TInv, TypeOK
  <2>6. PICK x : x = [client[c] EXCEPT !.pc = "start", !.run = n]
    OBVIOUS
  <2>7. client' = [client EXCEPT ![c] = x] /\ x.pc = "start"
    BY <1>1, <2>3, <2>6 DEF Requests, TInv, TypeOK
  <2> QED BY <1>1, <1>2, <2>4, <2>5, <2>7, AskLed DEF Bringing
<1> QED BY <1>3, <1>4 DEF ReplayCreate

\* The edge a resolved task hands its run back to is led to by that task.
LEMMA TaskLeads ==
    ASSUME TInv', NEW r \in Runs, NEW i \in DOMAIN tasks'[r],
           NEW steps, steps = StepsOf(r)', NEW st \in {"COMPLETED", "CANCELLED"},
           st = tasks'[r][i].status,
           NEW key, key = DeriveResumeCursor(steps, tasks'[r][i].step, st)
    PROVE  Led(r, key)'
<1>1. PICK step : step = tasks'[r][i].step
  OBVIOUS
<1>2. CASE st = "COMPLETED"
  <2>1. OnSuccess(steps, IndexOf(steps, step)) = key
    BY <1>1, <1>2 DEF DeriveResumeCursor
  <2> QED BY <1>1, <1>2, <2>1 DEF Led, LedTo
<1>3. CASE st = "CANCELLED" /\ StepAt(steps, step).kind # "MANUAL"
  <2>1. key = StopFail
    BY <1>1, <1>3 DEF DeriveResumeCursor, StepAt
  <2> QED BY <2>1, LedNowhere DEF Terminals, FailureTerminals
<1>4. CASE st = "CANCELLED" /\ StepAt(steps, step).kind = "MANUAL"
  <2>1. OnFailure(steps, IndexOf(steps, step)) = key
    BY <1>1, <1>4 DEF DeriveResumeCursor, StepAt
  <2> QED BY <1>1, <1>4, <2>1 DEF Led, LedTo
<1> QED BY <1>2, <1>3, <1>4

\* A request to resume brings the step its task leads to.
LEMMA ResolveTaskLed ==
    ASSUME LedInv, TInv', NEW c \in Clients, NEW r \in Runs, NEW i,
           NEW res \in {"COMPLETED", "CANCELLED"}, ResolveTask(c, r, i, res)
    PROVE  LedInv'
<1>1. UNCHANGED <<status, marker, version, ledger, waiting, active, finished, walk>> /\ TInv
  BY DEF ResolveTask, queueVars, LedInv
<1>2. tasks[r] \in Seq(Tasks) /\ tasks \in [Runs -> Seq(Tasks)] /\ i \in DOMAIN tasks[r]
  BY <1>1 DEF ResolveTask, TInv, TypeOK
<1>3. tasks[r][i] \in Tasks /\ i \in 1 .. Len(tasks[r]) /\ tasks[r][i].status = "PENDING"
  BY <1>2, ElementOfSeq, LenProperties DEF ResolveTask
<1>4. PICK task : task = [tasks[r][i] EXCEPT !.status = res]
  OBVIOUS
<1>5. task \in Tasks /\ task.step = tasks[r][i].step /\ task.status = res
  BY <1>3, <1>4 DEF Tasks, TaskStatuses
<1>6. PICK s : s = [tasks[r] EXCEPT ![i] = task]
  OBVIOUS
<1>7. /\ s \in Seq(Tasks) /\ DOMAIN s = DOMAIN tasks[r] /\ s[i] = task
      /\ \A k \in DOMAIN s : k # i => s[k] = tasks[r][k]
  BY <1>2, <1>3, <1>5, <1>6, ExceptSeq, LenProperties
<1>8. tasks' = [tasks EXCEPT ![r] = s]
  BY <1>4, <1>6 DEF ResolveTask
<1>9. tasks'[r] = s /\ \A q \in Runs : q # r => tasks'[q] = tasks[q]
  BY <1>2, <1>8
<1>10. Remembers /\ TasksLed
  <2>1. \A q \in Runs : \A k \in DOMAIN tasks[q] :
           /\ k \in DOMAIN tasks'[q] /\ tasks'[q][k].step = tasks[q][k].step
           /\ tasks[q][k].status # "PENDING" => tasks'[q][k].status = tasks[q][k].status
    BY <1>3, <1>5, <1>7, <1>9
  <2>2. \A q \in Runs : DOMAIN tasks'[q] = DOMAIN tasks[q]
    BY <1>7, <1>9
  <2> QED BY <1>1, <2>1, <2>2 DEF Remembers, TasksLed
<1>11. JobsLed /\ MarksLed
  BY <1>1 DEF JobsLed, MarksLed
<1>12. PICK steps, key : /\ steps = StepsOf(r) /\ steps = StepsOf(r)'
                         /\ key = DeriveResumeCursor(steps, tasks[r][i].step, res)
  BY <1>1 DEF StepsOf
<1>13. Led(r, key)'
  <2>1. i \in DOMAIN tasks'[r] /\ res = tasks'[r][i].status /\ tasks'[r][i].step = tasks[r][i].step
    BY <1>2, <1>5, <1>7, <1>9
  <2> QED BY <1>12, <2>1, TaskLeads
<1>14. PICK x : x = [IdleClient EXCEPT !.pc = "resume", !.run = r, !.step = key]
  OBVIOUS
<1>15. client' = [client EXCEPT ![c] = x] /\ x.run = r /\ x.step = key
  BY <1>12, <1>14 DEF ResolveTask, IdleClient
<1> QED BY <1>1, <1>10, <1>11, <1>13, <1>15, AskLed

\* A start job carries no step; a resume job carries the one of its request.
LEMMA ClientEnqueueLed ==
    ASSUME LedInv, TInv', NEW c \in Clients, ReplayEnqueue(c) \/ ResumeEnqueue(c)
    PROVE  LedInv'
<1>1. UNCHANGED <<status, marker, version, ledger, tasks, walk>> /\ TInv /\ Answer(c)
  BY DEF ReplayEnqueue, ResumeEnqueue, dbVars, LedInv
<1>2. Remembers /\ TasksLed /\ MarksLed
  BY <1>1, Unmoved DEF MarksLed
<1>3. PICK r, key : r = client[c].run /\ key = client[c].step
  OBVIOUS
<1>4. r \in Runs /\ status[r] # "NONE"
  BY <1>1, <1>3, Asking DEF ReplayEnqueue, ResumeEnqueue
<1>5. CASE ReplayEnqueue(c)
  <2>1. PICK j : j = StartJob(r)
    OBVIOUS
  <2>2. Add(j) /\ j.run = r /\ j.cursor = NoStep
    BY <1>3, <1>5, <2>1 DEF ReplayEnqueue, StartJob
  <2>3. Led(j.run, j.cursor)'
    BY <1>4, <2>2, LedNowhere
  <2> QED BY <1>1, <1>2, <2>2, <2>3, AddLed, AskOnLed
<1>6. CASE ResumeEnqueue(c)
  <2>1. Led(r, key)'
    BY <1>2, <1>3, <1>4, <1>6, LedStays DEF ResumeEnqueue, LedInv, Brought, Bringing
  <2>2. PICK j : j = ResumeJob(r, key, 0)
    OBVIOUS
  <2>3. Add(j) /\ j.run = r /\ j.cursor = key
    BY <1>3, <1>6, <2>2 DEF ResumeEnqueue, ResumeJob
  <2> QED BY <1>1, <1>2, <2>1, <2>3, AddLed, AskOnLed
<1> QED BY <1>5, <1>6

-----------------------------------------------------------------------------
\* The sweeper queues a start, or resumes where the last task leads.
LEMMA SweepLed ==
    ASSUME LedInv, TInv', NEW r \in Runs, SweepPending(r) \/ ReconcileAwaiting(r)
    PROVE  LedInv'
<1>1. UNCHANGED <<status, marker, version, ledger, tasks, walk, client>> /\ TInv
  BY DEF SweepPending, ReconcileAwaiting, dbVars, LedInv
<1>2. Remembers /\ TasksLed /\ MarksLed
  BY <1>1, Unmoved DEF MarksLed
<1>3. WalksLed /\ RequestsLed
  BY <1>1 DEF WalksLed, OnItsJob, RequestsLed
<1>4. CASE SweepPending(r)
  <2>1. PICK j : j = StartJob(r)
    OBVIOUS
  <2>2. Add(j) /\ j.run = r /\ j.cursor = NoStep
    BY <1>4, <2>1 DEF SweepPending, StartJob
  <2>3. Led(j.run, j.cursor)'
    BY <2>2, LedNowhere
  <2> QED BY <1>2, <1>3, <2>2, <2>3, AddLed, LedFrame
<1>5. CASE ReconcileAwaiting(r)
  <2>1. PICK n, st : n = Len(tasks[r]) /\ st = tasks[r][n].status
    OBVIOUS
  <2>2. tasks[r] \in Seq(Tasks) /\ n > 0 /\ st # "PENDING"
    BY <1>1, <1>5, <2>1 DEF ReconcileAwaiting, TInv, TypeOK
  <2>3. n \in DOMAIN tasks[r] /\ tasks[r][n] \in Tasks
    BY <2>1, <2>2, LenProperties, ElementOfSeq
  <2>4. st \in {"COMPLETED", "CANCELLED"}
    BY <2>1, <2>2, <2>3 DEF Tasks, TaskStatuses
  <2>5. PICK steps, key : /\ steps = StepsOf(r) /\ steps = StepsOf(r)'
                          /\ key = DeriveResumeCursor(steps, tasks[r][n].step, st)
    BY <1>1 DEF StepsOf
  <2>6. Led(r, key)'
    BY <1>1, <2>1, <2>3, <2>4, <2>5, TaskLeads
  <2>7. PICK j : j = ReconciledResume(r, key, n)
    OBVIOUS
  <2>8. Add(j) /\ j.run = r /\ j.cursor = key
    BY <1>5, <2>1, <2>5, <2>7 DEF ReconcileAwaiting, ReconciledResume, ResumeJob
  <2> QED BY <1>2, <1>3, <2>6, <2>8, AddLed, LedFrame
<1> QED BY <1>4, <1>5

\* What brings no cursor at all: a reconciled run's error names no step; jobs
\* move between the lists; a crash ends walks and requests; the rest is apart.
LEMMA NothingBrought ==
    ASSUME LedInv, TInv', NEW r \in Runs,
           \/ ReconcileRunning(r) \/ (\E j \in active : Redeliver(j))
           \/ (\E j \in finished : Evict(j)) \/ Crash \/ RevokeGrant \/ PublishVersion
           \/ UNCHANGED vars
    PROVE  LedInv'
<1>1. UNCHANGED <<version, ledger, tasks>> /\ TInv
  BY DEF ReconcileRunning, Redeliver, Evict, Crash, RevokeGrant, PublishVersion, vars, dbVars,
         LedInv
<1>2. MarksLed
  <2>1. \/ UNCHANGED <<status, marker>>
        \/ /\ status' = [status EXCEPT ![r] = "FAILED"] /\ status[r] = "RUNNING"
           /\ marker' = [marker EXCEPT ![r] = NoStep]
    BY DEF ReconcileRunning, Redeliver, Evict, Crash, RevokeGrant, PublishVersion, vars, dbVars
  <2> QED BY <1>1, <2>1 DEF MarksLed, TInv, TypeOK
<1>3. JobsLed
  <2>1. (waiting \cup active \cup finished)' \subseteq waiting \cup active \cup finished
    BY DEF ReconcileRunning, Redeliver, Evict, Crash, RevokeGrant, PublishVersion, vars, queueVars
  <2> QED BY <2>1 DEF JobsLed
<1>4. WalksLed /\ RequestsLed
  <2>1. \/ UNCHANGED <<walk, client>>
        \/ walk' = [w \in Workers |-> IdleWalk] /\ client' = [c \in Clients |-> IdleClient]
    BY DEF ReconcileRunning, Redeliver, Evict, Crash, RevokeGrant, PublishVersion, vars
  <2>2. IdleWalk.pc = "idle" /\ IdleClient.pc \notin Bringing
    BY DEF IdleWalk, IdleClient, Bringing
  <2> QED BY <2>1, <2>2 DEF WalksLed, OnItsJob, RequestsLed
<1> QED BY <1>1, <1>2, <1>3, <1>4, Unmoved, LedFrame

\* At the start there is a start job at most.
LEMMA InitLed == Init => LedInv
<1> SUFFICES ASSUME Init PROVE LedInv
  OBVIOUS
<1>1. TInv
  BY InitTInv
<1>2. /\ \A w \in Workers : walk[w] = IdleWalk
      /\ \A c \in Clients : client[c] = IdleClient
      /\ waiting \subseteq {StartJob(1)} /\ active = {} /\ finished = {}
      /\ \A r \in Runs : marker[r] = NoStep /\ tasks[r] = <<>>
  BY DEF Init
<1>3. IdleWalk.pc = "idle" /\ IdleClient.pc \notin Bringing
  BY DEF IdleWalk, IdleClient, Bringing
<1>4. \A r \in Runs : Led(r, NoStep)
  BY <1>1, LedNowhere
<1>5. 1 \in Runs /\ StartJob(1).run = 1 /\ StartJob(1).cursor = NoStep
  BY RunsAssumption DEF Runs, StartJob
<1> QED BY <1>1, <1>2, <1>3, <1>4, <1>5 DEF LedInv, Brought

\* Every step of the engine keeps every cursor led to.
LEMMA NextLed == LedInv /\ [Next]_vars => LedInv'
<1> SUFFICES ASSUME LedInv, [Next]_vars PROVE LedInv'
  OBVIOUS
<1>1. TInv' /\ \E r : r \in Runs
  BY NextTInv, RunsAssumption DEF LedInv, Runs
<1>2. CASE \E w \in Workers : WorkerStep(w)
  BY <1>1, <1>2, TakeLed, ClaimStartLed, WalkOnLed, FailedLed, FinalizeTerminalLed, RecordLed,
     RecordUndoLed, PauseLed, RequeueLed, FinishLed DEF WorkerStep
<1>3. CASE \E w \in Workers : RequeueRefused(w) \/ Throw(w) \/ FailRunSafelyThrows(w) \/ Stall(w)
  BY <1>1, <1>3, WalkOnLed
<1>4. CASE \E c \in Clients : ClientBegins(c) \/ ClientStep(c)
  BY <1>1, <1>4, RetryReadLed, RetryCountLed, RetryClaimLed, RetryEnqueueLed, AskedLed,
     ReplayLed, ReplayCreateLed, ClientEnqueueLed, ResolveTaskLed DEF ClientBegins, ClientStep
<1>5. CASE \E c \in Clients : RetryEnqueueRefused(c) \/ EnqueueRefused(c)
  BY <1>1, <1>5, AskedLed
<1>6. CASE \E r \in Runs : SweeperStep(r)
  BY <1>1, <1>6, SweepLed, NothingBrought DEF SweeperStep
<1>7. CASE \/ (\E j \in active : Redeliver(j)) \/ (\E j \in finished : Evict(j))
           \/ Crash \/ RevokeGrant \/ PublishVersion \/ UNCHANGED vars
  BY <1>1, <1>7, NothingBrought
<1> QED BY <1>2, <1>3, <1>4, <1>5, <1>6, <1>7 DEF Next

\* No walk skips a step: a step is executed only when the run's own rows and
\* tasks lead to it, whoever brought the run there (the walk itself, a retry, a
\* resume, the reconciler, a job redelivered), whatever the faults.
THEOREM NoStepEverSkipped == Spec => []NoStepSkipped
<1>1. Spec => []LedInv
  BY InitLed, NextLed, PTL DEF Spec
<1>2. LedInv => NoStepSkipped
  <2> SUFFICES ASSUME LedInv, NEW w \in Workers, walk[w].pc \in {"exec", "record"}
               PROVE  LedTo(RunOf(w), walk[w].cursor)
    BY DEF NoStepSkipped
  <2>1. TInv /\ Led(RunOf(w), walk[w].cursor)
    BY DEF LedInv, Brought
  <2>2. walk[w].cursor \in KeysOf(StepsOf(RunOf(w)))
    BY <2>1 DEF TInv, CursorsKnown, WalkKnown, RunOf
  <2> QED BY <2>1, <2>2 DEF Led
<1> QED BY <1>1, <1>2, PTL

-----------------------------------------------------------------------------
(***************************************************************************)
(* One driver per run, one live run per lineage, and the lifecycle.        *)
(***************************************************************************)
Drives == {"enqueue", "rollback"}

\* The three kinds of driver of a run, as in Drivers, and a walk past the
\* grant check.
WalkOn(w, r) == walk[w].pc \in Holding /\ RunOf(w) = r
PastOn(w, r) == walk[w].pc \in PastContext /\ RunOf(w) = r
LooseJob(j, r) == j.run = r /\ Dangling(j)
RequestOn(c, r) == client[c].pc \in Drives /\ client[c].run = r

Driven(r) ==
    \/ \E w \in Workers : WalkOn(w, r)
    \/ \E j \in Job : LooseJob(j, r)
    \/ \E c \in Clients : RequestOn(c, r)

AtMostOne(r) ==
    /\ \A v, w \in Workers : WalkOn(v, r) /\ WalkOn(w, r) => v = w
    /\ \A i, j \in Job : LooseJob(i, r) /\ LooseJob(j, r) => i = j
    /\ \A c, d \in Clients : RequestOn(c, r) /\ RequestOn(d, r) => c = d
    /\ \A w \in Workers, j \in Job : ~ (WalkOn(w, r) /\ LooseJob(j, r))
    /\ \A w \in Workers, c \in Clients : ~ (WalkOn(w, r) /\ RequestOn(c, r))
    /\ \A j \in Job, c \in Clients : ~ (LooseJob(j, r) /\ RequestOn(c, r))

\* w has its run for itself.
Alone(w, r) ==
    /\ status[r] = "RUNNING"
    /\ \A v \in Workers : WalkOn(v, r) => v = w
    /\ \A j \in Job : ~ LooseJob(j, r)
    /\ \A c \in Clients : ~ RequestOn(c, r)

OneDriver(r) ==
    /\ Driven(r) => status[r] = "RUNNING" \/ (status[r] = "FAILED" /\ ~ GrantUsable)
    /\ GrantUsable => AtMostOne(r)
    /\ \A w \in Workers : PastOn(w, r) => Alone(w, r)

\* Without stalls every slot owns its job, no two the same one.
Slots ==
    /\ \A w \in Workers :
        /\ walk[w].pc # "safe"
        /\ walk[w].pc # "idle" => walk[w].owns /\ walk[w].job \in active
    /\ \A v, w \in Workers :
        walk[v].pc # "idle" /\ walk[w].pc # "idle" /\ walk[v].job = walk[w].job => v = w
    /\ waiting \cap active = {}

JobHasRow(j) == HasRow(j.run, j.cursor, j.attempt)

\* What a walk has to do with the attempt its retry job names: a walk that is
\* about to leave its run has recorded it.
RetryWalk(w) ==
    walk[w].job.kind = "retry" =>
        /\ walk[w].pc \in {"claim", "check", "build"} =>
              walk[w].cursor = walk[w].job.cursor /\ walk[w].attempt = walk[w].job.attempt
        /\ walk[w].pc = "check" => ~ JobHasRow(walk[w].job)
        /\ walk[w].pc \in PastContext =>
              \/ JobHasRow(walk[w].job)
              \/ /\ walk[w].pc \in {"exec", "record"}
                 /\ walk[w].cursor = walk[w].job.cursor
                 /\ walk[w].attempt = walk[w].job.attempt

\* Nobody takes the grant back once it is gone.
Refusing == \A w \in Workers : walk[w].pc = "inactive" => ~ GrantUsable

DInv ==
    /\ TInv
    /\ Slots
    /\ Refusing
    /\ \A w \in Workers : RetryWalk(w)
    /\ \A r \in Runs : OneDriver(r)
-----------------------------------------------------------------------------
(***************************************************************************)
(* Steps that bring no driver to a run.                                    *)
(***************************************************************************)
Quiet(r) ==
    /\ \A w \in Workers : WalkOn(w, r)' => WalkOn(w, r)
    /\ \A w \in Workers : PastOn(w, r)' => PastOn(w, r)
    /\ \A j \in Job : LooseJob(j, r)' => LooseJob(j, r)
    /\ \A c \in Clients : RequestOn(c, r)' => RequestOn(c, r)

\* A run that nobody drives satisfies OneDriver whatever its status.
LEMMA IdleRun ==
    ASSUME NEW r, ~ Driven(r)
    PROVE  OneDriver(r)
<1>1. \A w \in Workers : PastOn(w, r) => WalkOn(w, r)
  BY DEF PastOn, WalkOn, Holding
<1> QED BY <1>1 DEF OneDriver, Driven, AtMostOne

\* The same of the next state.
LEMMA IdleRunNext ==
    ASSUME NEW r, ~ Driven(r)'
    PROVE  OneDriver(r)'
<1>1. \A w \in Workers : PastOn(w, r)' => WalkOn(w, r)'
  BY DEF PastOn, WalkOn, Holding
<1> QED BY <1>1 DEF OneDriver, Driven, AtMostOne

\* Who drives a run nobody joins keeps driving it alone; the status may only
\* change when the run is left.
LEMMA QuietRun ==
    ASSUME NEW r, OneDriver(r), Quiet(r), GrantUsable' => GrantUsable,
           status'[r] = status[r] \/ ~ Driven(r)
    PROVE  OneDriver(r)'
<1>1. CASE ~ Driven(r)
  <2>1. ~ Driven(r)'
    BY <1>1 DEF Driven, Quiet
  <2> QED BY <2>1, IdleRunNext
<1>2. CASE Driven(r) /\ status'[r] = status[r]
  <2>1. Driven(r)' => status'[r] = "RUNNING" \/ (status'[r] = "FAILED" /\ ~ GrantUsable')
    BY <1>2 DEF OneDriver
  <2>2. GrantUsable' => AtMostOne(r)'
    BY DEF OneDriver, AtMostOne, Quiet
  <2>3. \A w \in Workers : PastOn(w, r)' => Alone(w, r)'
    BY <1>2 DEF OneDriver, Alone, Quiet
  <2> QED BY <2>1, <2>2, <2>3 DEF OneDriver
<1> QED BY <1>1, <1>2

\* The walk w is the only driver of the run after the step.
LEMMA SoleWalk ==
    ASSUME NEW r, NEW w \in Workers, Alone(w, r)'
    PROVE  OneDriver(r)'
<1>1. \A v \in Workers : PastOn(v, r)' => WalkOn(v, r)'
  BY DEF PastOn, WalkOn, Holding
<1> QED BY <1>1 DEF OneDriver, AtMostOne, Alone

\* A step of the slot w that keeps its job.
Goes(w, pc) ==
    /\ \A v \in Workers : v # w => walk'[v] = walk[v]
    /\ walk'[w].pc = pc /\ walk'[w].job = walk[w].job /\ walk'[w].owns = walk[w].owns

\* What the step leaves of the runs other than the slot's own.
Local(r) ==
    \A q \in Runs : q # r =>
        /\ status'[q] = status[q]
        /\ ledger'[q] = ledger[q]
        /\ \A j \in (waiting \cup active)' : j.run = q => j \in waiting \cup active

\* A step of a slot brings no driver to another run.
LEMMA OthersQuiet ==
    ASSUME NEW w \in Workers, NEW r \in Runs, r = RunOf(w), NEW pc, Goes(w, pc),
           Local(r), UNCHANGED client, NEW q \in Runs, q # r
    PROVE  Quiet(q)
<1>1. \A v \in Workers : RunOf(v)' = RunOf(v)
  BY DEF Goes, RunOf
<1>2. \A v \in Workers : WalkOn(v, q)' => WalkOn(v, q)
  BY <1>1 DEF Goes, WalkOn
<1>3. \A v \in Workers : PastOn(v, q)' => PastOn(v, q)
  BY <1>1 DEF Goes, PastOn
<1>4. ASSUME NEW j \in Job, LooseJob(j, q)' PROVE LooseJob(j, q)
  <2>1. j.run = q /\ j \in waiting \cup active /\ j.kind = "retry"
    BY <1>4 DEF LooseJob, Dangling, Local
  <2>2. ~ HasRow(j.run, j.cursor, j.attempt)
    BY <1>4, <2>1 DEF LooseJob, Dangling, Local, HasRow
  <2>3. \A v \in Workers : walk[v].pc \in Holding => walk[v].job # j
    BY <1>4, <2>1 DEF LooseJob, Dangling, Goes, RunOf
  <2> QED BY <2>1, <2>2, <2>3 DEF LooseJob, Dangling
<1>5. \A c \in Clients : RequestOn(c, q)' => RequestOn(c, q)
  BY DEF RequestOn
<1> QED BY <1>2, <1>3, <1>4, <1>5 DEF Quiet

\* So only the slot's own run is left to show.
LEMMA OwnRun ==
    ASSUME DInv, NEW w \in Workers, NEW r \in Runs, r = RunOf(w), NEW pc, Goes(w, pc),
           Local(r), UNCHANGED <<client, grantActive>>, OneDriver(r)'
    PROVE  \A q \in Runs : OneDriver(q)'
<1> SUFFICES ASSUME NEW q \in Runs, q # r PROVE OneDriver(q)'
  OBVIOUS
<1>1. Quiet(q)
  BY OthersQuiet
<1>2. GrantUsable' => GrantUsable
  BY DEF GrantUsable
<1>3. status'[q] = status[q] /\ OneDriver(q)
  BY DEF Local, DInv
<1> QED BY <1>1, <1>2, <1>3, QuietRun
\* Rows stay; only those of run r may grow.
RowsKept(r) ==
    /\ \A q \in Runs : q # r => ledger'[q] = ledger[q]
    /\ \A q \in Runs : \A step, attempt : HasRow(q, step, attempt) => HasRow(q, step, attempt)'

\* A step of a slot that neither takes up nor leaves its run, nor passes the
\* grant check.
LEMMA OwnQuiet ==
    ASSUME DInv, NEW w \in Workers, NEW r \in Runs, r = RunOf(w), NEW pc, Goes(w, pc),
           pc \in Holding <=> walk[w].pc \in Holding,
           pc \in PastContext => walk[w].pc \in PastContext,
           UNCHANGED client, RowsKept(r),
           (waiting \cup active)' \subseteq waiting \cup active
    PROVE  Quiet(r)
<1>1. \A v \in Workers : RunOf(v)' = RunOf(v)
  BY DEF Goes, RunOf
<1>2. \A v \in Workers : WalkOn(v, r)' => WalkOn(v, r)
  BY <1>1 DEF Goes, WalkOn
<1>3. \A v \in Workers : PastOn(v, r)' => PastOn(v, r)
  BY <1>1 DEF Goes, PastOn
<1>4. ASSUME NEW j \in Job, LooseJob(j, r)' PROVE LooseJob(j, r)
  <2>1. j.run = r /\ j \in waiting \cup active /\ j.kind = "retry"
    BY <1>4 DEF LooseJob, Dangling
  <2>2. ~ HasRow(j.run, j.cursor, j.attempt)
    <3>1. ~ HasRow(j.run, j.cursor, j.attempt)'
      BY <1>4 DEF LooseJob, Dangling
    <3> QED BY <2>1, <3>1 DEF RowsKept
  <2>3. \A v \in Workers : walk[v].pc \in Holding => walk[v].job # j
    BY <1>4 DEF LooseJob, Dangling, Goes
  <2> QED BY <2>1, <2>2, <2>3 DEF LooseJob, Dangling
<1>5. \A c \in Clients : RequestOn(c, r)' => RequestOn(c, r)
  BY DEF RequestOn
<1> QED BY <1>2, <1>3, <1>4, <1>5 DEF Quiet

\* A walk that leaves its run with its attempt recorded leaves nothing behind.
LEMMA OwnLeft ==
    ASSUME DInv, NEW w \in Workers, NEW r \in Runs, PastOn(w, r), NEW pc, Goes(w, pc),
           pc \notin Holding, UNCHANGED client, RowsKept(r),
           walk[w].job.kind = "retry" => JobHasRow(walk[w].job)'
    PROVE  /\ \A v \in Workers : ~ WalkOn(v, r)'
           /\ \A c \in Clients : ~ RequestOn(c, r)'
           /\ \A j \in Job : LooseJob(j, r)' => j \notin waiting \cup active
<1>1. Alone(w, r)
  BY DEF DInv, OneDriver
<1>2. \A v \in Workers : ~ WalkOn(v, r)'
  <2>1. \A v \in Workers : v # w => ~ WalkOn(v, r)
    BY <1>1 DEF Alone
  <2> QED BY <2>1 DEF Goes, WalkOn, RunOf
<1>3. \A c \in Clients : ~ RequestOn(c, r)'
  BY <1>1 DEF Alone, RequestOn
<1>4. ASSUME NEW j \in Job, LooseJob(j, r)', j \in waiting \cup active PROVE FALSE
  <2>1. j.run = r /\ j.kind = "retry" /\ ~ HasRow(j.run, j.cursor, j.attempt)'
    BY <1>4 DEF LooseJob, Dangling
  <2>2. ~ HasRow(j.run, j.cursor, j.attempt)
    BY <2>1 DEF RowsKept
  <2>3. PICK v \in Workers : walk[v].pc \in Holding /\ walk[v].job = j
    BY <1>1, <1>4, <2>1, <2>2 DEF Alone, LooseJob, Dangling
  <2>4. v = w
    BY <1>1, <2>1, <2>3 DEF Alone, WalkOn, RunOf
  <2>5. ~ JobHasRow(j)'
    BY <2>1 DEF JobHasRow
  <2>6. JobHasRow(walk[w].job)'
    BY <2>1, <2>3, <2>4
  <2>7. walk'[w].job = j
    BY <2>3, <2>4 DEF Goes
  <2> QED BY <2>5, <2>6, <2>7 DEF JobHasRow
<1> QED BY <1>2, <1>3, <1>4

\* A slot about to check its retry job has a loose job in hand.
LEMMA CheckedIsLoose ==
    ASSUME DInv, NEW w \in Workers, walk[w].pc = "check"
    PROVE  walk[w].job \in Job /\ LooseJob(walk[w].job, RunOf(w))
<1>1. walk[w].job \in Job /\ walk[w].job.kind = "retry"
  BY Walking DEF DInv, WalkHolds
<1>2. walk[w].job \in active /\ ~ JobHasRow(walk[w].job)
  BY <1>1 DEF DInv, Slots, RetryWalk
<1>3. "check" \notin Holding /\ "idle" \notin Holding
  BY DEF Holding, PastContext
<1>4. \A v \in Workers : walk[v].pc \in Holding => walk[v].job # walk[w].job
  BY <1>3 DEF DInv, Slots
<1> QED BY <1>1, <1>2, <1>4 DEF LooseJob, Dangling, JobHasRow, RunOf

\* The rest of the invariant after a step of a slot: only a walk that has its
\* run for itself adds rows.
LEMMA WorkerRest ==
    ASSUME DInv, TInv', NEW w \in Workers, NEW r \in Runs, r = RunOf(w),
           walk[w].pc # "idle", NEW pc, Goes(w, pc), pc \notin {"idle", "safe"},
           pc = "inactive" => ~ GrantUsable,
           UNCHANGED <<active, grantActive>>, waiting' \cap active = {},
           RowsKept(r), UNCHANGED ledger \/ PastOn(w, r), RetryWalk(w)',
           \A q \in Runs : OneDriver(q)'
    PROVE  DInv'
<1>1. Slots'
  BY DEF DInv, Slots, Goes
<1>2. Refusing'
  BY DEF DInv, Refusing, Goes, GrantUsable
<1>3. ASSUME NEW v \in Workers, v # w PROVE RetryWalk(v)'
  <2>1. walk'[v] = walk[v] /\ RetryWalk(v)
    BY <1>3 DEF Goes, DInv
  <2>2. PICK j : j = walk[v].job
    OBVIOUS
  <2>3. walk[v].pc # "idle" => j \in Job /\ j.run \in Runs
    BY <2>2, Walking DEF DInv, RunOf
  <2>4. walk[v].pc # "idle" /\ JobHasRow(j) => JobHasRow(j)'
    BY <2>3 DEF RowsKept, JobHasRow
  <2>5. walk[v].pc = "check" /\ ~ JobHasRow(j) => ~ JobHasRow(j)'
    <3> SUFFICES ASSUME walk[v].pc = "check" PROVE ~ JobHasRow(j) => ~ JobHasRow(j)'
      OBVIOUS
    <3>1. CASE UNCHANGED ledger \/ j.run # r
      BY <3>1, <2>3 DEF RowsKept, JobHasRow, HasRow
    <3>2. CASE PastOn(w, r) /\ j.run = r
      <4>1. j \in Job /\ LooseJob(j, r)
        BY <2>2, <3>2, CheckedIsLoose DEF RunOf
      <4>2. Alone(w, r)
        BY <3>2 DEF DInv, OneDriver
      <4> QED BY <4>1, <4>2 DEF Alone
    <3> QED BY <3>1, <3>2
  <2>6. "idle" \notin PastContext
    BY DEF PastContext
  <2> QED BY <2>1, <2>2, <2>4, <2>5, <2>6 DEF RetryWalk, JobHasRow
<1> QED BY <1>1, <1>2, <1>3 DEF DInv

\* AppendRow adds the row it is given to its run and nothing else.
LEMMA RowAdded ==
    ASSUME TInv, NEW r \in Runs, NEW step, NEW attempt, NEW st,
           AppendRow(r, step, attempt, st)
    PROVE  RowsKept(r) /\ HasRow(r, step, attempt)'
<1>1. PICK row : row = [step |-> step, attempt |-> attempt, status |-> st]
  OBVIOUS
<1>2. ledger \in [Runs -> Seq(Rows)] /\ ledger' = [ledger EXCEPT ![r] = Append(@, row)]
  BY <1>1 DEF TInv, TypeOK, AppendRow
<1>3. PICK rows : rows = ledger[r]
  OBVIOUS
<1>4. rows \in Seq(Rows) /\ Len(rows) \in Nat /\ DOMAIN rows = 1 .. Len(rows)
  BY <1>2, <1>3, LenProperties
<1>5. PICK more : more = Append(rows, row)
  OBVIOUS
<1>6. rows \in Seq(Rows \cup {row}) /\ row \in Rows \cup {row}
  BY <1>4, SeqMonotonic
<1>7. /\ Len(more) = Len(rows) + 1 /\ more \in Seq(Rows \cup {row})
      /\ \A i \in 1 .. Len(rows) : more[i] = rows[i]
      /\ more[Len(rows) + 1] = row
  BY <1>5, <1>6, AppendProperties
<1>8. DOMAIN more = 1 .. Len(rows) + 1
  BY <1>7, LenProperties
<1>9. ledger'[r] = more /\ \A q \in Runs : q # r => ledger'[q] = ledger[q]
  BY <1>2, <1>3, <1>5
<1>10. HasRow(r, step, attempt)'
  <2>1. Len(rows) + 1 \in DOMAIN more
    BY <1>4, <1>8
  <2>2. more[Len(rows) + 1].step = step /\ more[Len(rows) + 1].attempt = attempt
    BY <1>1, <1>7
  <2> QED BY <2>1, <2>2, <1>9 DEF HasRow
<1>11. ASSUME NEW q \in Runs, NEW s, NEW n, HasRow(q, s, n) PROVE HasRow(q, s, n)'
  <2>1. CASE q = r
    <3>1. PICK i \in DOMAIN rows : rows[i].step = s /\ rows[i].attempt = n
      BY <1>3, <1>11, <2>1 DEF HasRow
    <3>2. i \in DOMAIN more /\ more[i] = rows[i]
      BY <1>4, <1>7, <1>8, <3>1
    <3> QED BY <1>9, <2>1, <3>1, <3>2 DEF HasRow
  <2>2. CASE q # r
    BY <1>9, <1>11, <2>2 DEF HasRow
  <2> QED BY <2>1, <2>2
<1> QED BY <1>9, <1>10, <1>11 DEF RowsKept

\* A step that leaves the ledger alone keeps every row.
LEMMA RowsSame ==
    ASSUME NEW r \in Runs, UNCHANGED ledger
    PROVE  RowsKept(r)
  BY DEF RowsKept, HasRow
-----------------------------------------------------------------------------
(***************************************************************************)
(* The slot's own steps.                                                   *)
(***************************************************************************)
\* WalkTo moves the slot and keeps what it holds.
LEMMA WalkToGoes ==
    ASSUME TInv, NEW w \in Workers, NEW pc, WalkTo(w, pc)
    PROVE  /\ Goes(w, pc)
           /\ walk'[w].cursor = walk[w].cursor /\ walk'[w].attempt = walk[w].attempt
  BY DEF Goes, WalkTo, TInv, TypeOK, Walks

\* A run whose status says nobody drives it.
LEMMA NotDriven ==
    ASSUME DInv, NEW r \in Runs, status[r] \notin {"RUNNING", "FAILED"}
    PROVE  ~ Driven(r)
  BY DEF DInv, OneDriver

\* A step of a slot within its run, past the grant check or before it, that
\* touches no status, no job and no other run's rows.
LEMMA WithinRun ==
    ASSUME DInv, TInv', NEW w \in Workers, NEW r \in Runs, r = RunOf(w),
           walk[w].pc # "idle", NEW pc, Goes(w, pc), pc \notin {"idle", "safe"},
           pc = "inactive" => ~ GrantUsable,
           pc \in Holding <=> walk[w].pc \in Holding,
           pc \in PastContext => walk[w].pc \in PastContext,
           UNCHANGED <<status, queueVars, client, grantActive>>,
           RowsKept(r), UNCHANGED ledger \/ PastOn(w, r), RetryWalk(w)'
    PROVE  DInv'
<1>1. UNCHANGED <<waiting, active>> /\ Local(r)
  BY DEF queueVars, Local, RowsKept
<1>2. Quiet(r)
  BY <1>1, OwnQuiet
<1>3. OneDriver(r)'
  <2>1. GrantUsable' => GrantUsable
    BY DEF GrantUsable
  <2> QED BY <1>2, <2>1, QuietRun DEF DInv
<1>4. \A q \in Runs : OneDriver(q)'
  BY <1>1, <1>3, OwnRun
<1> QED BY <1>1, <1>4, WorkerRest DEF DInv, Slots

\* A claim: nobody drives the run, and the slot takes it up.
LEMMA Claimed ==
    ASSUME DInv, TInv', NEW w \in Workers, NEW r \in Runs, r = RunOf(w),
           walk[w].pc # "idle", NEW pc \in Holding, Goes(w, pc), pc # "inactive",
           status[r] \notin {"RUNNING", "FAILED"},
           status' = [status EXCEPT ![r] = "RUNNING"],
           UNCHANGED <<ledger, queueVars, client, grantActive>>, RetryWalk(w)'
    PROVE  DInv'
<1>1. UNCHANGED <<waiting, active>> /\ Local(r)
  BY DEF queueVars, Local, DInv, TInv, TypeOK
<1>2. ~ Driven(r)
  BY NotDriven
<1>3. Alone(w, r)'
  <2>1. status'[r] = "RUNNING"
    BY DEF DInv, TInv, TypeOK
  <2>2. \A v \in Workers : WalkOn(v, r)' => v = w
    BY <1>2 DEF Driven, WalkOn, Goes, RunOf
  <2>3. ASSUME NEW j \in Job, LooseJob(j, r)' PROVE LooseJob(j, r)
    <3>1. ~ HasRow(j.run, j.cursor, j.attempt)
      BY <2>3 DEF LooseJob, Dangling, HasRow
    <3>2. \A v \in Workers : walk[v].pc \in Holding => walk[v].job # j
      BY <2>3 DEF LooseJob, Dangling, Goes
    <3> QED BY <1>1, <2>3, <3>1, <3>2 DEF LooseJob, Dangling
  <2>4. \A c \in Clients : ~ RequestOn(c, r)'
    BY <1>2 DEF Driven, RequestOn
  <2> QED BY <1>2, <2>1, <2>2, <2>3, <2>4 DEF Alone, Driven
<1>4. OneDriver(r)'
  BY <1>3, SoleWalk
<1>5. \A q \in Runs : OneDriver(q)'
  BY <1>1, <1>4, OwnRun
<1>6. pc \notin {"idle", "safe"}
  BY DEF Holding, PastContext
<1> QED BY <1>1, <1>5, <1>6, RowsSame, WorkerRest DEF DInv, Slots

\* claimForStart: the claim of a PENDING run, or no claim.
LEMMA ClaimStartDInv ==
    ASSUME DInv, TInv', NEW w \in Workers, ClaimStart(w)
    PROVE  DInv'
<1>0. PICK r : r = RunOf(w)
  OBVIOUS
<1>1. TInv /\ walk[w].pc = "claim" /\ walk[w].job.kind = "start" /\ r \in Runs
  BY <1>0, Walking DEF DInv, ClaimStart
<1>2. UNCHANGED <<ledger, queueVars, client, grantActive>>
  BY DEF ClaimStart, envVars
<1>3. CASE status[r] = "PENDING"
  <2>1. status' = [status EXCEPT ![r] = "RUNNING"]
    BY <1>0, <1>3 DEF ClaimStart
  <2>2. Goes(w, "build")
    <3>1. PICK key : key = StepsOf(RunOf(w))[1].key
      OBVIOUS
    <3>2. walk' = [walk EXCEPT ![w].pc = "build", ![w].cursor = key]
      BY <1>0, <1>3, <3>1 DEF ClaimStart
    <3> QED BY <1>1, <3>2 DEF Goes, TInv, TypeOK, Walks
  <2>3. RetryWalk(w)'
    BY <1>1, <2>2 DEF RetryWalk, Goes
  <2> QED BY <1>0, <1>1, <1>2, <1>3, <2>1, <2>2, <2>3, Claimed DEF Holding
<1>4. CASE status[r] # "PENDING"
  <2>1. WalkTo(w, "done") /\ UNCHANGED status
    BY <1>0, <1>4 DEF ClaimStart
  <2>2. Goes(w, "done")
    BY <1>1, <2>1, WalkToGoes
  <2>3. RetryWalk(w)'
    BY <1>1, <2>2 DEF RetryWalk, Goes
  <2> QED BY <1>0, <1>1, <1>2, <2>1, <2>2, <2>3, WithinRun, RowsSame DEF Holding, PastContext
<1> QED BY <1>3, <1>4

\* claimForResume: the claim of an AWAITING_INPUT run, or no claim.
LEMMA ClaimResumeDInv ==
    ASSUME DInv, TInv', NEW w \in Workers, ClaimResume(w)
    PROVE  DInv'
<1>0. PICK r : r = RunOf(w)
  OBVIOUS
<1>1. TInv /\ walk[w].pc = "claim" /\ walk[w].job.kind = "resume" /\ r \in Runs
  BY <1>0, Walking DEF DInv, ClaimResume
<1>2. UNCHANGED <<ledger, queueVars, client, grantActive>>
  BY DEF ClaimResume, envVars
<1>3. CASE status[r] = "AWAITING_INPUT"
  <2>1. status' = [status EXCEPT ![r] = "RUNNING"]
    BY <1>0, <1>3 DEF ClaimResume
  <2>2. PICK pc \in {"terminal", "build"} : WalkTo(w, pc)
    BY <1>0, <1>3 DEF ClaimResume
  <2>3. Goes(w, pc)
    BY <1>1, <2>2, WalkToGoes
  <2>4. RetryWalk(w)'
    BY <1>1, <2>3 DEF RetryWalk, Goes
  <2>5. pc \in Holding /\ pc # "inactive"
    BY <2>2 DEF Holding, PastContext
  <2> QED BY <1>0, <1>1, <1>2, <1>3, <2>1, <2>3, <2>4, <2>5, Claimed
<1>4. CASE status[r] # "AWAITING_INPUT"
  <2>1. WalkTo(w, "done") /\ UNCHANGED status
    BY <1>0, <1>4 DEF ClaimResume
  <2>2. Goes(w, "done")
    BY <1>1, <2>1, WalkToGoes
  <2>3. RetryWalk(w)'
    BY <1>1, <2>2 DEF RetryWalk, Goes
  <2> QED BY <1>0, <1>1, <1>2, <2>1, <2>2, <2>3, WithinRun, RowsSame DEF Holding, PastContext
<1> QED BY <1>3, <1>4

\* attemptExists: only an attempt without a row goes on to the status check.
LEMMA CheckAttemptDInv ==
    ASSUME DInv, TInv', NEW w \in Workers, CheckAttempt(w)
    PROVE  DInv'
<1>0. PICK r : r = RunOf(w)
  OBVIOUS
<1>1. /\ TInv /\ walk[w].pc = "claim" /\ r \in Runs
      /\ walk[w].job.kind = "retry" /\ RetryWalk(w)
  BY <1>0, Walking DEF DInv, CheckAttempt
<1>2. UNCHANGED <<status, ledger, queueVars, client, grantActive>>
  BY DEF CheckAttempt, envVars, dbVars
<1>3. PICK pc \in {"done", "check"} :
         WalkTo(w, pc) /\ (pc = "check" => ~ HasRow(RunOf(w), walk[w].cursor, walk[w].attempt))
  BY DEF CheckAttempt
<1>4. Goes(w, pc) /\ walk'[w].cursor = walk[w].cursor /\ walk'[w].attempt = walk[w].attempt
  BY <1>1, <1>3, WalkToGoes
<1>5. RetryWalk(w)'
  <2>1. walk[w].cursor = walk[w].job.cursor /\ walk[w].attempt = walk[w].job.attempt
    BY <1>1 DEF RetryWalk
  <2>2. pc = "check" => ~ JobHasRow(walk[w].job)
    BY <1>3, <2>1 DEF JobHasRow, RunOf
  <2>3. pc = "check" => ~ JobHasRow(walk[w].job)'
    BY <1>2, <1>4, <2>2 DEF JobHasRow, HasRow, Goes
  <2> QED BY <1>3, <1>4, <2>1, <2>3 DEF RetryWalk, Goes, PastContext
<1> QED BY <1>0, <1>1, <1>2, <1>3, <1>4, <1>5, WithinRun, RowsSame DEF Holding, PastContext

\* The second check: the slot takes its loose job's place, or gives up.
LEMMA CheckRunningDInv ==
    ASSUME DInv, TInv', NEW w \in Workers, CheckRunning(w)
    PROVE  DInv'
<1>0. PICK r, j : r = RunOf(w) /\ j = walk[w].job
  OBVIOUS
<1>1. TInv /\ walk[w].pc = "check" /\ r \in Runs /\ RetryWalk(w)
  BY <1>0, Walking DEF DInv, CheckRunning
<1>2. UNCHANGED <<status, ledger, waiting, active, queueVars, client, grantActive>>
  BY DEF CheckRunning, envVars, dbVars, queueVars
<1>3. CASE status[r] = "RUNNING"
  <2>1. Goes(w, "build") /\ walk'[w].cursor = walk[w].cursor /\ walk'[w].attempt = walk[w].attempt
    BY <1>0, <1>1, <1>3, WalkToGoes DEF CheckRunning
  <2>2. RetryWalk(w)'
    BY <1>1, <2>1 DEF RetryWalk, Goes, PastContext
  <2>3. Local(r)
    BY <1>2 DEF Local
  <2>4. j \in Job /\ LooseJob(j, r)
    BY <1>0, <1>1, CheckedIsLoose
  <2>5. \A v \in Workers : ~ PastOn(v, r)
    BY <1>1, <2>4 DEF DInv, OneDriver, Alone
  <2>6. \A v \in Workers : ~ PastOn(v, r)'
    BY <2>1, <2>5 DEF PastOn, Goes, RunOf, PastContext
  <2>7. \A v \in Workers : WalkOn(v, r)' => v = w \/ WalkOn(v, r)
    BY <2>1 DEF WalkOn, Goes, RunOf
  <2>8. ASSUME NEW i \in Job, LooseJob(i, r)' PROVE LooseJob(i, r) /\ i # j
    <3>1. ~ HasRow(i.run, i.cursor, i.attempt)
      BY <1>2, <2>8 DEF LooseJob, Dangling, HasRow
    <3>2. "build" \in Holding /\ "check" \notin Holding
      BY DEF Holding, PastContext
    <3>3. \A v \in Workers : walk[v].pc \in Holding => walk[v].job # i
      BY <1>1, <2>1, <2>8, <3>2 DEF LooseJob, Dangling, Goes
    <3>4. i # j
      BY <1>0, <2>1, <2>8, <3>2 DEF LooseJob, Dangling, Goes
    <3> QED BY <1>2, <2>8, <3>1, <3>3, <3>4 DEF LooseJob, Dangling
  <2>9. \A c \in Clients : RequestOn(c, r)' => RequestOn(c, r)
    BY <1>2 DEF RequestOn
  <2>10. GrantUsable' => AtMostOne(r)'
    <3> SUFFICES ASSUME GrantUsable' PROVE AtMostOne(r)'
      OBVIOUS
    <3>1. AtMostOne(r)
      BY <1>1, <1>2 DEF GrantUsable, DInv, OneDriver
    <3>2. \A v \in Workers : ~ WalkOn(v, r)
      BY <2>4, <3>1 DEF AtMostOne
    <3>3. \A i \in Job : LooseJob(i, r) => i = j
      BY <2>4, <3>1 DEF AtMostOne
    <3>4. \A c \in Clients : ~ RequestOn(c, r)
      BY <2>4, <3>1 DEF AtMostOne
    <3> QED BY <2>7, <2>8, <2>9, <3>2, <3>3, <3>4 DEF AtMostOne
  <2>11. OneDriver(r)'
    BY <1>2, <1>3, <2>6, <2>10 DEF OneDriver
  <2>12. \A q \in Runs : OneDriver(q)'
    BY <1>0, <1>1, <1>2, <2>1, <2>3, <2>11, OwnRun
  <2> QED BY <1>0, <1>1, <1>2, <2>1, <2>2, <2>12, RowsSame, WorkerRest DEF DInv, Slots
<1>4. CASE status[r] # "RUNNING"
  <2>1. Goes(w, "done")
    BY <1>0, <1>1, <1>4, WalkToGoes DEF CheckRunning
  <2>2. RetryWalk(w)'
    BY <1>1, <2>1 DEF RetryWalk, Goes, PastContext
  <2> QED BY <1>0, <1>1, <1>2, <2>1, <2>2, WithinRun, RowsSame DEF Holding, PastContext
<1> QED BY <1>3, <1>4

\* The grant check: whoever passes it finds its run RUNNING and nobody else on
\* it, since the grant is usable.
LEMMA BuildContextDInv ==
    ASSUME DInv, TInv', NEW w \in Workers, BuildContext(w)
    PROVE  DInv'
<1>0. PICK r : r = RunOf(w)
  OBVIOUS
<1>1. TInv /\ walk[w].pc = "build" /\ r \in Runs /\ RetryWalk(w)
  BY <1>0, Walking DEF DInv, BuildContext
<1>2. UNCHANGED <<status, ledger, waiting, active, queueVars, client, grantActive>>
  BY DEF BuildContext, envVars, dbVars, queueVars
<1>3. CASE GrantUsable
  <2>1. Goes(w, "exec") /\ walk'[w].cursor = walk[w].cursor /\ walk'[w].attempt = walk[w].attempt
    BY <1>1, <1>3, WalkToGoes DEF BuildContext
  <2>2. RetryWalk(w)'
    BY <1>1, <2>1 DEF RetryWalk, Goes
  <2>3. WalkOn(w, r) /\ "exec" \in Holding /\ "build" \in Holding
    BY <1>0, <1>1 DEF WalkOn, Holding, PastContext
  <2>4. Alone(w, r)
    BY <1>1, <1>3, <2>3 DEF DInv, OneDriver, AtMostOne, Driven, Alone
  <2>5. Alone(w, r)'
    <3>1. \A v \in Workers : WalkOn(v, r)' => v = w
      BY <2>1, <2>4 DEF Alone, WalkOn, Goes, RunOf
    <3>2. ASSUME NEW i \in Job, LooseJob(i, r)' PROVE LooseJob(i, r)
      <4>1. ~ HasRow(i.run, i.cursor, i.attempt)
        BY <1>2, <3>2 DEF LooseJob, Dangling, HasRow
      <4>2. \A v \in Workers : walk[v].pc \in Holding => walk[v].job # i
        BY <2>1, <2>3, <3>2 DEF LooseJob, Dangling, Goes
      <4> QED BY <1>2, <3>2, <4>1, <4>2 DEF LooseJob, Dangling
    <3>3. \A c \in Clients : RequestOn(c, r)' => RequestOn(c, r)
      BY <1>2 DEF RequestOn
    <3> QED BY <1>2, <2>4, <3>1, <3>2, <3>3 DEF Alone
  <2>6. \A q \in Runs : OneDriver(q)'
    BY <1>0, <1>1, <1>2, <2>1, <2>5, SoleWalk, OwnRun DEF Local
  <2> QED BY <1>0, <1>1, <1>2, <2>1, <2>2, <2>6, RowsSame, WorkerRest DEF DInv, Slots
<1>4. CASE ~ GrantUsable
  <2>1. Goes(w, "inactive")
    BY <1>1, <1>4, WalkToGoes DEF BuildContext
  <2>2. RetryWalk(w)'
    BY <1>1, <2>1 DEF RetryWalk, Goes, PastContext
  <2> QED BY <1>0, <1>1, <1>2, <1>4, <2>1, <2>2, WithinRun, RowsSame DEF Holding, PastContext
<1> QED BY <1>3, <1>4

\* The walk that lost its grant leaves a FAILED run, perhaps with its job.
LEMMA FinalizeInactiveDInv ==
    ASSUME DInv, TInv', NEW w \in Workers, FinalizeInactive(w)
    PROVE  DInv'
<1>0. PICK r : r = RunOf(w)
  OBVIOUS
<1>1. TInv /\ walk[w].pc = "inactive" /\ r \in Runs /\ RetryWalk(w) /\ ~ GrantUsable
  BY <1>0, Walking DEF DInv, FinalizeInactive, Refusing
<1>2. UNCHANGED <<ledger, waiting, active, queueVars, client, grantActive>>
  BY DEF FinalizeInactive, envVars, queueVars
<1>3. status' = [status EXCEPT ![r] = "FAILED"]
  BY <1>0 DEF FinalizeInactive
<1>4. Goes(w, "done")
  BY <1>1, WalkToGoes DEF FinalizeInactive
<1>5. RetryWalk(w)'
  BY <1>1, <1>4 DEF RetryWalk, Goes, PastContext
<1>6. Local(r) /\ status'[r] = "FAILED"
  BY <1>1, <1>2, <1>3 DEF Local, TInv, TypeOK
<1>7. WalkOn(w, r)
  BY <1>0, <1>1 DEF WalkOn, Holding
<1>8. \A v \in Workers : ~ PastOn(v, r)
  BY <1>1, <1>7 DEF DInv, OneDriver, Alone, PastOn, PastContext
<1>9. \A v \in Workers : ~ PastOn(v, r)'
  BY <1>4, <1>8 DEF PastOn, Goes, RunOf, PastContext
<1>10. ~ GrantUsable'
  BY <1>1, <1>2 DEF GrantUsable
<1>11. OneDriver(r)'
  BY <1>6, <1>9, <1>10 DEF OneDriver
<1>12. \A q \in Runs : OneDriver(q)'
  BY <1>0, <1>1, <1>2, <1>4, <1>6, <1>11, OwnRun
<1> QED BY <1>0, <1>1, <1>2, <1>4, <1>5, <1>12, RowsSame, WorkerRest DEF DInv, Slots

\* A slot that is past the grant check, and its run.
LEMMA Past ==
    ASSUME DInv, NEW w \in Workers, walk[w].pc \in PastContext, NEW r, r = RunOf(w)
    PROVE  /\ TInv /\ r \in Runs /\ walk[w].pc # "idle" /\ PastOn(w, r) /\ RetryWalk(w)
           /\ walk[w] \in Walks /\ Alone(w, r) /\ walk[w].pc \in Holding
<1>1. walk[w].pc # "idle" /\ walk[w].pc \in Holding
  BY DEF PastContext, Holding
<1>2. r \in Runs /\ walk[w] \in Walks
  BY <1>1, Walking DEF DInv
<1>3. PastOn(w, r)
  BY DEF PastOn
<1> QED BY <1>1, <1>2, <1>3 DEF DInv, OneDriver

\* A step past the grant check that stays there.
LEMMA PastStep ==
    ASSUME DInv, TInv', NEW w \in Workers, walk[w].pc \in PastContext,
           NEW r, r = RunOf(w), NEW pc \in PastContext, Goes(w, pc),
           UNCHANGED <<status, queueVars, client, grantActive>>,
           RowsKept(r), RetryWalk(w)'
    PROVE  DInv'
<1>1. /\ r \in Runs /\ walk[w].pc # "idle" /\ PastOn(w, r)
      /\ walk[w].pc \in Holding
  BY Past
<1>2. pc \notin {"idle", "safe", "inactive"} /\ pc \in Holding
  BY DEF PastContext, Holding
<1> QED BY <1>1, <1>2, WithinRun

\* A resume at a terminal token goes on to compensate or to settle.
LEMMA FinalizeTerminalDInv ==
    ASSUME DInv, TInv', NEW w \in Workers, FinalizeTerminal(w)
    PROVE  DInv'
<1>0. PICK r : r = RunOf(w)
  OBVIOUS
<1>1. walk[w].pc = "terminal" /\ walk[w].pc \in PastContext
  BY DEF FinalizeTerminal, PastContext
<1>2. TInv /\ r \in Runs /\ RetryWalk(w) /\ walk[w] \in Walks
  BY <1>0, <1>1, Past
<1>3. UNCHANGED <<status, ledger, queueVars, client, grantActive>>
  BY DEF FinalizeTerminal, envVars, dbVars
<1>4. PICK pc, out, cursor :
         /\ pc = (IF walk[w].cursor = Compensate THEN "undo" ELSE "settle")
         /\ walk' = [walk EXCEPT ![w].pc = pc, ![w].out = out, ![w].cursor = cursor]
  BY DEF FinalizeTerminal
<1>5. pc \in {"undo", "settle"}
  BY <1>4
<1>6. Goes(w, pc)
  BY <1>2, <1>4 DEF Goes, TInv, TypeOK, Walks
<1>7. RetryWalk(w)'
  BY <1>1, <1>2, <1>3, <1>5, <1>6 DEF RetryWalk, JobHasRow, HasRow, Goes, PastContext
<1> QED BY <1>0, <1>1, <1>2, <1>3, <1>5, <1>6, <1>7, PastStep, RowsSame DEF PastContext

\* The remote call: the attempt in hand is still the one to be recorded.
LEMMA ExecuteDInv ==
    ASSUME DInv, TInv', NEW w \in Workers, Execute(w)
    PROVE  DInv'
<1>0. PICK r : r = RunOf(w)
  OBVIOUS
<1>1. walk[w].pc = "exec" /\ walk[w].pc \in PastContext
  BY DEF Execute, PastContext
<1>2. TInv /\ r \in Runs /\ RetryWalk(w) /\ walk[w] \in Walks
  BY <1>0, <1>1, Past
<1>3. UNCHANGED <<status, ledger, queueVars, client, grantActive>>
  BY DEF Execute, envVars, dbVars
<1>4. PICK out : walk' = [walk EXCEPT ![w].pc = "record", ![w].out = out]
  BY DEF Execute
<1>6. Goes(w, "record") /\ walk'[w].cursor = walk[w].cursor /\ walk'[w].attempt = walk[w].attempt
  BY <1>2, <1>4 DEF Goes, TInv, TypeOK, Walks
<1>7. RetryWalk(w)'
  BY <1>1, <1>2, <1>3, <1>6 DEF RetryWalk, JobHasRow, HasRow, Goes, PastContext
<1> QED BY <1>0, <1>1, <1>2, <1>3, <1>6, <1>7, PastStep, RowsSame DEF PastContext

\* A recorded attempt: if the slot works for a retry job, its row is there now.
LEMMA Recorded ==
    ASSUME DInv, NEW w \in Workers, walk[w].pc = "record", NEW r, r = RunOf(w), NEW st,
           AppendRow(r, walk[w].cursor, walk[w].attempt, st), NEW j, j = walk[w].job
    PROVE  RowsKept(r) /\ (j.kind = "retry" => JobHasRow(j)')
<1>1. TInv /\ r \in Runs /\ RetryWalk(w) /\ walk[w].pc \in PastContext
  BY Past DEF PastContext
<1>2. PICK cursor, attempt : cursor = walk[w].cursor /\ attempt = walk[w].attempt
  OBVIOUS
<1>3. RowsKept(r) /\ HasRow(r, cursor, attempt)'
  BY <1>1, <1>2, RowAdded
<1>4. PICK s, n : s = j.cursor /\ n = j.attempt
  OBVIOUS
<1>5. j.kind = "retry" => HasRow(r, s, n) \/ (s = cursor /\ n = attempt)
  BY <1>1, <1>2, <1>4 DEF RetryWalk, JobHasRow, RunOf
<1>6. j.kind = "retry" => HasRow(r, s, n)'
  BY <1>1, <1>3, <1>5 DEF RowsKept
<1>7. r = j.run
  BY DEF RunOf
<1> QED BY <1>3, <1>4, <1>6, <1>7 DEF JobHasRow

\* A walk that goes on past the grant check with its row recorded.
LEMMA RecordedWalk ==
    ASSUME NEW w \in Workers, NEW pc \in PastContext, Goes(w, pc),
           NEW j, j = walk[w].job, j.kind = "retry" => JobHasRow(j)'
    PROVE  RetryWalk(w)'
<1>1. walk'[w].job = j /\ walk'[w].pc = pc /\ pc \notin {"claim", "check", "build"}
  BY DEF Goes, PastContext
<1> QED BY <1>1 DEF RetryWalk, JobHasRow

\* The transient failure: row first, then the re-enqueue.
LEMMA RecordRetryDInv ==
    ASSUME DInv, TInv', NEW w \in Workers, RecordRetry(w)
    PROVE  DInv'
<1>0. PICK r, j : r = RunOf(w) /\ j = walk[w].job
  OBVIOUS
<1>1. walk[w].pc = "record" /\ walk[w].pc \in PastContext /\ TInv
  BY DEF RecordRetry, PastContext, DInv
<1>2. AppendRow(r, walk[w].cursor, walk[w].attempt, "FAILED")
  BY <1>0 DEF RecordRetry
<1>3. RowsKept(r) /\ (j.kind = "retry" => JobHasRow(j)')
  <2>1. PICK st : st = "FAILED"
    OBVIOUS
  <2> QED BY <1>0, <1>1, <1>2, <2>1, Recorded
<1>4. Goes(w, "requeue")
  BY <1>1, WalkToGoes DEF RecordRetry
<1>5. UNCHANGED <<status, queueVars, client, grantActive>>
  BY DEF RecordRetry, envVars
<1>6. RetryWalk(w)'
  BY <1>0, <1>3, <1>4, RecordedWalk DEF PastContext
<1> QED BY <1>0, <1>1, <1>3, <1>4, <1>5, <1>6, PastStep DEF PastContext

\* The success row, and the step that follows.
LEMMA RecordSuccessDInv ==
    ASSUME DInv, TInv', NEW w \in Workers, RecordSuccess(w)
    PROVE  DInv'
<1>0. PICK r, j : r = RunOf(w) /\ j = walk[w].job
  OBVIOUS
<1>1. walk[w].pc = "record" /\ walk[w].pc \in PastContext /\ TInv /\ walk[w] \in Walks
  BY Past DEF RecordSuccess, PastContext
<1>2. AppendRow(r, walk[w].cursor, walk[w].attempt, "SUCCEEDED")
  BY <1>0 DEF RecordSuccess
<1>3. RowsKept(r) /\ (j.kind = "retry" => JobHasRow(j)')
  <2>1. PICK st : st = "SUCCEEDED"
    OBVIOUS
  <2> QED BY <1>0, <1>1, <1>2, <2>1, Recorded
<1>4. PICK pc \in {"settle", "exec"} : Goes(w, pc)
  <2>1. CASE Edge(w) = EndSuccess
    <3>1. WalkTo(w, "settle")
      BY <2>1 DEF RecordSuccess, WalkTo
    <3> QED BY <1>1, <3>1, WalkToGoes
  <2>2. CASE Edge(w) # EndSuccess
    <3>1. PICK edge, n, out : edge = Edge(w) /\ n = 1 /\ out = ""
      OBVIOUS
    <3>2. walk' = [walk EXCEPT ![w].pc = "exec", ![w].cursor = edge,
                               ![w].attempt = n, ![w].out = out]
      BY <2>2, <3>1 DEF RecordSuccess
    <3>3. Goes(w, "exec")
      BY <1>1, <3>2 DEF Goes, TInv, TypeOK, Walks
    <3> QED BY <3>3
  <2> QED BY <2>1, <2>2
<1>5. UNCHANGED <<status, queueVars, client, grantActive>>
  BY DEF RecordSuccess, envVars
<1>6. RetryWalk(w)'
  BY <1>0, <1>3, <1>4, RecordedWalk DEF PastContext
<1> QED BY <1>0, <1>1, <1>3, <1>4, <1>5, <1>6, PastStep DEF PastContext

\* The failure row, and the edge it takes.
LEMMA RecordFailureDInv ==
    ASSUME DInv, TInv', NEW w \in Workers, RecordFailure(w)
    PROVE  DInv'
<1>0. PICK r, j : r = RunOf(w) /\ j = walk[w].job
  OBVIOUS
<1>1. walk[w].pc = "record" /\ walk[w].pc \in PastContext /\ TInv /\ walk[w] \in Walks
  BY Past DEF RecordFailure, PastContext
<1>2. AppendRow(r, walk[w].cursor, walk[w].attempt, "FAILED")
  BY <1>0 DEF RecordFailure
<1>3. RowsKept(r) /\ (j.kind = "retry" => JobHasRow(j)')
  <2>1. PICK st : st = "FAILED"
    OBVIOUS
  <2> QED BY <1>0, <1>1, <1>2, <2>1, Recorded
<1>4. PICK pc \in {"undo", "settle", "terminal", "exec"} : Goes(w, pc)
  <2>1. CASE WalkTo(w, "undo")
    BY <1>1, <2>1, WalkToGoes
  <2>2. CASE WalkTo(w, "settle")
    BY <1>1, <2>2, WalkToGoes
  <2>3. CASE walk' = [walk EXCEPT ![w].pc = "terminal", ![w].cursor = EndSuccess]
    <3>1. Goes(w, "terminal")
      BY <1>1, <2>3 DEF Goes, TInv, TypeOK, Walks
    <3> QED BY <3>1
  <2>4. CASE walk' = [walk EXCEPT ![w].pc = "exec", ![w].cursor = Edge(w),
                                  ![w].attempt = 1, ![w].out = ""]
    <3>1. PICK edge, n, out : edge = Edge(w) /\ n = 1 /\ out = ""
      OBVIOUS
    <3>2. walk' = [walk EXCEPT ![w].pc = "exec", ![w].cursor = edge,
                               ![w].attempt = n, ![w].out = out]
      BY <2>4, <3>1
    <3>3. Goes(w, "exec")
      BY <1>1, <3>2 DEF Goes, TInv, TypeOK, Walks
    <3> QED BY <3>3
  <2> QED BY <2>1, <2>2, <2>3, <2>4 DEF RecordFailure
<1>5. UNCHANGED <<status, queueVars, client, grantActive>>
  BY DEF RecordFailure, envVars
<1>6. RetryWalk(w)'
  BY <1>0, <1>3, <1>4, RecordedWalk DEF PastContext
<1> QED BY <1>0, <1>1, <1>3, <1>4, <1>5, <1>6, PastStep DEF PastContext

\* What a walk that is neither executing nor recording has recorded.
LEMMA HasRecorded ==
    ASSUME DInv, NEW w \in Workers, walk[w].pc \in PastContext \ {"exec", "record"},
           NEW j, j = walk[w].job
    PROVE  j.kind = "retry" => JobHasRow(j)
  BY Past DEF RetryWalk

\* The refused re-enqueue: the next attempt runs in the same walk.
LEMMA RequeueRefusedDInv ==
    ASSUME DInv, TInv', NEW w \in Workers, RequeueRefused(w)
    PROVE  DInv'
<1>0. PICK r, j : r = RunOf(w) /\ j = walk[w].job
  OBVIOUS
<1>1. /\ walk[w].pc = "requeue" /\ walk[w].pc \in PastContext /\ TInv
      /\ walk[w] \in Walks /\ r \in Runs
  BY <1>0, Past DEF RequeueRefused, PastContext
<1>2. UNCHANGED <<status, ledger, queueVars, client, grantActive>>
  BY DEF RequeueRefused, envVars, dbVars
<1>3. RowsKept(r) /\ (j.kind = "retry" => JobHasRow(j)')
  <2>1. j.kind = "retry" => JobHasRow(j)
    BY <1>0, <1>1, HasRecorded
  <2> QED BY <1>1, <1>2, <2>1, RowsSame DEF JobHasRow, HasRow
<1>4. Goes(w, "exec")
  <2>1. PICK n, out : n = walk[w].attempt + 1 /\ out = ""
    OBVIOUS
  <2>2. walk' = [walk EXCEPT ![w].pc = "exec", ![w].attempt = n, ![w].out = out]
    BY <1>1, <2>1 DEF RequeueRefused, TInv, TypeOK, Walks
  <2> QED BY <1>1, <2>2 DEF Goes, TInv, TypeOK, Walks
<1>6. RetryWalk(w)'
  BY <1>0, <1>3, <1>4, RecordedWalk DEF PastContext
<1> QED BY <1>0, <1>1, <1>2, <1>3, <1>4, <1>6, PastStep DEF PastContext

\* The list of rows to undo.
LEMMA ListUndoDInv ==
    ASSUME DInv, TInv', NEW w \in Workers, ListUndo(w)
    PROVE  DInv'
<1>0. PICK r, j : r = RunOf(w) /\ j = walk[w].job
  OBVIOUS
<1>1. /\ walk[w].pc = "undo" /\ walk[w].pc \in PastContext /\ TInv
      /\ walk[w] \in Walks /\ r \in Runs
  BY <1>0, Past DEF ListUndo, PastContext
<1>2. UNCHANGED <<status, ledger, queueVars, client, grantActive>>
  BY DEF ListUndo, envVars, dbVars
<1>3. RowsKept(r) /\ (j.kind = "retry" => JobHasRow(j)')
  <2>1. j.kind = "retry" => JobHasRow(j)
    BY <1>0, <1>1, HasRecorded
  <2> QED BY <1>1, <1>2, <2>1, RowsSame DEF JobHasRow, HasRow
<1>4. Goes(w, "undoing")
  <2>1. PICK todo : todo = Succeeded(RunOf(w))
    OBVIOUS
  <2>2. walk' = [walk EXCEPT ![w].pc = "undoing", ![w].todo = todo]
    BY <2>1 DEF ListUndo
  <2> QED BY <1>1, <2>2 DEF Goes, TInv, TypeOK, Walks
<1>6. RetryWalk(w)'
  BY <1>0, <1>3, <1>4, RecordedWalk DEF PastContext
<1> QED BY <1>0, <1>1, <1>2, <1>3, <1>4, <1>6, PastStep DEF PastContext

\* One more row undone, or the compensation is over.
LEMMA RecordUndoDInv ==
    ASSUME DInv, TInv', NEW w \in Workers, RecordUndo(w)
    PROVE  DInv'
<1>0. PICK r, j : r = RunOf(w) /\ j = walk[w].job
  OBVIOUS
<1>1. /\ walk[w].pc = "undoing" /\ walk[w].pc \in PastContext /\ TInv
      /\ walk[w] \in Walks /\ r \in Runs
  BY <1>0, Past DEF RecordUndo, PastContext
<1>2. UNCHANGED <<status, queueVars, client, grantActive>>
  BY DEF RecordUndo, envVars
<1>3. RowsKept(r)
  <2>1. CASE UNCHANGED ledger
    BY <1>1, <2>1, RowsSame
  <2>2. CASE ~ UNCHANGED ledger
    <3>1. PICK step, attempt, st : AppendRow(r, step, attempt, st)
      BY <1>0, <2>2 DEF RecordUndo
    <3> QED BY <1>1, <3>1, RowAdded
  <2> QED BY <2>1, <2>2
<1>4. j.kind = "retry" => JobHasRow(j)'
  <2>1. j.kind = "retry" => JobHasRow(j)
    BY <1>0, <1>1, HasRecorded
  <2>2. j.run = r
    BY <1>0 DEF RunOf
  <2> QED BY <1>1, <1>3, <2>1, <2>2 DEF JobHasRow, RowsKept
<1>5. PICK pc \in {"settle", "undoing"} : Goes(w, pc)
  <2>1. CASE walk' = [walk EXCEPT ![w].pc = "settle", ![w].out = "COMPENSATED"]
    <3>1. Goes(w, "settle")
      BY <1>1, <2>1 DEF Goes, TInv, TypeOK, Walks
    <3> QED BY <3>1
  <2>2. ASSUME NEW i, walk' = [walk EXCEPT ![w].todo = @ \ {i}]
        PROVE  Goes(w, "undoing")
    <3>1. PICK todo : todo = walk[w].todo \ {i}
      OBVIOUS
    <3>2. walk' = [walk EXCEPT ![w].todo = todo]
      BY <1>1, <2>2, <3>1 DEF TInv, TypeOK, Walks
    <3> QED BY <1>1, <3>2 DEF Goes, TInv, TypeOK, Walks
  <2> QED BY <2>1, <2>2 DEF RecordUndo
<1>6. RetryWalk(w)'
  BY <1>0, <1>4, <1>5, RecordedWalk DEF PastContext
<1> QED BY <1>0, <1>1, <1>2, <1>3, <1>5, <1>6, PastStep DEF PastContext

\* A walk that leaves its run after its last write: nobody drives the run.
LEMMA LeftIdle ==
    ASSUME DInv, TInv', NEW w \in Workers, walk[w].pc \in PastContext,
           NEW r, r = RunOf(w), Goes(w, "done"), RowsKept(r),
           NEW j, j = walk[w].job, j.kind = "retry" => JobHasRow(j)',
           UNCHANGED <<queueVars, client, grantActive>>,
           \A q \in Runs : q # r => status'[q] = status[q]
    PROVE  DInv'
<1>1. /\ r \in Runs /\ walk[w].pc # "idle" /\ PastOn(w, r)
      /\ "done" \notin Holding
  BY Past DEF Holding, PastContext
<1>2. UNCHANGED <<waiting, active>> /\ Local(r)
  BY DEF queueVars, Local, RowsKept
<1>3. walk[w].job.kind = "retry" => JobHasRow(walk[w].job)'
  BY DEF Goes, JobHasRow
<1>4. /\ \A v \in Workers : ~ WalkOn(v, r)'
      /\ \A c \in Clients : ~ RequestOn(c, r)'
      /\ \A i \in Job : LooseJob(i, r)' => i \notin waiting \cup active
  <2>1. PICK pc : pc = "done"
    OBVIOUS
  <2>2. Goes(w, pc) /\ pc \notin Holding
    BY <1>1, <2>1
  <2> QED BY <1>1, <1>3, <2>2, OwnLeft
<1>5. \A i \in Job : LooseJob(i, r)' => i \in waiting \cup active
  BY <1>2 DEF LooseJob, Dangling
<1>6. OneDriver(r)'
  BY <1>4, <1>5, IdleRunNext DEF Driven
<1>7. \A q \in Runs : OneDriver(q)'
  BY <1>1, <1>2, <1>6, OwnRun
<1>8. RetryWalk(w)'
  BY DEF RetryWalk, Goes, PastContext
<1>9. PICK pc : pc = "done"
  OBVIOUS
<1>10. Goes(w, pc) /\ pc \notin {"idle", "safe", "inactive"}
  BY <1>9
<1> QED BY <1>1, <1>2, <1>7, <1>8, <1>10, WorkerRest DEF DInv, Slots

\* The final write of a walk is the last thing anybody does to the run.
LEMMA SettleDInv ==
    ASSUME DInv, TInv', NEW w \in Workers, Settle(w)
    PROVE  DInv'
<1>0. PICK r, j : r = RunOf(w) /\ j = walk[w].job
  OBVIOUS
<1>1. /\ walk[w].pc = "settle" /\ walk[w].pc \in PastContext /\ TInv /\ r \in Runs
  BY <1>0, Past DEF Settle, PastContext
<1>2. UNCHANGED <<ledger, queueVars, client, grantActive>>
  BY DEF Settle, envVars
<1>3. RowsKept(r) /\ (j.kind = "retry" => JobHasRow(j)')
  <2>1. j.kind = "retry" => JobHasRow(j)
    BY <1>0, <1>1, HasRecorded
  <2> QED BY <1>1, <1>2, <2>1, RowsSame DEF JobHasRow, HasRow
<1>4. Goes(w, "done")
  BY <1>1, WalkToGoes DEF Settle
<1>5. \A q \in Runs : q # r => status'[q] = status[q]
  BY <1>0, <1>1 DEF Settle, TInv, TypeOK
<1> QED BY <1>0, <1>1, <1>2, <1>3, <1>4, <1>5, LeftIdle

\* A pause leaves the run to the human.
LEMMA PauseDInv ==
    ASSUME DInv, TInv', NEW w \in Workers, Pause(w)
    PROVE  DInv'
<1>0. PICK r, j : r = RunOf(w) /\ j = walk[w].job
  OBVIOUS
<1>1. /\ walk[w].pc = "record" /\ walk[w].pc \in PastContext /\ TInv /\ r \in Runs
  BY <1>0, Past DEF Pause, PastContext
<1>2. UNCHANGED <<queueVars, client, grantActive>>
  BY DEF Pause, envVars
<1>3. RowsKept(r) /\ (j.kind = "retry" => JobHasRow(j)')
  <2>1. PICK st : st = walk[w].out
    OBVIOUS
  <2>2. AppendRow(r, walk[w].cursor, walk[w].attempt, st)
    BY <1>0, <2>1 DEF Pause
  <2> QED BY <1>0, <1>1, <2>2, Recorded
<1>4. Goes(w, "done")
  BY <1>1, WalkToGoes DEF Pause
<1>5. \A q \in Runs : q # r => status'[q] = status[q]
  BY <1>0, <1>1 DEF Pause, TInv, TypeOK
<1> QED BY <1>0, <1>1, <1>2, <1>3, <1>4, <1>5, LeftIdle

\* A re-enqueue hands the run from the walk to one job.
LEMMA RequeueDInv ==
    ASSUME DInv, TInv', NEW w \in Workers, Requeue(w)
    PROVE  DInv'
<1>0. PICK r, j, k : r = RunOf(w) /\ j = walk[w].job
                     /\ k = RetryJob(RunOf(w), walk[w].cursor, walk[w].attempt + 1)
  OBVIOUS
<1>1. /\ walk[w].pc = "requeue" /\ walk[w].pc \in PastContext /\ TInv /\ r \in Runs
      /\ PastOn(w, r) /\ walk[w].pc # "idle" /\ Alone(w, r)
  BY <1>0, Past DEF Requeue, PastContext
<1>2. UNCHANGED <<status, ledger, active, client, grantActive>>
  BY DEF Requeue, Add, envVars, dbVars
<1>3. waiting' \subseteq waiting \cup {k} /\ (k \in active => waiting' = waiting)
  BY <1>0 DEF Requeue, Add
<1>4. waiting' \cap active = {}
  BY <1>3 DEF DInv, Slots
<1>5. RowsKept(r) /\ (j.kind = "retry" => JobHasRow(j)')
  <2>1. j.kind = "retry" => JobHasRow(j)
    BY <1>0, <1>1, HasRecorded
  <2> QED BY <1>1, <1>2, <2>1, RowsSame DEF JobHasRow, HasRow
<1>6. Goes(w, "done")
  BY <1>1, WalkToGoes DEF Requeue
<1>7. k.run = r
  BY <1>0 DEF RetryJob
<1>8. Local(r)
  BY <1>2, <1>3, <1>7 DEF Local
<1>9. PICK pc : pc = "done"
  OBVIOUS
<1>10. Goes(w, pc) /\ pc \notin {"idle", "safe", "inactive"} /\ pc \notin Holding
  BY <1>6, <1>9 DEF Holding, PastContext
<1>11. walk[w].job.kind = "retry" => JobHasRow(walk[w].job)'
  BY <1>0, <1>5, <1>6 DEF Goes, JobHasRow
<1>12. /\ \A v \in Workers : ~ WalkOn(v, r)'
       /\ \A c \in Clients : ~ RequestOn(c, r)'
       /\ \A i \in Job : LooseJob(i, r)' => i \notin waiting \cup active
  BY <1>1, <1>2, <1>5, <1>10, <1>11, OwnLeft
<1>13. \A i \in Job : LooseJob(i, r)' => i = k
  BY <1>2, <1>3, <1>12 DEF LooseJob, Dangling
<1>14. \A v \in Workers : ~ PastOn(v, r)'
  BY <1>12 DEF PastOn, WalkOn, Holding
<1>15. AtMostOne(r)'
  BY <1>12, <1>13 DEF AtMostOne
<1>16. status'[r] = "RUNNING"
  BY <1>1, <1>2 DEF Alone
<1>17. OneDriver(r)'
  BY <1>14, <1>15, <1>16 DEF OneDriver
<1>18. \A q \in Runs : OneDriver(q)'
  BY <1>0, <1>1, <1>2, <1>8, <1>10, <1>17, OwnRun
<1>19. RetryWalk(w)'
  BY <1>6 DEF RetryWalk, Goes, PastContext
<1> QED BY <1>0, <1>1, <1>2, <1>4, <1>5, <1>10, <1>18, <1>19, WorkerRest

\* Slots that neither held nor take up a run: no run sees a new driver.
LEMMA BystandersQuiet ==
    ASSUME NEW w \in Workers, walk[w].pc \notin Holding, walk'[w].pc \notin Holding,
           \A v \in Workers : v # w => walk'[v] = walk[v],
           UNCHANGED <<ledger, client>>, (waiting \cup active)' \subseteq waiting \cup active,
           NEW r
    PROVE  Quiet(r)
<1>1. \A v \in Workers : WalkOn(v, r)' => WalkOn(v, r)
  BY DEF WalkOn, RunOf
<1>2. \A v \in Workers : PastOn(v, r)' => PastOn(v, r)
  BY DEF PastOn, RunOf, Holding
<1>3. ASSUME NEW j \in Job, LooseJob(j, r)' PROVE LooseJob(j, r)
  <2>1. ~ HasRow(j.run, j.cursor, j.attempt)
    BY <1>3 DEF LooseJob, Dangling, HasRow
  <2>2. \A v \in Workers : walk[v].pc \in Holding => walk[v].job # j
    BY <1>3 DEF LooseJob, Dangling
  <2> QED BY <1>3, <2>1, <2>2 DEF LooseJob, Dangling
<1>4. \A c \in Clients : RequestOn(c, r)' => RequestOn(c, r)
  BY DEF RequestOn
<1> QED BY <1>1, <1>2, <1>3, <1>4 DEF Quiet

\* A slot takes a job nobody else has.
LEMMA TakeDInv ==
    ASSUME DInv, TInv', NEW w \in Workers, Take(w)
    PROVE  DInv'
<1>0. TInv /\ walk[w].pc = "idle" /\ walk \in [Workers -> Walks]
  BY DEF Take, DInv, TInv, TypeOK
<1>1. PICK j \in waiting :
        /\ waiting' = waiting \ {j}
        /\ active' = active \cup {j}
        /\ walk' = [walk EXCEPT ![w] =
                [IdleWalk EXCEPT !.pc = "claim", !.job = j, !.owns = TRUE,
                                 !.cursor = j.cursor, !.attempt = j.attempt]]
  BY DEF Take
<1>2. /\ \A v \in Workers : v # w => walk'[v] = walk[v]
      /\ walk'[w].pc = "claim" /\ walk'[w].job = j /\ walk'[w].owns
      /\ walk'[w].cursor = j.cursor /\ walk'[w].attempt = j.attempt
  BY <1>0, <1>1 DEF IdleWalk
<1>3. UNCHANGED <<status, ledger, client, grantActive>>
  BY DEF Take, dbVars, envVars
<1>4. j \notin active /\ \A v \in Workers : walk[v].pc # "idle" => walk[v].job # j
  BY DEF DInv, Slots
<1>5. Slots'
  BY <1>0, <1>1, <1>2, <1>4 DEF DInv, Slots
<1>6. Refusing'
  BY <1>2, <1>3 DEF DInv, Refusing, GrantUsable
<1>7. ASSUME NEW v \in Workers PROVE RetryWalk(v)'
  <2>1. CASE v = w
    BY <2>1, <1>2 DEF RetryWalk, PastContext
  <2>2. CASE v # w
    BY <2>2, <1>2, <1>3 DEF DInv, RetryWalk, JobHasRow, HasRow
  <2> QED BY <2>1, <2>2
<1>8. ASSUME NEW r \in Runs PROVE OneDriver(r)'
  <2>1. "idle" \notin Holding /\ "claim" \notin Holding
    BY DEF Holding, PastContext
  <2>2. Quiet(r)
    BY <1>0, <1>1, <1>2, <1>3, <2>1, BystandersQuiet
  <2>3. GrantUsable' => GrantUsable
    BY <1>3 DEF GrantUsable
  <2> QED BY <1>3, <2>2, <2>3, QuietRun DEF DInv
<1> QED BY <1>5, <1>6, <1>7, <1>8 DEF DInv

\* The job of an ended walk leaves the active list.
LEMMA FinishDInv ==
    ASSUME DInv, TInv', NEW w \in Workers, Finish(w)
    PROVE  DInv'
<1>0. TInv /\ walk[w].pc = "done" /\ walk \in [Workers -> Walks]
  BY DEF Finish, DInv, TInv, TypeOK
<1>1. /\ walk' = [walk EXCEPT ![w] = IdleWalk] /\ waiting' = waiting
      /\ active' = active \ {walk[w].job}
  BY <1>0 DEF Finish, DInv, Slots
<1>2. /\ \A v \in Workers : v # w => walk'[v] = walk[v]
      /\ walk'[w].pc = "idle" /\ walk'[w].job.kind = "none"
  BY <1>0, <1>1 DEF IdleWalk, NoJob
<1>3. UNCHANGED <<status, ledger, client, grantActive>>
  BY DEF Finish, dbVars, envVars
<1>5. Slots'
  BY <1>0, <1>1, <1>2 DEF DInv, Slots
<1>6. Refusing'
  BY <1>2, <1>3 DEF DInv, Refusing, GrantUsable
<1>7. ASSUME NEW v \in Workers PROVE RetryWalk(v)'
  <2>1. CASE v = w
    BY <2>1, <1>2 DEF RetryWalk
  <2>2. CASE v # w
    BY <2>2, <1>2, <1>3 DEF DInv, RetryWalk, JobHasRow, HasRow
  <2> QED BY <2>1, <2>2
<1>8. ASSUME NEW r \in Runs PROVE OneDriver(r)'
  <2>1. "idle" \notin Holding /\ "done" \notin Holding
    BY DEF Holding, PastContext
  <2>2. Quiet(r)
    BY <1>0, <1>1, <1>2, <1>3, <2>1, BystandersQuiet
  <2>3. GrantUsable' => GrantUsable
    BY <1>3 DEF GrantUsable
  <2> QED BY <1>3, <2>2, <2>3, QuietRun DEF DInv
<1> QED BY <1>5, <1>6, <1>7, <1>8 DEF DInv

\* Every step of a slot keeps the invariant; failRunSafely is never reached.
LEMMA WorkerDInv ==
    ASSUME DInv, TInv', NEW w \in Workers, WorkerStep(w) \/ RequeueRefused(w)
    PROVE  DInv'
<1>1. ~ FailRunSafely(w)
  BY DEF FailRunSafely, DInv, Slots
<1> QED BY <1>1, TakeDInv, ClaimStartDInv, ClaimResumeDInv, CheckAttemptDInv,
        CheckRunningDInv, BuildContextDInv, FinalizeInactiveDInv, FinalizeTerminalDInv,
        ExecuteDInv, PauseDInv, RecordRetryDInv, RecordSuccessDInv, RecordFailureDInv,
        RequeueDInv, RequeueRefusedDInv, ListUndoDInv, RecordUndoDInv, SettleDInv,
        FinishDInv DEF WorkerStep

-----------------------------------------------------------------------------
(***************************************************************************)
(* Requests, the sweeper, the broker and the environment: the walks stand   *)
(* still.                                                                   *)
(***************************************************************************)
\* What such a step leaves of the slots.
Standing ==
    /\ UNCHANGED <<walk, ledger>>
    /\ (waiting \cap active)' = {}
    /\ \A w \in Workers : walk[w].pc # "idle" => walk[w].job \in active'
    /\ GrantUsable' => GrantUsable

\* After such a step only the drivers are left to show.
LEMMA StandingRest ==
    ASSUME DInv, TInv', Standing, \A q \in Runs : OneDriver(q)'
    PROVE  DInv'
<1>1. Slots'
  BY DEF Standing, DInv, Slots
<1>2. Refusing'
  BY DEF Standing, DInv, Refusing
<1>3. \A w \in Workers : RetryWalk(w)'
  BY DEF Standing, DInv, RetryWalk, JobHasRow, HasRow
<1> QED BY <1>1, <1>2, <1>3 DEF DInv

\* Such a step brings no driver to a run it neither gives a retry job to nor
\* gives a request for.
LEMMA StandingQuiet ==
    ASSUME Standing, NEW q,
           \A j \in Job : j.kind = "retry" /\ j.run = q /\ j \in (waiting \cup active)' =>
               j \in waiting \cup active,
           \A c \in Clients : RequestOn(c, q)' => RequestOn(c, q)
    PROVE  Quiet(q)
<1>1. \A v \in Workers : WalkOn(v, q)' => WalkOn(v, q)
  BY DEF Standing, WalkOn, RunOf
<1>2. \A v \in Workers : PastOn(v, q)' => PastOn(v, q)
  BY DEF Standing, PastOn, RunOf
<1>3. \A j \in Job : LooseJob(j, q)' => LooseJob(j, q)
  BY DEF Standing, LooseJob, Dangling, HasRow
<1> QED BY <1>1, <1>2, <1>3 DEF Quiet

\* No request starts to drive a run.
NoNewRequest ==
    \A c \in Clients : client'[c].pc \in Drives =>
        client[c].pc \in Drives /\ client'[c].run = client[c].run

\* A step that gives nobody a run to drive, and changes the status of none
\* that is driven.
LEMMA StandBy ==
    ASSUME DInv, TInv', Standing, NoNewRequest,
           \A j \in Job : j.kind = "retry" /\ j \in (waiting \cup active)' =>
               j \in waiting \cup active,
           \A q \in Runs : status'[q] = status[q] \/ ~ Driven(q)
    PROVE  DInv'
<1>1. ASSUME NEW q \in Runs PROVE OneDriver(q)'
  <2>1. \A c \in Clients : RequestOn(c, q)' => RequestOn(c, q)
    BY DEF NoNewRequest, RequestOn
  <2>2. Quiet(q)
    BY <2>1, StandingQuiet
  <2> QED BY <2>2, QuietRun DEF DInv, Standing
<1> QED BY <1>1, StandingRest

\* A job that is no retry, or none at all, is added to the queue.
LEMMA AddStanding ==
    ASSUME DInv, NEW j, Add(j), UNCHANGED <<walk, ledger, grantActive>>
    PROVE  /\ Standing
           /\ active' = active
           /\ waiting' \subseteq waiting \cup {j}
<1>1. active' = active /\ waiting' \subseteq waiting \cup {j}
      /\ (j \in active => waiting' = waiting)
  BY DEF Add
<1> QED BY <1>1 DEF Standing, DInv, Slots, GrantUsable

\* The queue is left alone.
LEMMA SameStanding ==
    ASSUME DInv, UNCHANGED <<walk, ledger, queueVars>>, GrantUsable' => GrantUsable
    PROVE  Standing /\ UNCHANGED <<waiting, active>>
  BY DEF Standing, queueVars, DInv, Slots

\* What a request's step does to the requests.
LEMMA Asked ==
    ASSUME TInv, NEW c \in Clients, NEW x, client' = [client EXCEPT ![c] = x]
    PROVE  /\ \A d \in Clients : d # c => client'[d] = client[d]
           /\ client'[c] = x
  BY DEF TInv, TypeOK

\* A request that is answered drives nothing any more.
LEMMA Answered ==
    ASSUME TInv, NEW c \in Clients, Answer(c)
    PROVE  /\ \A d \in Clients : d # c => client'[d] = client[d]
           /\ client'[c].pc = "idle"
           /\ NoNewRequest
  BY DEF TInv, TypeOK, Answer, IdleClient, NoNewRequest, Drives

\* A request that goes on keeps its run.
LEMMA Passed ==
    ASSUME TInv, NEW c \in Clients, NEW pc, RequestTo(c, pc)
    PROVE  /\ \A d \in Clients : d # c => client'[d] = client[d]
           /\ client'[c].pc = pc /\ client'[c].run = client[c].run
  BY DEF TInv, TypeOK, RequestTo, Requests

\* Requests that only read, or whose write is not a claim.
LEMMA RequestReadsDInv ==
    ASSUME DInv, TInv', NEW c \in Clients,
           \/ RetryCount(c) \/ RetryClear(c) \/ RetryEnqueueRefused(c)
           \/ ReplayGuard(c) \/ EnqueueRefused(c) \/ ClientBegins(c)
    PROVE  DInv'
<1>0. TInv
  BY DEF DInv
<1>1. UNCHANGED <<status, ledger, queueVars, walk, grantActive>>
  BY DEF RetryCount, RetryClear, RetryEnqueueRefused, ReplayGuard, EnqueueRefused,
         ClientBegins, RetryRead, ReplayRead, ResolveTask, dbVars, envVars
<1>2. Standing /\ UNCHANGED <<waiting, active>>
  BY <1>1, SameStanding DEF GrantUsable
<1>3. NoNewRequest
  <2>1. CASE RetryCount(c)
    BY <1>0, <2>1 DEF RetryCount, TInv, TypeOK, Requests, NoNewRequest, Drives
  <2>2. CASE RetryClear(c) \/ EnqueueRefused(c)
    BY <1>0, <2>2, Answered DEF RetryClear, EnqueueRefused
  <2>3. CASE RetryEnqueueRefused(c)
    <3>1. PICK pc : pc = "rollback"
      OBVIOUS
    <3>2. RequestTo(c, pc) /\ client[c].pc = "enqueue"
      BY <2>3, <3>1 DEF RetryEnqueueRefused
    <3> QED BY <1>0, <3>2, Passed DEF NoNewRequest, Drives
  <2>4. CASE ReplayGuard(c)
    <3>1. CASE Answer(c)
      BY <1>0, <3>1, Answered
    <3>2. CASE client' = [client EXCEPT ![c].pc = "create", ![c].version = latest]
      BY <1>0, <3>2 DEF TInv, TypeOK, Requests, NoNewRequest, Drives
    <3> QED BY <2>4, <3>1, <3>2 DEF ReplayGuard
  <2>5. CASE ClientBegins(c)
    <3>1. \/ \E r \in Runs : \E ov \in BOOLEAN : RetryRead(c, r, ov)
          \/ \E r \in Runs : ReplayRead(c, r)
          \/ \E r \in Runs : \E i \in 1 .. Len(tasks[r]) : \E res \in {"COMPLETED", "CANCELLED"} :
                 ResolveTask(c, r, i, res)
      BY <2>5 DEF ClientBegins
    <3>2. \A d \in Clients : d # c => client'[d] = client[d]
      BY <1>0, <3>1 DEF RetryRead, ReplayRead, ResolveTask, TInv, TypeOK
    <3>3. client'[c].pc \in {"count", "guard", "resume"}
      <4>1. PICK x : client' = [client EXCEPT ![c] = x] /\ x.pc \in {"count", "guard", "resume"}
        <5>1. CASE \E r \in Runs : \E ov \in BOOLEAN : RetryRead(c, r, ov)
          <6>1. PICK r \in Runs, ov \in BOOLEAN : RetryRead(c, r, ov)
            BY <5>1
          <6>2. PICK step : step = ResolveFailedStepKey(marker[r], StepsOf(r))
            OBVIOUS
          <6>3. PICK x : x = [IdleClient EXCEPT !.pc = "count", !.run = r, !.step = step,
                                                !.override = ov]
            OBVIOUS
          <6>4. client' = [client EXCEPT ![c] = x]
            BY <6>1, <6>2, <6>3 DEF RetryRead
          <6>5. x.pc = "count"
            BY <6>3 DEF IdleClient
          <6> QED BY <6>4, <6>5
        <5>2. CASE \E r \in Runs : ReplayRead(c, r)
          <6>1. PICK r \in Runs : ReplayRead(c, r)
            BY <5>2
          <6>2. PICK x : x = [IdleClient EXCEPT !.pc = "guard", !.run = r, !.step = marker[r]]
            OBVIOUS
          <6>3. client' = [client EXCEPT ![c] = x]
            BY <6>1, <6>2 DEF ReplayRead
          <6>4. x.pc = "guard"
            BY <6>2 DEF IdleClient
          <6> QED BY <6>3, <6>4
        <5>3. CASE \E r \in Runs : \E i \in 1 .. Len(tasks[r]) :
                     \E res \in {"COMPLETED", "CANCELLED"} : ResolveTask(c, r, i, res)
          <6>1. PICK r \in Runs : \E i \in 1 .. Len(tasks[r]) :
                     \E res \in {"COMPLETED", "CANCELLED"} : ResolveTask(c, r, i, res)
            BY <5>3
          <6>2. PICK i, res : ResolveTask(c, r, i, res)
            BY <6>1
          <6>3. PICK step : step = DeriveResumeCursor(StepsOf(r), tasks[r][i].step, res)
            OBVIOUS
          <6>4. PICK x : x = [IdleClient EXCEPT !.pc = "resume", !.run = r, !.step = step]
            OBVIOUS
          <6>5. client' = [client EXCEPT ![c] = x]
            BY <6>2, <6>3, <6>4 DEF ResolveTask
          <6>6. x.pc = "resume"
            BY <6>4 DEF IdleClient
          <6> QED BY <6>5, <6>6
        <5> QED BY <3>1, <5>1, <5>2, <5>3
      <4> QED BY <1>0, <4>1, Asked
    <3> QED BY <3>2, <3>3 DEF NoNewRequest, Drives
  <2> QED BY <2>1, <2>2, <2>3, <2>4, <2>5
<1> QED BY <1>1, <1>2, <1>3, StandBy

\* A start or resume job drives nothing before its claim.
LEMMA HarmlessJobDInv ==
    ASSUME DInv, TInv', NEW j, j.kind # "retry", Add(j), NoNewRequest,
           UNCHANGED <<status, ledger, walk, grantActive>>
    PROVE  DInv'
<1>1. Standing /\ active' = active /\ waiting' \subseteq waiting \cup {j}
  BY AddStanding
<1> QED BY <1>1, StandBy

\* The start of a replay and the resume of a resolved task are enqueued.
LEMMA JobRequestsDInv ==
    ASSUME DInv, TInv', NEW c \in Clients, ReplayEnqueue(c) \/ ResumeEnqueue(c)
    PROVE  DInv'
<1>1. NoNewRequest
  BY Answered DEF ReplayEnqueue, ResumeEnqueue, DInv
<1>2. UNCHANGED <<status, ledger, walk, grantActive>>
  BY DEF ReplayEnqueue, ResumeEnqueue, dbVars, envVars
<1>3. PICK j : Add(j) /\ (j = StartJob(client[c].run)
                          \/ j = ResumeJob(client[c].run, client[c].step, 0))
  BY DEF ReplayEnqueue, ResumeEnqueue
<1>4. j.kind # "retry"
  BY <1>3 DEF StartJob, ResumeJob
<1> QED BY <1>1, <1>2, <1>3, <1>4, HarmlessJobDInv

\* The sweeper enqueues a start or a reconciled resume.
LEMMA SweepsDInv ==
    ASSUME DInv, TInv', NEW r \in Runs, SweepPending(r) \/ ReconcileAwaiting(r)
    PROVE  DInv'
<1>1. UNCHANGED <<status, ledger, walk, grantActive>> /\ NoNewRequest
  BY DEF SweepPending, ReconcileAwaiting, dbVars, envVars, NoNewRequest
<1>2. PICK n, cursor : SweepPending(r) \/ Add(ReconciledResume(r, cursor, n))
  BY DEF ReconcileAwaiting
<1>3. PICK j : Add(j) /\ (j = StartJob(r) \/ j = ReconciledResume(r, cursor, n))
  BY <1>2 DEF SweepPending
<1>4. j.kind # "retry"
  BY <1>3 DEF StartJob, ReconciledResume, ResumeJob
<1> QED BY <1>1, <1>3, <1>4, HarmlessJobDInv

\* A replay creates a run nobody drives.
LEMMA ReplayCreateDInv ==
    ASSUME DInv, TInv', NEW c \in Clients, ReplayCreate(c)
    PROVE  DInv'
<1>0. TInv
  BY DEF DInv
<1>1. UNCHANGED <<ledger, queueVars, walk, grantActive>>
  BY DEF ReplayCreate, envVars
<1>2. Standing /\ UNCHANGED <<waiting, active>>
  BY <1>1, SameStanding DEF GrantUsable
<1>3. CASE Answer(c) /\ UNCHANGED status
  BY <1>0, <1>2, <1>3, Answered, StandBy
<1>4. CASE \E n \in Unborn : status' = [status EXCEPT ![n] = "PENDING"]
                             /\ client' = [client EXCEPT ![c].pc = "start", ![c].run = n]
  <2>1. PICK n \in Unborn : status' = [status EXCEPT ![n] = "PENDING"]
                            /\ client' = [client EXCEPT ![c].pc = "start", ![c].run = n]
    BY <1>4
  <2>2. n \in Runs /\ status[n] = "NONE"
    BY DEF Unborn
  <2>3. ~ Driven(n)
    BY <2>2, NotDriven
  <2>4. \A q \in Runs : q # n => status'[q] = status[q]
    BY <1>0, <2>1 DEF TInv, TypeOK
  <2>5. NoNewRequest
    BY <1>0, <2>1 DEF TInv, TypeOK, Requests, NoNewRequest, Drives
  <2> QED BY <1>2, <2>3, <2>4, <2>5, StandBy
<1>5. Unborn # {} => (CHOOSE r \in Unborn : \A m \in Unborn : r <= m) \in Unborn
  <2>1. Unborn \in SUBSET Nat
    BY DEF Unborn, Runs
  <2> QED BY <2>1, LeastElement
<1> QED BY <1>3, <1>4, <1>5 DEF ReplayCreate

\* The retry's claim takes a FAILED run nobody drives; once the grant is gone
\* it may take one somebody still does, and that walk will give up.
LEMMA RetryClaimDInv ==
    ASSUME DInv, TInv', NEW c \in Clients, RetryClaim(c)
    PROVE  DInv'
<1>0. PICK r : r = client[c].run
  OBVIOUS
<1>1. TInv /\ r \in Runs /\ client[c].pc = "claim"
  <2>1. TInv /\ client[c].pc = "claim"
    BY DEF DInv, RetryClaim
  <2> QED BY <1>0, <2>1, Asking
<1>2. UNCHANGED <<ledger, queueVars, walk, grantActive>>
  BY DEF RetryClaim, envVars
<1>3. Standing /\ UNCHANGED <<waiting, active>> /\ GrantUsable' = GrantUsable
  BY <1>2, SameStanding DEF GrantUsable
<1>4. CASE ~ Claimable(r)
  BY <1>0, <1>1, <1>3, <1>4, Answered, StandBy DEF RetryClaim
<1>5. CASE Claimable(r)
  <2>1. status[r] = "FAILED" /\ status' = [status EXCEPT ![r] = "RUNNING"]
    BY <1>0, <1>5 DEF RetryClaim, Claimable
  <2>2. PICK pc : pc = "enqueue"
    OBVIOUS
  <2>3. RequestTo(c, pc)
    BY <1>0, <1>5, <2>2 DEF RetryClaim
  <2>4. /\ \A d \in Clients : d # c => client'[d] = client[d]
        /\ client'[c].run = r
    BY <1>0, <1>1, <2>3, Passed
  <2>5. status'[r] = "RUNNING" /\ \A q \in Runs : q # r => status'[q] = status[q]
    BY <1>1, <2>1 DEF TInv, TypeOK
  <2>6. ASSUME NEW q \in Runs, q # r PROVE OneDriver(q)'
    <3>1. \A d \in Clients : RequestOn(d, q)' => RequestOn(d, q)
      BY <2>4, <2>6 DEF RequestOn
    <3>2. Quiet(q)
      BY <1>3, <3>1, StandingQuiet
    <3> QED BY <1>3, <2>5, <2>6, <3>2, QuietRun DEF DInv
  <2>7. OneDriver(r)'
    <3>1. \A w \in Workers : ~ PastOn(w, r)'
      <4>1. \A w \in Workers : ~ PastOn(w, r)
        BY <1>1, <2>1 DEF DInv, OneDriver, Alone
      <4> QED BY <1>2, <4>1 DEF PastOn, RunOf
    <3>2. GrantUsable' => AtMostOne(r)'
      <4> SUFFICES ASSUME GrantUsable PROVE AtMostOne(r)'
        BY <1>3
      <4>1. ~ Driven(r)
        BY <1>1, <2>1 DEF DInv, OneDriver
      <4>2. \A w \in Workers : ~ WalkOn(w, r)'
        BY <1>2, <4>1 DEF Driven, WalkOn, RunOf
      <4>3. \A j \in Job : ~ LooseJob(j, r)'
        BY <1>2, <1>3, <4>1 DEF Driven, LooseJob, Dangling, HasRow
      <4>4. \A d \in Clients : RequestOn(d, r)' => d = c
        BY <2>4, <4>1 DEF Driven, RequestOn
      <4> QED BY <4>2, <4>3, <4>4 DEF AtMostOne
    <3> QED BY <2>5, <3>1, <3>2 DEF OneDriver
  <2> QED BY <1>3, <2>6, <2>7, StandingRest
<1> QED BY <1>4, <1>5

\* A run a request drives: no walk is past the grant check, and while the
\* grant is usable there is no other driver.
LEMMA Requested ==
    ASSUME DInv, NEW c \in Clients, client[c].pc \in Drives, NEW r, r = client[c].run
    PROVE  /\ TInv /\ r \in Runs /\ RequestOn(c, r) /\ Driven(r)
           /\ status[r] = "RUNNING" \/ (status[r] = "FAILED" /\ ~ GrantUsable)
           /\ \A w \in Workers : ~ PastOn(w, r)
           /\ GrantUsable =>
                 /\ \A w \in Workers : ~ WalkOn(w, r)
                 /\ \A j \in Job : ~ LooseJob(j, r)
                 /\ \A d \in Clients : RequestOn(d, r) => d = c
<1>1. TInv /\ client[c].pc # "idle"
  BY DEF DInv, Drives
<1>2. r \in Runs
  BY <1>1, Asking
<1>3. RequestOn(c, r)
  BY DEF RequestOn
<1>4. OneDriver(r)
  BY <1>2 DEF DInv
<1>5. \A w \in Workers : ~ PastOn(w, r)
  BY <1>3, <1>4 DEF OneDriver, Alone
<1>6. Driven(r)
  BY <1>3 DEF Driven
<1>7. status[r] = "RUNNING" \/ (status[r] = "FAILED" /\ ~ GrantUsable)
  BY <1>4, <1>6 DEF OneDriver
<1>8. GrantUsable => AtMostOne(r)
  BY <1>4 DEF OneDriver
<1> QED BY <1>1, <1>2, <1>3, <1>5, <1>6, <1>7, <1>8 DEF AtMostOne

\* The request hands its run to the one retry job it enqueues.
LEMMA RetryEnqueueDInv ==
    ASSUME DInv, TInv', NEW c \in Clients, RetryEnqueue(c)
    PROVE  DInv'
<1>0. PICK r, k : r = client[c].run
                  /\ k = RetryJob(client[c].run, client[c].step, client[c].attempt)
  OBVIOUS
<1>1. client[c].pc = "enqueue" /\ client[c].pc \in Drives
  BY DEF RetryEnqueue, Drives
<1>2. /\ TInv /\ r \in Runs
      /\ status[r] = "RUNNING" \/ (status[r] = "FAILED" /\ ~ GrantUsable)
      /\ \A w \in Workers : ~ PastOn(w, r)
      /\ GrantUsable =>
            /\ \A w \in Workers : ~ WalkOn(w, r)
            /\ \A j \in Job : ~ LooseJob(j, r)
            /\ \A d \in Clients : RequestOn(d, r) => d = c
  BY <1>0, <1>1, Requested
<1>3. UNCHANGED <<status, ledger, walk, grantActive>> /\ k.run = r
  BY <1>0 DEF RetryEnqueue, dbVars, envVars, RetryJob
<1>4. Standing /\ active' = active /\ waiting' \subseteq waiting \cup {k}
  <2>1. Add(k)
    BY <1>0 DEF RetryEnqueue
  <2> QED BY <1>3, <2>1, AddStanding
<1>5. PICK pc : pc = "clear"
  OBVIOUS
<1>6. /\ \A d \in Clients : d # c => client'[d] = client[d]
      /\ client'[c].pc \notin Drives
  <2>1. RequestTo(c, pc)
    BY <1>5 DEF RetryEnqueue
  <2>2. client'[c].pc = pc /\ \A d \in Clients : d # c => client'[d] = client[d]
    BY <1>2, <2>1, Passed
  <2> QED BY <1>5, <2>2 DEF Drives
<1>7. \A d \in Clients : \A q \in Runs : RequestOn(d, q)' => RequestOn(d, q) /\ d # c
  BY <1>6 DEF RequestOn
<1>8. GrantUsable' = GrantUsable
  BY <1>3 DEF GrantUsable
<1>9. ASSUME NEW q \in Runs, q # r PROVE OneDriver(q)'
  <2>1. \A j \in Job : j.kind = "retry" /\ j.run = q /\ j \in (waiting \cup active)' =>
            j \in waiting \cup active
    BY <1>3, <1>4, <1>9
  <2>2. Quiet(q)
    BY <1>4, <1>7, <2>1, StandingQuiet
  <2> QED BY <1>3, <1>8, <2>2, QuietRun DEF DInv
<1>10. OneDriver(r)'
  <2>1. \A w \in Workers : ~ PastOn(w, r)'
    BY <1>2, <1>3 DEF PastOn, RunOf
  <2>2. GrantUsable' => AtMostOne(r)'
    <3> SUFFICES ASSUME GrantUsable PROVE AtMostOne(r)'
      BY <1>8
    <3>1. \A w \in Workers : ~ WalkOn(w, r)'
      BY <1>2, <1>3 DEF WalkOn, RunOf
    <3>2. \A d \in Clients : ~ RequestOn(d, r)'
      BY <1>2, <1>7
    <3>3. \A j \in Job : LooseJob(j, r)' => j = k
      BY <1>2, <1>3, <1>4 DEF LooseJob, Dangling, HasRow
    <3> QED BY <3>1, <3>2, <3>3 DEF AtMostOne
  <2>3. status'[r] = "RUNNING" \/ (status'[r] = "FAILED" /\ ~ GrantUsable')
    BY <1>2, <1>3, <1>8
  <2> QED BY <2>1, <2>2, <2>3 DEF OneDriver
<1> QED BY <1>4, <1>9, <1>10, StandingRest

\* The rollback gives the run up: FAILED again, and driven by nobody while the
\* grant is usable.
LEMMA RetryRollbackDInv ==
    ASSUME DInv, TInv', NEW c \in Clients, RetryRollback(c)
    PROVE  DInv'
<1>0. PICK r : r = client[c].run
  OBVIOUS
<1>1. client[c].pc = "rollback" /\ client[c].pc \in Drives
  BY DEF RetryRollback, Drives
<1>2. /\ TInv /\ r \in Runs
      /\ status[r] = "RUNNING" \/ (status[r] = "FAILED" /\ ~ GrantUsable)
      /\ \A w \in Workers : ~ PastOn(w, r)
      /\ GrantUsable =>
            /\ \A w \in Workers : ~ WalkOn(w, r)
            /\ \A j \in Job : ~ LooseJob(j, r)
            /\ \A d \in Clients : RequestOn(d, r) => d = c
  BY <1>0, <1>1, Requested
<1>3. UNCHANGED <<ledger, queueVars, walk, grantActive>>
  BY DEF RetryRollback, envVars
<1>4. Standing /\ UNCHANGED <<waiting, active>> /\ GrantUsable' = GrantUsable
  BY <1>3, SameStanding DEF GrantUsable
<1>5. status'[r] = "FAILED" /\ \A q \in Runs : q # r => status'[q] = status[q]
  BY <1>0, <1>2 DEF RetryRollback, TInv, TypeOK
<1>6. /\ \A d \in Clients : d # c => client'[d] = client[d]
      /\ client'[c].pc \notin Drives
  BY <1>2, Answered DEF RetryRollback, Drives
<1>7. \A d \in Clients : \A q \in Runs : RequestOn(d, q)' => RequestOn(d, q) /\ d # c
  BY <1>6 DEF RequestOn
<1>8. ASSUME NEW q \in Runs PROVE Quiet(q)
  BY <1>4, <1>7, StandingQuiet
<1>9. ASSUME NEW q \in Runs, q # r PROVE OneDriver(q)'
  BY <1>4, <1>5, <1>8, <1>9, QuietRun DEF DInv
<1>10. OneDriver(r)'
  <2>1. CASE GrantUsable
    <3>1. ~ Driven(r)'
      BY <1>2, <1>7, <1>8, <2>1 DEF Driven, Quiet
    <3> QED BY <3>1, IdleRunNext
  <2>2. CASE ~ GrantUsable
    <3>1. \A w \in Workers : ~ PastOn(w, r)'
      BY <1>2, <1>3 DEF PastOn, RunOf
    <3> QED BY <1>4, <1>5, <2>2, <3>1 DEF OneDriver
  <2> QED BY <2>1, <2>2
<1> QED BY <1>4, <1>9, <1>10, StandingRest

\* The sweeper fails a RUNNING run only when nothing drives it: no job of it
\* is queued or active, so no walk, and no request is in the middle.
LEMMA ReconcileRunningDInv ==
    ASSUME DInv, TInv', NEW r \in Runs, ReconcileRunning(r)
    PROVE  DInv'
<1>1. UNCHANGED <<ledger, queueVars, walk, client, grantActive>>
  BY DEF ReconcileRunning, envVars
<1>2. Standing /\ UNCHANGED <<waiting, active>>
  BY <1>1, SameStanding DEF GrantUsable
<1>3. NoNewRequest
  BY <1>1 DEF NoNewRequest
<1>4. ~ Driven(r)
  <2>1. \A w \in Workers : ~ WalkOn(w, r)
    <3>1. "idle" \notin Holding
      BY DEF Holding, PastContext
    <3> QED BY <3>1 DEF ReconcileRunning, InFlight, WalkOn, RunOf, DInv, Slots
  <2>2. \A j \in Job : ~ LooseJob(j, r)
    BY DEF ReconcileRunning, InFlight, LooseJob, Dangling
  <2>3. \A c \in Clients : ~ RequestOn(c, r)
    BY DEF ReconcileRunning, MidClaim, RequestOn, Drives
  <2> QED BY <2>1, <2>2, <2>3 DEF Driven
<1>5. \A q \in Runs : q # r => status'[q] = status[q]
  BY DEF ReconcileRunning, DInv, TInv, TypeOK
<1> QED BY <1>2, <1>3, <1>4, <1>5, StandBy
-----------------------------------------------------------------------------
(***************************************************************************)
(* The broker and the environment.                                         *)
(***************************************************************************)
\* A job nobody holds goes back to the queue, or out of it.
LEMMA RedeliverDInv ==
    ASSUME DInv, TInv', NEW j \in active, Redeliver(j)
    PROVE  DInv'
<1>1. UNCHANGED <<status, ledger, walk, client, grantActive>>
  BY DEF Redeliver, dbVars, envVars
<1>2. active' = active \ {j} /\ (waiting' = waiting \/ waiting' = waiting \cup {j})
  BY DEF Redeliver
<1>3. \A w \in Workers : walk[w].pc # "idle" => walk[w].job # j
  BY DEF Redeliver, DInv, Slots
<1>4. Standing
  BY <1>1, <1>2, <1>3 DEF Standing, DInv, Slots, GrantUsable
<1>5. NoNewRequest
  BY <1>1 DEF NoNewRequest
<1> QED BY <1>1, <1>2, <1>4, <1>5, StandBy

\* The environment moves: a finished job ages out, the grant goes, a version
\* is published, or nothing happens.
LEMMA AroundDInv ==
    ASSUME DInv, TInv', (\E j \in finished : Evict(j)) \/ RevokeGrant \/ PublishVersion
                        \/ UNCHANGED vars
    PROVE  DInv'
<1>1. UNCHANGED <<status, ledger, walk, client, waiting, active>>
  BY DEF Evict, RevokeGrant, PublishVersion, vars, dbVars, queueVars, envVars
<1>2. GrantUsable' => GrantUsable
  BY DEF Evict, RevokeGrant, PublishVersion, vars, envVars, GrantUsable
<1>3. Standing
  BY <1>1, <1>2 DEF Standing, DInv, Slots
<1>4. NoNewRequest
  BY <1>1 DEF NoNewRequest
<1> QED BY <1>1, <1>3, <1>4, StandBy

\* A crash: what is left of a run's driver is its job, if it had one.
LEMMA CrashDInv ==
    ASSUME DInv, TInv', Crash
    PROVE  DInv'
<1>1. UNCHANGED <<status, ledger, waiting, active, grantActive>>
  BY DEF Crash, dbVars, queueVars, envVars
<1>2. /\ \A w \in Workers : walk'[w].pc = "idle" /\ walk'[w].job.kind = "none"
      /\ \A c \in Clients : client'[c].pc = "idle"
  BY DEF Crash, IdleWalk, NoJob, IdleClient
<1>3. Slots' /\ Refusing' /\ \A w \in Workers : RetryWalk(w)'
  BY <1>1, <1>2 DEF DInv, Slots, Refusing, RetryWalk
<1>4. ASSUME NEW r \in Runs PROVE OneDriver(r)'
  <2>1. "idle" \notin Holding /\ "idle" \notin PastContext
    BY DEF Holding, PastContext
  <2>2. \A w \in Workers : ~ WalkOn(w, r)' /\ ~ PastOn(w, r)'
    BY <1>2, <2>1 DEF WalkOn, PastOn
  <2>3. \A c \in Clients : ~ RequestOn(c, r)'
    BY <1>2 DEF RequestOn, Drives
  <2>4. ASSUME NEW j \in Job, LooseJob(j, r)'
        PROVE  LooseJob(j, r) \/ \E w \in Workers : WalkOn(w, r) /\ walk[w].job = j
    <3>1. j.run = r /\ j \in waiting \cup active /\ j.kind = "retry"
      BY <1>1, <2>4 DEF LooseJob, Dangling
    <3>2. ~ HasRow(j.run, j.cursor, j.attempt)
      BY <1>1, <2>4 DEF LooseJob, Dangling, HasRow
    <3> QED BY <3>1, <3>2 DEF LooseJob, Dangling, WalkOn, RunOf
  <2>5. GrantUsable' = GrantUsable
    BY <1>1 DEF GrantUsable
  <2>6. OneDriver(r)
    BY DEF DInv
  <2>7. Driven(r)' => status'[r] = "RUNNING" \/ (status'[r] = "FAILED" /\ ~ GrantUsable')
    <3>1. Driven(r)' => Driven(r)
      BY <2>2, <2>3, <2>4 DEF Driven
    <3> QED BY <1>1, <2>5, <2>6, <3>1 DEF OneDriver
  <2>8. GrantUsable' => AtMostOne(r)'
    <3> SUFFICES ASSUME GrantUsable, NEW i \in Job, NEW j \in Job,
                        LooseJob(i, r)', LooseJob(j, r)'
                 PROVE  i = j
      BY <2>2, <2>3, <2>5 DEF AtMostOne
    <3>1. AtMostOne(r)
      BY <2>6 DEF OneDriver
    <3>2. CASE LooseJob(i, r) /\ LooseJob(j, r)
      BY <3>1, <3>2 DEF AtMostOne
    <3>3. CASE ~ LooseJob(i, r)
      BY <2>4, <3>1, <3>3 DEF AtMostOne
    <3>4. CASE ~ LooseJob(j, r)
      BY <2>4, <3>1, <3>4 DEF AtMostOne
    <3> QED BY <3>2, <3>3, <3>4
  <2> QED BY <2>2, <2>7, <2>8 DEF OneDriver
<1> QED BY <1>3, <1>4 DEF DInv
-----------------------------------------------------------------------------
\* At first nobody drives anything.
LEMMA InitDInv == Init => DInv
<1> SUFFICES ASSUME Init PROVE DInv
  OBVIOUS
<1>1. TInv
  BY InitTInv
<1>2. /\ \A w \in Workers : walk[w].pc = "idle" /\ walk[w].job.kind = "none"
      /\ \A c \in Clients : client[c].pc = "idle"
      /\ waiting \subseteq {StartJob(1)} /\ active = {}
  BY DEF Init, IdleWalk, NoJob, IdleClient
<1>3. Slots /\ Refusing /\ \A w \in Workers : RetryWalk(w)
  BY <1>2 DEF Slots, Refusing, RetryWalk
<1>4. ASSUME NEW r \in Runs PROVE OneDriver(r)
  <2>1. "idle" \notin Holding
    BY DEF Holding, PastContext
  <2>2. \A j \in Job : ~ LooseJob(j, r)
    BY <1>2 DEF LooseJob, Dangling, StartJob
  <2>3. ~ Driven(r)
    BY <1>2, <2>1, <2>2 DEF Driven, WalkOn, RequestOn, Drives
  <2> QED BY <2>3, IdleRun
<1> QED BY <1>1, <1>3, <1>4 DEF DInv

\* The faults a run of the engine survives with one driver per run.
Survivable == {"crash", "broker"}

\* Every step of the engine keeps the invariant while a walk neither throws
\* nor loses its lock.
LEMMA NextDInv ==
    ASSUME FaultKinds \subseteq Survivable, DInv, [Next]_vars
    PROVE  DInv'
<1>0. TInv'
  BY NextTInv DEF DInv
<1>1. \A w \in Workers : ~ Throw(w) /\ ~ FailRunSafelyThrows(w) /\ ~ Stall(w)
  BY DEF Throw, FailRunSafelyThrows, Stall, Survivable
<1>2. CASE \E w \in Workers : WorkerStep(w) \/ RequeueRefused(w)
  BY <1>0, <1>2, WorkerDInv
<1>3. CASE \E c \in Clients : ClientBegins(c) \/ ClientStep(c) \/ RetryEnqueueRefused(c)
                              \/ EnqueueRefused(c)
  BY <1>0, <1>3, RequestReadsDInv, RetryClaimDInv, RetryEnqueueDInv, RetryRollbackDInv,
     ReplayCreateDInv, JobRequestsDInv DEF ClientStep
<1>4. CASE \E r \in Runs : SweeperStep(r)
  BY <1>0, <1>4, SweepsDInv, ReconcileRunningDInv DEF SweeperStep
<1>5. CASE \E j \in active : Redeliver(j)
  BY <1>0, <1>5, RedeliverDInv
<1>6. CASE Crash
  BY <1>0, <1>6, CrashDInv
<1>7. CASE (\E j \in finished : Evict(j)) \/ RevokeGrant \/ PublishVersion \/ UNCHANGED vars
  BY <1>0, <1>7, AroundDInv
<1> QED BY <1>1, <1>2, <1>3, <1>4, <1>5, <1>6, <1>7 DEF Next

\* OneDriver is SingleDriver, in the words of its conjuncts.
LEMMA DriversAre ==
    ASSUME DInv, NEW r \in Runs
    PROVE  /\ Drivers(r) # {} => Driven(r)
           /\ AtMostOne(r) => \A x, y \in Drivers(r) : x = y
           /\ \A w \in Workers : Alone(w, r) /\ WalkOn(w, r) => Drivers(r) = {<<"walk", w>>}
<1>1. \A x \in Drivers(r) :
        \/ \E w \in Workers : x = <<"walk", w>> /\ WalkOn(w, r)
        \/ \E j \in Job : x = <<"job", j>> /\ LooseJob(j, r)
        \/ \E c \in Clients : x = <<"request", c>> /\ RequestOn(c, r)
  <2>1. waiting \cup active \subseteq Job
    BY DEF DInv, TInv, TypeOK
  <2> QED BY <2>1 DEF Drivers, WalkOn, LooseJob, RequestOn, Drives
<1>2. Drivers(r) # {} => Driven(r)
  BY <1>1 DEF Driven
<1>3. AtMostOne(r) => \A x, y \in Drivers(r) : x = y
  BY <1>1 DEF AtMostOne
<1>4. \A w \in Workers : WalkOn(w, r) => <<"walk", w>> \in Drivers(r)
  BY DEF Drivers, WalkOn
<1>5. ASSUME NEW w \in Workers, Alone(w, r), NEW x \in Drivers(r) PROVE x = <<"walk", w>>
  BY <1>1, <1>5 DEF Alone
<1> QED BY <1>2, <1>3, <1>4, <1>5

\* The invariant implies the property.
LEMMA DInvSingle == DInv => SingleDriver
<1> SUFFICES ASSUME DInv, NEW r \in Runs
             PROVE  /\ Drivers(r) # {} =>
                          status[r] = "RUNNING" \/ (status[r] = "FAILED" /\ ~ GrantUsable)
                    /\ GrantUsable => \A x, y \in Drivers(r) : x = y
                    /\ \A w \in Workers :
                          walk[w].pc \in PastContext /\ RunOf(w) = r =>
                              status[r] = "RUNNING" /\ Drivers(r) = {<<"walk", w>>}
  BY DEF SingleDriver
<1>1. OneDriver(r)
  BY DEF DInv
<1>2. \A w \in Workers : PastOn(w, r) => WalkOn(w, r) /\ Alone(w, r)
  BY <1>1 DEF OneDriver, PastOn, WalkOn, Holding
<1>3. \A w \in Workers : PastOn(w, r) => status[r] = "RUNNING" /\ Drivers(r) = {<<"walk", w>>}
  BY <1>2, DriversAre DEF Alone
<1>4. Drivers(r) # {} => status[r] = "RUNNING" \/ (status[r] = "FAILED" /\ ~ GrantUsable)
  BY <1>1, DriversAre DEF OneDriver
<1>5. GrantUsable => \A x, y \in Drivers(r) : x = y
  BY <1>1, DriversAre DEF OneDriver
<1> QED BY <1>3, <1>4, <1>5 DEF PastOn
-----------------------------------------------------------------------------
(***************************************************************************)
(* The lifecycle: what the drivers may do to the status of their runs.     *)
(***************************************************************************)
\* The edges of the lifecycle, as writes of a status.
Edges ==
    {<<"NONE", "PENDING">>, <<"PENDING", "RUNNING">>, <<"RUNNING", "AWAITING_INPUT">>,
     <<"AWAITING_INPUT", "RUNNING">>, <<"RUNNING", "SUCCEEDED">>,
     <<"RUNNING", "COMPENSATED">>, <<"PENDING", "FAILED">>, <<"RUNNING", "FAILED">>,
     <<"FAILED", "RUNNING">>}

\* A write along an edge is a step of the lifecycle; a birth and a retry need
\* the other runs idle.
LEMMA EdgeIsMove ==
    ASSUME NEW r \in Runs, NEW to, status' = [status EXCEPT ![r] = to],
           <<status[r], to>> \in Edges,
           status[r] \in {"NONE", "FAILED"} => \A s \in Runs \ {r} : status[s] \notin Live
    PROVE  Lifecycle!Next
<1>1. status[r] \in {"NONE", "FAILED"} => Lifecycle!OthersIdle(r)
  BY DEF Lifecycle!OthersIdle, Lifecycle!Live, Live
<1> QED BY <1>1 DEF Edges, Lifecycle!Next, Lifecycle!Replay, Lifecycle!Start, Lifecycle!Pause,
        Lifecycle!Resume, Lifecycle!Complete, Lifecycle!Fail, Lifecycle!Retry, Lifecycle!Move

\* The writes of a walk.
LEMMA WorkerMoves ==
    ASSUME DInv, NEW w \in Workers, WorkerStep(w) \/ RequeueRefused(w)
    PROVE  Lifecycle!Next \/ UNCHANGED status
<1>0. PICK r : r = RunOf(w)
  OBVIOUS
<1>1. TInv /\ status \in [Runs -> Statuses]
  BY DEF DInv, TInv, TypeOK
<1>2. CASE ClaimStart(w)
  <2>1. r \in Runs
    BY <1>0, <1>1, <1>2, Walking DEF ClaimStart
  <2> QED BY <1>0, <1>2, <2>1, EdgeIsMove DEF ClaimStart, Edges
<1>3. CASE ClaimResume(w)
  <2>1. r \in Runs
    BY <1>0, <1>1, <1>3, Walking DEF ClaimResume
  <2> QED BY <1>0, <1>3, <2>1, EdgeIsMove DEF ClaimResume, Edges
<1>4. CASE Pause(w)
  <2>1. r \in Runs /\ status[r] = "RUNNING"
    BY <1>0, <1>4, Past DEF Pause, PastContext, Alone
  <2> QED BY <1>0, <1>4, <2>1, EdgeIsMove DEF Pause, Edges
<1>5. CASE Settle(w)
  <2>1. r \in Runs /\ status[r] = "RUNNING"
    BY <1>0, <1>5, Past DEF Settle, PastContext, Alone
  <2>2. walk[w].out \in Settled
    BY <1>1, <1>5, Walking DEF Settle, WalkHolds
  <2> QED BY <1>0, <1>5, <2>1, <2>2, EdgeIsMove DEF Settle, Edges, Settled
<1>6. CASE FinalizeInactive(w)
  <2>1. walk[w].pc = "inactive" /\ status' = [status EXCEPT ![r] = "FAILED"]
    BY <1>0, <1>6 DEF FinalizeInactive
  <2>2. r \in Runs
    BY <1>0, <1>1, <2>1, Walking
  <2>3. status[r] \in {"RUNNING", "FAILED"}
    BY <1>0, <2>1, <2>2 DEF DInv, OneDriver, Driven, WalkOn, Holding
  <2>4. CASE status[r] = "RUNNING"
    BY <2>1, <2>2, <2>4, EdgeIsMove DEF Edges
  <2>5. CASE status[r] = "FAILED"
    BY <1>1, <2>1, <2>2, <2>5
  <2> QED BY <2>3, <2>4, <2>5
<1>7. CASE Take(w) \/ CheckAttempt(w) \/ CheckRunning(w) \/ BuildContext(w)
           \/ FinalizeTerminal(w) \/ Execute(w) \/ Finish(w) \/ ListUndo(w)
  BY <1>7 DEF Take, CheckAttempt, CheckRunning, BuildContext, FinalizeTerminal, Execute,
     Finish, ListUndo, dbVars
<1>8. CASE RecordRetry(w) \/ RecordSuccess(w) \/ RecordFailure(w) \/ RecordUndo(w)
           \/ Requeue(w) \/ RequeueRefused(w)
  BY <1>8 DEF RecordRetry, RecordSuccess, RecordFailure, RecordUndo, Requeue,
     RequeueRefused, dbVars
<1>9. ~ FailRunSafely(w)
  BY DEF FailRunSafely, DInv, Slots
<1> QED BY <1>2, <1>3, <1>4, <1>5, <1>6, <1>7, <1>8, <1>9 DEF WorkerStep

\* The writes of a request.
LEMMA RequestMoves ==
    ASSUME DInv, NEW c \in Clients,
           ClientBegins(c) \/ ClientStep(c) \/ RetryEnqueueRefused(c) \/ EnqueueRefused(c)
    PROVE  Lifecycle!Next \/ UNCHANGED status
<1>0. PICK r : r = client[c].run
  OBVIOUS
<1>1. TInv
  BY DEF DInv
<1>2. CASE RetryClaim(c)
  <2>1. r \in Runs
    BY <1>0, <1>1, <1>2, Asking DEF RetryClaim
  <2>2. CASE Claimable(r)
    <3>1. \A s \in Runs \ {r} : status[s] \notin Live
      BY <2>2 DEF Claimable, LiveRuns
    <3> QED BY <1>0, <1>2, <2>1, <2>2, <3>1, EdgeIsMove DEF RetryClaim, Claimable, Edges
  <2>3. CASE ~ Claimable(r)
    BY <1>0, <1>2, <2>3 DEF RetryClaim
  <2> QED BY <2>2, <2>3
<1>3. CASE RetryRollback(c)
  <2>1. r \in Runs
    BY <1>0, <1>1, <1>3, Asking DEF RetryRollback
  <2> QED BY <1>0, <1>3, <2>1, EdgeIsMove DEF RetryRollback, Edges
<1>4. CASE ReplayCreate(c)
  <2>1. Unborn # {} => (CHOOSE n \in Unborn : \A m \in Unborn : n <= m) \in Unborn
    <3>1. Unborn \in SUBSET Nat
      BY DEF Unborn, Runs
    <3> QED BY <3>1, LeastElement
  <2>2. \/ UNCHANGED status
        \/ LineageIdle /\ \E n \in Unborn : status' = [status EXCEPT ![n] = "PENDING"]
    BY <1>4, <2>1 DEF ReplayCreate
  <2>3. LineageIdle => \A s \in Runs : status[s] \notin Live
    BY DEF LineageIdle, LiveRuns
  <2>4. \A n \in Unborn : n \in Runs /\ status[n] = "NONE"
    BY DEF Unborn
  <2> QED BY <2>2, <2>3, <2>4, EdgeIsMove DEF Edges
<1>5. CASE RetryCount(c) \/ RetryEnqueue(c) \/ RetryClear(c) \/ ReplayGuard(c)
           \/ ReplayEnqueue(c) \/ ResumeEnqueue(c)
  BY <1>5 DEF RetryCount, RetryEnqueue, RetryClear, ReplayGuard, ReplayEnqueue,
     ResumeEnqueue, dbVars
<1>6. CASE ClientBegins(c) \/ RetryEnqueueRefused(c) \/ EnqueueRefused(c)
  BY <1>6 DEF ClientBegins, RetryRead, ReplayRead, ResolveTask, RetryEnqueueRefused,
     EnqueueRefused, dbVars
<1> QED BY <1>2, <1>3, <1>4, <1>5, <1>6 DEF ClientStep

\* Every step of the engine is a step of the lifecycle, or none.
LEMMA StepMoves ==
    ASSUME FaultKinds \subseteq Survivable, DInv, [Next]_vars
    PROVE  [Lifecycle!Next]_status
<1>1. \A w \in Workers : ~ Throw(w) /\ ~ FailRunSafelyThrows(w) /\ ~ Stall(w)
  BY DEF Throw, FailRunSafelyThrows, Stall, Survivable
<1>2. CASE \E w \in Workers : WorkerStep(w) \/ RequeueRefused(w)
  BY <1>2, WorkerMoves
<1>3. CASE \E c \in Clients : ClientBegins(c) \/ ClientStep(c) \/ RetryEnqueueRefused(c)
                              \/ EnqueueRefused(c)
  BY <1>3, RequestMoves
<1>4. CASE \E r \in Runs : SweeperStep(r)
  BY <1>4, EdgeIsMove DEF SweeperStep, SweepPending, ReconcileAwaiting, ReconcileRunning,
     dbVars, Edges
<1>5. CASE \/ \E j \in active : Redeliver(j)
           \/ \E j \in finished : Evict(j)
           \/ Crash \/ RevokeGrant \/ PublishVersion \/ UNCHANGED vars
  BY <1>5 DEF Redeliver, Evict, Crash, RevokeGrant, PublishVersion, vars, dbVars
<1> QED BY <1>1, <1>2, <1>3, <1>4, <1>5 DEF Next

\* The first run is born PENDING, the others not at all.
LEMMA InitMoves == Init => Lifecycle!Init
  BY DEF Init, Lifecycle!Init

\* A step of the lifecycle leaves at most one run live.
LEMMA LifecycleOneLive ==
    ASSUME status \in [Runs -> Statuses], OneLiveRun, [Lifecycle!Next]_status
    PROVE  OneLiveRun'
<1> DEFINE Moves(r, from, to) ==
             /\ Lifecycle!Move(r, from, to)
             /\ \/ from \cap {"NONE", "FAILED"} = {} /\ from \subseteq Live
                \/ Lifecycle!OthersIdle(r)
<1>1. CASE \E r \in Runs : \E from, to : Moves(r, from, to)
  <2>1. PICK r \in Runs : \E from, to : Moves(r, from, to)
    BY <1>1
  <2>2. PICK from, to : Moves(r, from, to)
    BY <2>1
  <2>3. status[r] \in from /\ \A q \in Runs : q # r => status'[q] = status[q]
    BY <2>2 DEF Lifecycle!Move
  <2>4. \A s \in Runs : s # r => status[s] \notin Live
    BY <2>2, <2>3 DEF OneLiveRun, Lifecycle!OthersIdle, Lifecycle!Live, Live
  <2> QED BY <2>3, <2>4 DEF OneLiveRun
<1>2. CASE Lifecycle!Next
  BY <1>1, <1>2 DEF Lifecycle!Next, Lifecycle!Replay, Lifecycle!Start, Lifecycle!Pause,
     Lifecycle!Resume, Lifecycle!Complete, Lifecycle!Fail, Lifecycle!Retry, Live
<1>3. CASE UNCHANGED status
  BY <1>3 DEF OneLiveRun
<1> QED BY <1>2, <1>3
-----------------------------------------------------------------------------
\* However often the process dies and the broker refuses, a run has one driver
\* while its grant is usable, and a walk past the grant check is alone with a
\* RUNNING run: the claims of start, resume and retry exclude each other, for
\* any number of slots, requests, runs and versions.
THEOREM SingleDriverAlways ==
    ASSUME FaultKinds \subseteq Survivable
    PROVE  Spec => []SingleDriver
<1>1. DInv /\ [Next]_vars => DInv'
  BY NextDInv
<1> QED BY <1>1, InitDInv, DInvSingle, PTL DEF Spec

\* The engine implements the lifecycle of its runs: no write of a status, the
\* unguarded ones of a walk included, takes a run off the lifecycle's edges.
THEOREM LifecycleImplemented ==
    ASSUME FaultKinds \subseteq Survivable
    PROVE  Spec => ImplementsLifecycle
<1>1. DInv /\ [Next]_vars => DInv'
  BY NextDInv
<1>2. DInv /\ [Next]_vars => [Lifecycle!Next]_status
  BY StepMoves
<1> QED BY <1>1, <1>2, InitDInv, InitMoves, PTL DEF Spec, ImplementsLifecycle, Lifecycle!Spec

\* At most one run of the lineage can still provision or already has: the
\* lineage lock of retry and replay-latest is enough, although no other status
\* write takes it.
THEOREM OneLiveRunAlways ==
    ASSUME FaultKinds \subseteq Survivable
    PROVE  Spec => []OneLiveRun
<1>1. DInv /\ [Next]_vars => DInv'
  BY NextDInv
<1>2. DInv /\ OneLiveRun /\ [Next]_vars => OneLiveRun'
  <2>1. DInv => status \in [Runs -> Statuses]
    BY DEF DInv, TInv, TypeOK
  <2> QED BY <2>1, StepMoves, LifecycleOneLive
<1>3. Init => OneLiveRun
  BY DEF Init, OneLiveRun, Live
<1> QED BY <1>1, <1>2, <1>3, InitDInv, PTL DEF Spec
=============================================================================
