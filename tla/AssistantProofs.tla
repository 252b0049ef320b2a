--------------------------- MODULE AssistantProofs ---------------------------
(***************************************************************************)
(* The assistant's runtime, for any number of runs, steps, slots, users and  *)
(* faults: its types, what an actor holds where it stands, and the lifecycle *)
(* of its runs.                                                              *)
(***************************************************************************)
EXTENDS AssistantRun, WellFoundedInduction, SequenceTheorems, TLAPS

CallKinds == {"read", "write", "form"}

Ops == {"none", "submit", "cancel", "decide", "answer", "drive", "sweep"}

\* Where only a slot can be.
DriveOnly == {"answer", "guard", "model", "boundary", "resolve", "approve", "unexpected"}

Ending == {"finalize", "close", "tell"}

\* Where an actor holds a row, and where that row is a write.
OfWrite == {"claim", "approve", "execute", "record", "unrecorded"}
OfRow == OfWrite \cup {"expire form", "close form"}

Pcs == DriveOnly \cup Ending \cup OfRow \cup {"idle", "count", "look", "requeue", "enqueue"}

Recorded == {"SUCCEEDED", "FAILED", "EXPIRED"}

ActorRecord ==
    [op : Ops, pc : Pcs, run : Nat, of : Nat,
     choice : {"none", "approve", "reject"} \cup Recorded, step : Nat, calls : Seq(CallKinds),
     resolved : Nat, waits : Waiting \cup {"none"}, to : Terminal \cup {"none"},
     from : SUBSET Active, fallback : {"none", "not done", "unknown"},
     seen : Waiting \cup {"none"}]

RunRecord == [status : Statuses, cancel : BOOLEAN, steps : Nat]

RowRecord ==
    [run : Runs, step : Nat, call : Nat \ {0}, kind : {"write", "form"},
     status : Undecided \cup Closed, due : BOOLEAN, done : Nat]

MessageRecord ==
    [kind : {"user", "text", "step", "tool"}, run : Runs, step : Nat, calls : Seq(CallKinds),
     linked : BOOLEAN, told : Seq(Told)]

\* The ends a finalize may be asked for.
LegalEnd(to, from) ==
    CASE to = "FINISHED" -> from \subseteq {"RUNNING"}
      [] to = "CANCELLED" -> from \subseteq Active
      [] to = "EXPIRED" -> from \subseteq Waiting
      [] OTHER -> FALSE

\* What an actor's record holds where it is.
Holds(a, x, rows) ==
    /\ x.pc # "idle" => x.run \in Runs
    /\ x.op = "drive" => a \in Slots
    /\ a \in Slots /\ x.pc # "idle" => x.op = "drive"
    /\ x.pc \in DriveOnly => a \in Slots
    /\ x.pc \in Ending => x.fallback # "none"
    /\ x.pc = "finalize" => LegalEnd(x.to, x.from)
    /\ x.pc = "requeue" => x.seen \in Waiting
    /\ x.pc \in OfRow => x.of \in DOMAIN rows /\ rows[x.of].run = x.run
    /\ x.pc \in OfWrite => rows[x.of].kind = "write"
    /\ x.pc = "close form" \/ x.pc = "expire form" => rows[x.of].kind = "form"
    /\ x.pc = "record" => x.choice \in Recorded
    /\ x.resolved <= Len(x.calls)

\* A card is a write, a form is none.
KindsAgree(rows) ==
    \A i \in DOMAIN rows :
        /\ rows[i].status = "AWAITING_APPROVAL" => rows[i].kind = "write"
        /\ rows[i].status = "AWAITING_INPUT" => rows[i].kind = "form"

Typed ==
    /\ runs \in [Runs -> RunRecord]
    /\ history \in Seq(MessageRecord)
    /\ invocations \in Seq(RowRecord)
    /\ jobs \in [Runs -> Nat]
    /\ actor \in [Actors -> ActorRecord]
    /\ allowed \in BOOLEAN /\ ops \in 0 .. MaxEvents /\ faults \in 0 .. MaxFaults
    /\ KindsAgree(invocations)
    /\ \A a \in Actors : Holds(a, actor[a], invocations)

\* Rows are never lost and keep what they are about.
Grow(rows, after) ==
    /\ DOMAIN rows \subseteq DOMAIN after
    /\ \A i \in DOMAIN rows :
         /\ after[i].run = rows[i].run /\ after[i].step = rows[i].step
         /\ after[i].call = rows[i].call /\ after[i].kind = rows[i].kind
-----------------------------------------------------------------------------
(***************************************************************************)
(* Sequences.                                                              *)
(***************************************************************************)
\* A sequence changed in place is a sequence of the same length.
LEMMA SeqChanged ==
    ASSUME NEW S, NEW T, NEW s \in Seq(S), NEW t, t = [i \in DOMAIN s |-> t[i]],
           \A i \in DOMAIN s : t[i] \in T
    PROVE  t \in Seq(T) /\ Len(t) = Len(s) /\ DOMAIN t = DOMAIN s
<1>1. Len(s) \in Nat /\ DOMAIN s = 1 .. Len(s)
  BY LenProperties
<1>2. t \in [1 .. Len(s) -> T]
  BY <1>1
<1>3. t \in Seq(T)
  BY <1>1, <1>2, SeqDef
<1>4. Len(t) \in Nat /\ DOMAIN t = 1 .. Len(t)
  BY <1>3, LenProperties
<1>5. Len(t) = Len(s)
  BY <1>1, <1>2, <1>4
<1> QED BY <1>3, <1>5, <1>1, <1>4

\* What appending one element leaves and adds.
LEMMA Appended ==
    ASSUME NEW S, NEW s \in Seq(S), NEW e \in S
    PROVE  /\ Append(s, e) \in Seq(S)
           /\ Len(Append(s, e)) = Len(s) + 1
           /\ DOMAIN Append(s, e) = DOMAIN s \cup {Len(s) + 1}
           /\ \A i \in DOMAIN s : Append(s, e)[i] = s[i]
           /\ Append(s, e)[Len(s) + 1] = e
           /\ Len(s) + 1 \notin DOMAIN s
<1>1. Len(s) \in Nat /\ DOMAIN s = 1 .. Len(s)
  BY LenProperties
<1>2. Append(s, e) \in Seq(S) /\ Len(Append(s, e)) = Len(s) + 1
  BY AppendProperties
<1>3. DOMAIN Append(s, e) = 1 .. Len(s) + 1
  BY <1>2, LenProperties
<1>4. \A i \in 1 .. Len(s) : Append(s, e)[i] = s[i]
  BY AppendProperties
<1>5. Append(s, e)[Len(s) + 1] = e
  BY AppendProperties
<1> QED BY <1>1, <1>2, <1>3, <1>4, <1>5
-----------------------------------------------------------------------------
(***************************************************************************)
(* What the helpers leave of the types.                                    *)
(***************************************************************************)
LEMMA Lengths ==
    ASSUME Typed
    PROVE  /\ Len(invocations) \in Nat /\ DOMAIN invocations = 1 .. Len(invocations)
           /\ Len(history) \in Nat /\ DOMAIN history = 1 .. Len(history)
           /\ \A i \in DOMAIN invocations : invocations[i] \in RowRecord
           /\ \A h \in DOMAIN history : history[h] \in MessageRecord
BY LenProperties, ElementOfSeq DEF Typed

LEMMA RowFacts ==
    ASSUME Typed, NEW i \in DOMAIN invocations
    PROVE  i \in Nat /\ invocations[i] \in RowRecord /\ invocations[i].run \in Runs
<1>1. Len(invocations) \in Nat /\ i \in 1 .. Len(invocations)
  BY Lengths
<1>2. i \in Nat
  BY <1>1
<1> QED BY <1>2, Lengths DEF RowRecord

LEMMA GrowKeepsHolds ==
    ASSUME NEW a, NEW x, NEW rows, NEW after, Holds(a, x, rows), Grow(rows, after)
    PROVE  Holds(a, x, after)
<1>1. x.pc \in OfRow => x.of \in DOMAIN rows
  BY DEF Holds
<1>2. x.of \in DOMAIN rows => after[x.of].run = rows[x.of].run /\ after[x.of].kind = rows[x.of].kind
                              /\ x.of \in DOMAIN after
  BY DEF Grow
<1>3. OfWrite \subseteq OfRow /\ {"close form", "expire form"} \subseteq OfRow
  BY DEF OfRow
<1> QED BY <1>1, <1>2, <1>3 DEF Holds

\* One actor moves, and the rows it may name are still there.
LEMMA ActorMoves ==
    ASSUME Typed, NEW a \in Actors, NEW x \in ActorRecord, Become(a, x),
           Holds(a, x, invocations'), Grow(invocations, invocations')
    PROVE  actor' \in [Actors -> ActorRecord] /\ \A b \in Actors : Holds(b, actor'[b], invocations')
<1>1. actor' = [actor EXCEPT ![a] = x] /\ actor \in [Actors -> ActorRecord]
  BY DEF Become, Typed
<1>2. ASSUME NEW b \in Actors, b # a PROVE Holds(b, actor'[b], invocations')
  BY <1>1, <1>2, GrowKeepsHolds DEF Typed
<1> QED BY <1>1, <1>2

LEMMA SameGrow == Grow(invocations, invocations)
BY DEF Grow

\* Rows move to a status that is not a pending one.
LEMMA CloseTyped ==
    ASSUME Typed, NEW rows, NEW st \in Closed \cup {"EXECUTING"}, Close(rows, st)
    PROVE  /\ invocations' \in Seq(RowRecord) /\ KindsAgree(invocations')
           /\ Grow(invocations, invocations')
           /\ DOMAIN invocations' = DOMAIN invocations
<1>1. \A i \in DOMAIN invocations : invocations[i] \in RowRecord
  BY Lengths
<1>2. st \in Undecided \cup Closed /\ st \notin Waiting
  BY DEF Undecided, Closed, Waiting
<1>3. DOMAIN invocations' = DOMAIN invocations /\ \A i \in DOMAIN invocations :
        invocations'[i] = IF i \in rows THEN [invocations[i] EXCEPT !.status = st] ELSE invocations[i]
  BY DEF Close
<1>4. \A i \in DOMAIN invocations : invocations'[i] \in RowRecord
  BY <1>1, <1>2, <1>3 DEF RowRecord
<1>5. invocations' \in Seq(RowRecord)
  <2>1. invocations' = [i \in DOMAIN invocations |-> invocations'[i]]
    BY <1>3 DEF Close
  <2> QED BY <2>1, <1>4, SeqChanged DEF Typed
<1>6. Grow(invocations, invocations')
  BY <1>1, <1>3 DEF Grow, RowRecord
<1>7. KindsAgree(invocations')
  BY <1>1, <1>2, <1>3 DEF KindsAgree, RowRecord, Waiting, Typed
<1> QED BY <1>3, <1>5, <1>6, <1>7

\* A new row is pending and of its kind.
LEMMA OpenTyped ==
    ASSUME Typed, NEW s \in Actors, NEW kind, NEW status,
           OpenRow(s, kind, status), actor[s].run \in Runs,
           \/ kind = "write" /\ status = "AWAITING_APPROVAL"
           \/ kind = "form" /\ status = "AWAITING_INPUT"
    PROVE  /\ invocations' \in Seq(RowRecord) /\ KindsAgree(invocations')
           /\ Grow(invocations, invocations')
           /\ Len(invocations) + 1 \in DOMAIN invocations'
           /\ invocations'[Len(invocations) + 1].run = actor[s].run
           /\ invocations'[Len(invocations) + 1].kind = kind
<1> DEFINE row == [run |-> actor[s].run, step |-> actor[s].step, call |-> actor[s].resolved + 1,
                   kind |-> kind, status |-> status, due |-> FALSE, done |-> 0]
<1>a. actor[s] \in ActorRecord
  BY DEF Typed
<1>c. actor[s].step \in Nat /\ actor[s].resolved \in Nat
  BY <1>a DEF ActorRecord
<1>0. actor[s].step \in Nat /\ actor[s].resolved + 1 \in Nat \ {0}
  BY <1>c
<1>b. kind \in {"write", "form"} /\ status \in Undecided \cup Closed
  BY DEF Undecided, Waiting
<1>1. row \in RowRecord
  BY <1>0, <1>b DEF RowRecord
<1>2. invocations' = Append(invocations, row) /\ invocations \in Seq(RowRecord)
  BY DEF OpenRow, Typed
<1>3. row.run = actor[s].run /\ row.kind = kind /\ row.status = status
  OBVIOUS
<1> HIDE DEF row
<1>4. /\ invocations' \in Seq(RowRecord)
      /\ DOMAIN invocations' = DOMAIN invocations \cup {Len(invocations) + 1}
      /\ \A i \in DOMAIN invocations : invocations'[i] = invocations[i]
      /\ invocations'[Len(invocations) + 1] = row
  BY <1>1, <1>2, Appended
<1>5. KindsAgree(invocations')
  BY <1>3, <1>4 DEF KindsAgree, Typed
<1> QED BY <1>3, <1>4, <1>5 DEF Grow

LEMMA MessageTyped ==
    ASSUME NEW kind \in {"user", "text", "step", "tool"}, NEW r \in Runs, NEW step \in Nat,
           NEW calls \in Seq(CallKinds), NEW told \in Seq(Told)
    PROVE  Message(kind, r, step, calls, told) \in MessageRecord
BY DEF Message, MessageRecord

LEMMA OutcomesTyped ==
    ASSUME Typed, NEW message \in MessageRecord, NEW fallback \in {"not done", "unknown"}
    PROVE  OutcomesOf(message, fallback) \in Seq(Told)
<1>1. message.calls \in Seq(CallKinds)
  BY DEF MessageRecord
<1>2. ASSUME NEW n \in DOMAIN message.calls
      PROVE OutcomesOf(message, fallback)[n] \in Told
  BY DEF OutcomesOf, OutcomeOf, Outcome, Told
<1>3. OutcomesOf(message, fallback) =
        [n \in DOMAIN message.calls |-> OutcomesOf(message, fallback)[n]]
  BY DEF OutcomesOf
<1> QED BY <1>1, <1>2, <1>3, SeqChanged

\* The last message, when it leaves calls open.
LEMMA OpenStepTyped ==
    ASSUME Typed, StepOpen
    PROVE  history[Len(history)] \in MessageRecord /\ Len(history) \in DOMAIN history
BY Lengths, EmptySeq DEF StepOpen, Typed

LEMMA AnswerTyped ==
    ASSUME Typed, NEW fallback \in {"not done", "unknown"}, NEW r, AnswerOpenStep(r, fallback)
    PROVE  history' \in Seq(MessageRecord)
<1>1. CASE StepOpen
  <2> DEFINE open == history[Len(history)]
  <2>1. open \in MessageRecord
    BY <1>1, OpenStepTyped
  <2>2. OutcomesOf(open, fallback) \in Seq(Told)
    BY <2>1, OutcomesTyped
  <2>3. history' = Append(history, Message("tool", open.run, open.step, open.calls,
                                           OutcomesOf(open, fallback)))
    BY <1>1 DEF AnswerOpenStep
  <2> HIDE DEF open
  <2>4. Message("tool", open.run, open.step, open.calls, OutcomesOf(open, fallback)) \in MessageRecord
    BY <2>1, <2>2, MessageTyped DEF MessageRecord
  <2> QED BY <2>3, <2>4, Appended DEF Typed
<1>2. CASE ~ StepOpen
  BY <1>2 DEF AnswerOpenStep, Typed
<1> QED BY <1>1, <1>2
-----------------------------------------------------------------------------
(***************************************************************************)
(* Actors.                                                                 *)
(***************************************************************************)
LEMMA ActorFacts ==
    ASSUME Typed, NEW a \in Actors
    PROVE  actor[a] \in ActorRecord /\ Holds(a, actor[a], invocations)
BY DEF Typed

LEMMA SlotsAct == Slots \subseteq Actors /\ Clients \subseteq Actors /\ Sweeper \in Actors
BY DEF Actors

LEMMA ClientsAreNoSlots == \A c \in Clients \cup {Sweeper} : c \notin Slots
BY AssistantAssumption

LEMMA RunsAreNumbers == Runs \subseteq Nat \ {0}
BY AssistantAssumption DEF Runs

LEMMA NothingResolved ==
    ASSUME NEW resolved, NEW calls, resolved = 0, calls = <<>>
    PROVE  resolved <= Len(calls)
BY EmptySeq

LEMMA NoneResolved ==
    ASSUME NEW S, NEW calls \in Seq(S), NEW resolved, resolved = 0
    PROVE  resolved <= Len(calls)
BY LenProperties

LEMMA IdleTyped ==
    /\ Idle \in ActorRecord
    /\ \A a, rows : Holds(a, Idle, rows)
<1>1. <<>> \in Seq(CallKinds) /\ Len(<<>>) = 0
  BY EmptySeq
<1>2. "idle" \in Pcs /\ "none" \in Ops
  BY DEF Pcs, Ops
<1>3. Idle \in ActorRecord
  BY <1>1, <1>2 DEF Idle, ActorRecord
<1>4. ASSUME NEW a, NEW rows PROVE Holds(a, Idle, rows)
  BY <1>1 DEF Holds, Idle, DriveOnly, Ending, OfRow, OfWrite
<1> QED BY <1>3, <1>4

\* Where an actor arrives with nothing but its run.
LEMMA FreshTyped ==
    ASSUME NEW a, NEW rows, NEW x \in ActorRecord, x.run \in Runs,
           x.op = "drive" => a \in Slots, a \in Slots => x.op = "drive",
           NEW pc \in {"guard", "unexpected", "count", "enqueue"},
           pc \in {"guard", "unexpected"} => a \in Slots
    PROVE  Fresh(x, pc) \in ActorRecord /\ Holds(a, Fresh(x, pc), rows)
<1>1. Idle \in ActorRecord /\ Idle.calls = <<>> /\ Idle.resolved = 0 /\ Len(<<>>) = 0
  BY IdleTyped, EmptySeq DEF Idle
<1>2. pc \in Pcs /\ x.op \in Ops /\ x.run \in Nat
  BY DEF Pcs, DriveOnly, ActorRecord
<1>3. Fresh(x, pc) \in ActorRecord
  BY <1>1, <1>2 DEF Fresh, ActorRecord
<1>4. /\ Fresh(x, pc).op = x.op /\ Fresh(x, pc).pc = pc /\ Fresh(x, pc).run = x.run
      /\ Fresh(x, pc).calls = <<>> /\ Fresh(x, pc).resolved = 0
  BY <1>1 DEF Fresh, ActorRecord
<1>6. Fresh(x, pc).resolved <= Len(Fresh(x, pc).calls)
  BY <1>4, NothingResolved
<1>5. Holds(a, Fresh(x, pc), rows)
  BY <1>4, <1>6 DEF Holds, DriveOnly, Ending, OfRow, OfWrite
<1> QED BY <1>3, <1>5

\* An actor about to end a run.
LEMMA FinalizingTyped ==
    ASSUME NEW a, NEW rows, NEW x \in ActorRecord, x.run \in Runs,
           x.op = "drive" => a \in Slots, a \in Slots => x.op = "drive",
           NEW to \in Terminal, NEW from \in SUBSET Active, LegalEnd(to, from),
           NEW fallback \in {"not done", "unknown"}
    PROVE  /\ Finalizing(x, to, from, fallback) \in ActorRecord
           /\ Holds(a, Finalizing(x, to, from, fallback), rows)
<1>1. Idle \in ActorRecord /\ Idle.calls = <<>> /\ Idle.resolved = 0 /\ Len(<<>>) = 0
  BY IdleTyped, EmptySeq DEF Idle
<1>2. x.op \in Ops /\ x.run \in Nat /\ "finalize" \in Pcs
  BY DEF Pcs, Ending, ActorRecord
<1> DEFINE y == Finalizing(x, to, from, fallback)
<1>3. y \in ActorRecord
  BY <1>1, <1>2 DEF Finalizing, Fresh, ActorRecord
<1>4. /\ y.op = x.op /\ y.pc = "finalize" /\ y.run = x.run /\ y.calls = <<>> /\ y.resolved = 0
      /\ y.to = to /\ y.from = from /\ y.fallback = fallback
  BY <1>1 DEF Finalizing, Fresh, ActorRecord
<1> HIDE DEF y
<1>6. y.resolved <= Len(y.calls)
  BY <1>4, NothingResolved
<1>5. Holds(a, y, rows)
  BY <1>4, <1>6 DEF Holds, DriveOnly, Ending, OfRow, OfWrite
<1> QED BY <1>3, <1>5 DEF y

\* The same, from the state of a stack that does nothing else.
LEMMA FinalizingAnew ==
    ASSUME NEW a, a \notin Slots, NEW rows, NEW r \in Runs,
           NEW to \in Terminal, NEW from \in SUBSET Active, LegalEnd(to, from),
           NEW fallback \in {"not done", "unknown"}
    PROVE  LET x == [Finalizing([Idle EXCEPT !.run = r], to, from, fallback) EXCEPT !.op = "sweep"]
           IN  x \in ActorRecord /\ Holds(a, x, rows)
<1> DEFINE x == [Finalizing([Idle EXCEPT !.run = r], to, from, fallback) EXCEPT !.op = "sweep"]
<1>1. Idle \in ActorRecord /\ Idle.calls = <<>> /\ Idle.resolved = 0 /\ Len(<<>>) = 0
  BY IdleTyped, EmptySeq DEF Idle
<1>a. r \in Nat
  BY RunsAreNumbers
<1>2. "sweep" \in Ops /\ r \in Nat /\ "finalize" \in Pcs
  BY <1>a DEF Pcs, Ending, Ops
<1>3. x \in ActorRecord
  BY <1>1, <1>2 DEF Finalizing, Fresh, ActorRecord
<1>4. /\ x.op = "sweep" /\ x.pc = "finalize" /\ x.run = r /\ x.calls = <<>> /\ x.resolved = 0
      /\ x.to = to /\ x.from = from /\ x.fallback = fallback
  BY <1>1 DEF Finalizing, Fresh, ActorRecord
<1> HIDE DEF x
<1>6. x.resolved <= Len(x.calls)
  BY <1>4, NothingResolved
<1>5. Holds(a, x, rows)
  BY <1>4, <1>6 DEF Holds, DriveOnly, Ending, OfRow, OfWrite
<1> QED BY <1>3, <1>5 DEF x

\* An actor of its own kind, with a run.
LEMMA WithRun ==
    ASSUME NEW op \in Ops, NEW r \in Runs
    PROVE  LET x == [Idle EXCEPT !.op = op, !.run = r]
           IN  x \in ActorRecord /\ x.op = op /\ x.run = r
<1>1. r \in Nat
  BY RunsAreNumbers
<1> QED BY <1>1, IdleTyped DEF ActorRecord

LEMMA GoToBecomes ==
    ASSUME NEW a, NEW pc
    PROVE  GoTo(a, pc) <=> Become(a, [actor[a] EXCEPT !.pc = pc])
BY DEF GoTo, Become

\* The types after a step of one actor.
LEMMA StepTyped ==
    ASSUME Typed, NEW a \in Actors, NEW x, x \in ActorRecord, Become(a, x),
           Holds(a, x, invocations'),
           invocations' \in Seq(RowRecord), KindsAgree(invocations'),
           Grow(invocations, invocations'),
           runs' \in [Runs -> RunRecord], history' \in Seq(MessageRecord),
           jobs' \in [Runs -> Nat], allowed' \in BOOLEAN,
           ops' \in 0 .. MaxEvents, faults' \in 0 .. MaxFaults
    PROVE  Typed'
BY ActorMoves DEF Typed

\* A fault is counted.
LEMMA FaultTyped ==
    ASSUME Typed, NEW kind, Fault(kind)
    PROVE  faults' \in 0 .. MaxFaults
BY AssistantAssumption DEF Fault, Typed
-----------------------------------------------------------------------------
(***************************************************************************)
(* A slot, step by step.                                                    *)
(***************************************************************************)
\* A move that leaves the tables alone, or only writes a run and the history.
LEMMA QuietStep ==
    ASSUME Typed, NEW a \in Actors, NEW x, x \in ActorRecord, Become(a, x),
           Holds(a, x, invocations), UNCHANGED <<invocations, jobs, outside>>,
           runs' \in [Runs -> RunRecord], history' \in Seq(MessageRecord)
    PROVE  Typed'
<1>1. /\ invocations' = invocations /\ jobs' = jobs /\ allowed' = allowed
      /\ ops' = ops /\ faults' = faults
  BY DEF outside
<1>2. /\ invocations' \in Seq(RowRecord) /\ KindsAgree(invocations') /\ Holds(a, x, invocations')
      /\ jobs' \in [Runs -> Nat] /\ allowed' \in BOOLEAN
      /\ ops' \in 0 .. MaxEvents /\ faults' \in 0 .. MaxFaults
      /\ Grow(invocations, invocations')
  BY <1>1, SameGrow DEF Typed
<1> QED BY <1>2, StepTyped

\* A move that only closes rows.
LEMMA ClosingStep ==
    ASSUME Typed, NEW a \in Actors, NEW x, x \in ActorRecord, Become(a, x),
           Grow(invocations, invocations') => Holds(a, x, invocations'),
           NEW rows, NEW st \in Closed \cup {"EXECUTING"}, Close(rows, st),
           UNCHANGED <<runs, history, jobs, allowed, ops>>,
           faults' \in 0 .. MaxFaults
    PROVE  Typed'
<1>1. runs' = runs /\ history' = history /\ jobs' = jobs /\ allowed' = allowed /\ ops' = ops
  OBVIOUS
<1>2. /\ invocations' \in Seq(RowRecord) /\ KindsAgree(invocations')
      /\ Grow(invocations, invocations') /\ DOMAIN invocations' = DOMAIN invocations
  BY CloseTyped
<1>3. /\ runs' \in [Runs -> RunRecord] /\ history' \in Seq(MessageRecord)
      /\ jobs' \in [Runs -> Nat] /\ allowed' \in BOOLEAN /\ ops' \in 0 .. MaxEvents
  BY <1>1 DEF Typed
<1> QED BY <1>2, <1>3, StepTyped

LEMMA StatusTyped ==
    ASSUME Typed, NEW r, NEW status \in Statuses, SetStatus(r, status)
    PROVE  runs' \in [Runs -> RunRecord]
BY DEF Typed, SetStatus, RunRecord

LEMMA ClaimTyped ==
    ASSUME Typed, NEW s \in Slots, Claim(s)
    PROVE  Typed'
<1> PICK r \in Runs :
        /\ jobs[r] > 0
        /\ jobs' = [jobs EXCEPT ![r] = @ - 1]
        /\ IF runs[r].status = "QUEUED"
           THEN /\ SetStatus(r, "RUNNING")
                /\ Become(s, [Idle EXCEPT !.op = "drive", !.pc = "answer", !.run = r])
           ELSE UNCHANGED <<runs, actor>>
        /\ UNCHANGED <<history, invocations, outside>>
  BY DEF Claim
<1>1. jobs' \in [Runs -> Nat]
  BY DEF Typed
<1>2. CASE runs[r].status = "QUEUED"
  <2> DEFINE x == [Idle EXCEPT !.op = "drive", !.pc = "answer", !.run = r]
  <2>1. Idle \in ActorRecord /\ Idle.calls = <<>> /\ Idle.resolved = 0
    BY IdleTyped DEF Idle
  <2>2. r \in Nat
    BY RunsAreNumbers
  <2>3. x \in ActorRecord
    BY <2>1, <2>2, ZenonT(60) DEF ActorRecord, Ops, Pcs, DriveOnly
  <2>4. /\ x.op = "drive" /\ x.pc = "answer" /\ x.run = r /\ x.calls = <<>> /\ x.resolved = 0
    BY <2>1 DEF ActorRecord
  <2>5. Become(s, x)
    BY <1>2
  <2> HIDE DEF x
  <2>6. x.resolved <= Len(x.calls)
    BY <2>4, NothingResolved
  <2>7. Holds(s, x, invocations')
    BY <2>4, <2>6 DEF Holds, Ending, OfRow, OfWrite
  <2>8. runs' \in [Runs -> RunRecord]
    BY <1>2, StatusTyped DEF Statuses, Active
  <2>9. invocations' = invocations /\ history' = history /\ allowed' = allowed
        /\ ops' = ops /\ faults' = faults
    BY DEF outside
  <2>10. /\ invocations' \in Seq(RowRecord) /\ KindsAgree(invocations')
         /\ Grow(invocations, invocations') /\ history' \in Seq(MessageRecord)
         /\ allowed' \in BOOLEAN /\ ops' \in 0 .. MaxEvents /\ faults' \in 0 .. MaxFaults
    BY <2>9, SameGrow DEF Typed
  <2> QED BY <1>1, <2>3, <2>5, <2>7, <2>8, <2>10, SlotsAct, StepTyped
<1>3. CASE runs[r].status # "QUEUED"
  BY <1>1, <1>3 DEF Typed, outside
<1> QED BY <1>2, <1>3

LEMMA AnswerResumeTyped ==
    ASSUME Typed, NEW s \in Slots, AnswerResume(s)
    PROVE  Typed'
<1> DEFINE x == [actor[s] EXCEPT !.pc = "guard"]
<1>1. actor[s] \in ActorRecord /\ Holds(s, actor[s], invocations) /\ s \in Actors
  BY ActorFacts, SlotsAct
<1>2. Become(s, x) /\ actor[s].op = "drive" /\ actor[s].pc = "answer"
  BY GoToBecomes DEF AnswerResume, At
<1>3. x \in ActorRecord
  BY <1>1 DEF ActorRecord, Pcs, DriveOnly
<1>4. /\ x.op = actor[s].op /\ x.pc = "guard" /\ x.run = actor[s].run
      /\ x.calls = actor[s].calls /\ x.resolved = actor[s].resolved
  BY <1>1 DEF ActorRecord
<1> HIDE DEF x
<1>5. Holds(s, x, invocations)
  BY <1>1, <1>2, <1>4 DEF Holds, Ending, OfRow, OfWrite
<1>6. history' \in Seq(MessageRecord)
  BY AnswerTyped DEF AnswerResume
<1>7. runs' \in [Runs -> RunRecord] /\ UNCHANGED <<invocations, jobs, outside>>
  BY DEF AnswerResume, Typed
<1> QED BY <1>1, <1>2, <1>3, <1>5, <1>6, <1>7, QuietStep

\* The end of a run that is driven.
LEMMA LoopEnds ==
    ASSUME Typed, NEW s \in Slots, actor[s].pc # "idle",
           NEW to \in {"FINISHED", "CANCELLED"}, NEW fallback \in {"not done", "unknown"}
    PROVE  LET x == Finalizing(actor[s], to, {"RUNNING"}, fallback)
           IN  x \in ActorRecord /\ \A rows : Holds(s, x, rows)
<1>1. actor[s] \in ActorRecord /\ Holds(s, actor[s], invocations) /\ s \in Actors
  BY ActorFacts, SlotsAct
<1>2. actor[s].run \in Runs /\ actor[s].op = "drive"
  BY <1>1 DEF Holds
<1>3. to \in Terminal /\ {"RUNNING"} \in SUBSET Active /\ LegalEnd(to, {"RUNNING"})
  BY DEF Terminal, Active, LegalEnd
<1> QED BY <1>1, <1>2, <1>3, FinalizingTyped

\* A slot that goes on with its run alone.
LEMMA LoopGoesOn ==
    ASSUME Typed, NEW s \in Slots, actor[s].pc # "idle",
           NEW pc \in {"guard", "unexpected", "count", "enqueue"}
    PROVE  LET x == Fresh(actor[s], pc)
           IN  x \in ActorRecord /\ \A rows : Holds(s, x, rows)
<1>1. actor[s] \in ActorRecord /\ Holds(s, actor[s], invocations) /\ s \in Actors
  BY ActorFacts, SlotsAct
<1>2. actor[s].run \in Runs /\ actor[s].op = "drive"
  BY <1>1 DEF Holds
<1> QED BY <1>1, <1>2, FreshTyped

LEMMA GuardTyped ==
    ASSUME Typed, NEW s \in Slots, Guard(s)
    PROVE  Typed'
<1>1. actor[s] \in ActorRecord /\ Holds(s, actor[s], invocations) /\ s \in Actors
  BY ActorFacts, SlotsAct
<1>2. actor[s].pc = "guard" /\ actor[s].run \in Runs
  BY <1>1 DEF Guard, At, Holds
<1>3. UNCHANGED <<invocations, jobs, outside>> /\ runs' = runs /\ history' = history
  BY DEF Guard, tables
<1>4. runs' \in [Runs -> RunRecord] /\ history' \in Seq(MessageRecord)
  BY <1>3 DEF Typed
<1>5. ASSUME NEW to \in {"FINISHED", "CANCELLED"},
             Become(s, Finalizing(actor[s], to, {"RUNNING"}, "not done"))
      PROVE Typed'
  BY <1>1, <1>2, <1>3, <1>4, <1>5, LoopEnds, QuietStep
<1>6. ASSUME Done(s) PROVE Typed'
  BY <1>1, <1>3, <1>4, <1>6, IdleTyped, QuietStep DEF Done
<1>7. ASSUME Become(s, [actor[s] EXCEPT !.pc = "model", !.step = runs[actor[s].run].steps])
      PROVE Typed'
  <2> DEFINE x == [actor[s] EXCEPT !.pc = "model", !.step = runs[actor[s].run].steps]
  <2>1. runs[actor[s].run].steps \in Nat
    BY <1>2 DEF Typed, RunRecord
  <2>2. x \in ActorRecord
    BY <1>1, <2>1 DEF ActorRecord, Pcs, DriveOnly
  <2>3. /\ x.op = actor[s].op /\ x.pc = "model" /\ x.run = actor[s].run
        /\ x.calls = actor[s].calls /\ x.resolved = actor[s].resolved
    BY <1>1 DEF ActorRecord
  <2>4. Become(s, x)
    BY <1>7
  <2> HIDE DEF x
  <2>5. Holds(s, x, invocations)
    BY <1>1, <1>2, <2>3 DEF Holds, Ending, OfRow, OfWrite
  <2> QED BY <1>1, <1>3, <1>4, <2>2, <2>4, <2>5, QuietStep
<1> QED BY <1>5, <1>6, <1>7 DEF Guard

LEMMA PersistTyped ==
    ASSUME Typed, NEW s \in Slots, actor[s].pc = "model", NEW kind \in {"text", "step"},
           NEW calls \in Seq(CallKinds), Persist(s, kind, calls)
    PROVE  runs' \in [Runs -> RunRecord] /\ history' \in Seq(MessageRecord)
<1>1. actor[s] \in ActorRecord /\ Holds(s, actor[s], invocations)
  BY ActorFacts, SlotsAct
<1>2. actor[s].run \in Runs /\ actor[s].step \in Nat
  BY <1>1 DEF Holds, ActorRecord
<1>3. runs[actor[s].run] \in RunRecord
  BY <1>2 DEF Typed
<1>4. runs[actor[s].run].steps + 1 \in Nat
  BY <1>3 DEF RunRecord
<1>5. runs' \in [Runs -> RunRecord]
  BY <1>4 DEF Persist, Typed, RunRecord
<1>6. <<>> \in Seq(Told)
  BY EmptySeq
<1>7. Message(kind, actor[s].run, actor[s].step, calls, <<>>) \in MessageRecord
  BY <1>2, <1>6, MessageTyped
<1>8. history' \in Seq(MessageRecord)
  BY <1>7, Appended DEF Persist, Typed
<1> QED BY <1>5, <1>8

LEMMA ModelFailsTyped ==
    ASSUME Typed, NEW s \in Slots, ModelFails(s)
    PROVE  Typed'
<1>1. actor[s].pc = "model" /\ s \in Actors
  BY SlotsAct DEF ModelFails, At
<1>2. UNCHANGED <<invocations, jobs, outside>> /\ runs' = runs /\ history' = history
  BY DEF ModelFails, tables
<1>3. runs' \in [Runs -> RunRecord] /\ history' \in Seq(MessageRecord)
  BY <1>2 DEF Typed
<1>4. PICK to \in {"FINISHED", "CANCELLED"} :
          Become(s, Finalizing(actor[s], to, {"RUNNING"}, "not done"))
  BY DEF ModelFails
<1> QED BY <1>1, <1>2, <1>3, <1>4, LoopEnds, QuietStep

LEMMA ModelSpeaksTyped ==
    ASSUME Typed, NEW s \in Slots, ModelSpeaks(s)
    PROVE  Typed'
<1>1. actor[s].pc = "model" /\ s \in Actors /\ UNCHANGED <<invocations, jobs, outside>>
  BY SlotsAct DEF ModelSpeaks, At
<1>2. <<>> \in Seq(CallKinds)
  BY EmptySeq
<1>3. runs' \in [Runs -> RunRecord] /\ history' \in Seq(MessageRecord)
  BY <1>1, <1>2, PersistTyped DEF ModelSpeaks
<1>4. CASE Become(s, Finalizing(actor[s], "FINISHED", {"RUNNING"}, "not done"))
  BY <1>1, <1>3, <1>4, LoopEnds, QuietStep
<1>5. CASE GoOn(s, "guard")
  BY <1>1, <1>3, <1>5, LoopGoesOn, QuietStep DEF GoOn
<1> QED BY <1>4, <1>5 DEF ModelSpeaks

LEMMA ModelCallsTyped ==
    ASSUME Typed, NEW s \in Slots, ModelCalls(s)
    PROVE  Typed'
<1> PICK calls \in CallSets :
         /\ Persist(s, "step", calls)
         /\ \/ Become(s, Finalizing(actor[s], "FINISHED", {"RUNNING"}, "not done"))
            \/ Become(s, [actor[s] EXCEPT !.pc = "boundary", !.calls = calls,
                                          !.resolved = 0, !.waits = "none"])
  BY DEF ModelCalls
<1>1. actor[s].pc = "model" /\ s \in Actors /\ UNCHANGED <<invocations, jobs, outside>>
  BY SlotsAct DEF ModelCalls, At
<1>2. calls \in Seq(CallKinds) /\ Len(calls) \in Nat
  BY AssistantAssumption, LenProperties DEF CallKinds
<1>3. runs' \in [Runs -> RunRecord] /\ history' \in Seq(MessageRecord)
  BY <1>1, <1>2, PersistTyped
<1>4. CASE Become(s, Finalizing(actor[s], "FINISHED", {"RUNNING"}, "not done"))
  BY <1>1, <1>3, <1>4, LoopEnds, QuietStep
<1>5. CASE Become(s, [actor[s] EXCEPT !.pc = "boundary", !.calls = calls,
                                      !.resolved = 0, !.waits = "none"])
  <2> DEFINE x == [actor[s] EXCEPT !.pc = "boundary", !.calls = calls,
                                   !.resolved = 0, !.waits = "none"]
  <2>1. actor[s] \in ActorRecord /\ Holds(s, actor[s], invocations)
    BY <1>1, ActorFacts
  <2>2. x \in ActorRecord
    BY <2>1, <1>2 DEF ActorRecord, Pcs, DriveOnly
  <2>3. /\ x.op = actor[s].op /\ x.pc = "boundary" /\ x.run = actor[s].run
        /\ x.calls = calls /\ x.resolved = 0
    BY <2>1 DEF ActorRecord
  <2> HIDE DEF x
  <2>4. x.resolved <= Len(x.calls)
    BY <1>2, <2>3, NoneResolved
  <2>5. Holds(s, x, invocations)
    BY <1>1, <2>1, <2>3, <2>4 DEF Holds, Ending, OfRow, OfWrite
  <2> QED BY <1>1, <1>3, <1>5, <2>2, <2>5, QuietStep DEF x
<1> QED BY <1>4, <1>5

LEMMA BoundaryTyped ==
    ASSUME Typed, NEW s \in Slots, Boundary(s)
    PROVE  Typed'
<1>1. actor[s] \in ActorRecord /\ Holds(s, actor[s], invocations) /\ s \in Actors
  BY ActorFacts, SlotsAct
<1>2. actor[s].pc = "boundary"
  BY DEF Boundary, At
<1>3. UNCHANGED <<invocations, jobs, outside>> /\ runs' = runs /\ history' = history
  BY DEF Boundary, tables
<1>4. runs' \in [Runs -> RunRecord] /\ history' \in Seq(MessageRecord)
  BY <1>3 DEF Typed
<1>5. CASE Become(s, Finalizing(actor[s], "CANCELLED", {"RUNNING"}, "not done"))
  BY <1>1, <1>2, <1>3, <1>4, <1>5, LoopEnds, QuietStep
<1>6. CASE Done(s)
  BY <1>1, <1>3, <1>4, <1>6, IdleTyped, QuietStep DEF Done
<1>7. CASE GoTo(s, "resolve")
  <2> DEFINE x == [actor[s] EXCEPT !.pc = "resolve"]
  <2>1. x \in ActorRecord
    BY <1>1 DEF ActorRecord, Pcs, DriveOnly
  <2>2. /\ x.op = actor[s].op /\ x.pc = "resolve" /\ x.run = actor[s].run
        /\ x.calls = actor[s].calls /\ x.resolved = actor[s].resolved
    BY <1>1 DEF ActorRecord
  <2>3. Become(s, x)
    BY <1>7, GoToBecomes
  <2> HIDE DEF x
  <2>4. Holds(s, x, invocations)
    BY <1>1, <1>2, <2>2 DEF Holds, Ending, OfRow, OfWrite
  <2> QED BY <1>1, <1>3, <1>4, <2>1, <2>3, <2>4, QuietStep
<1> QED BY <1>5, <1>6, <1>7 DEF Boundary
-----------------------------------------------------------------------------
(***************************************************************************)
(* The calls of a step.                                                     *)
(***************************************************************************)
\* One more call of a step is resolved.
LEMMA OneMore ==
    ASSUME Typed, NEW s \in Actors, NEW kind, Resolving(s, kind)
    PROVE  /\ actor[s].pc = "resolve" /\ actor[s].run \in Runs /\ s \in Slots
           /\ actor[s].resolved + 1 \in Nat /\ actor[s].resolved + 1 <= Len(actor[s].calls)
<1>1. actor[s] \in ActorRecord /\ Holds(s, actor[s], invocations)
  BY ActorFacts
<1>2. actor[s].pc = "resolve"
  BY DEF Resolving, At
<1>3. actor[s].resolved \in Nat /\ actor[s].calls \in Seq(CallKinds)
  BY <1>1 DEF ActorRecord
<1>4. Len(actor[s].calls) \in Nat /\ actor[s].resolved < Len(actor[s].calls)
  BY <1>3, LenProperties DEF Resolving
<1>5. actor[s].resolved + 1 \in Nat /\ actor[s].resolved + 1 <= Len(actor[s].calls)
  BY <1>3, <1>4
<1>6. actor[s].run \in Runs /\ s \in Slots
  BY <1>1, <1>2 DEF Holds, DriveOnly
<1> QED BY <1>2, <1>5, <1>6

\* Where the loop is when it has resolved one more call.
LEMMA ResolvedTyped ==
    ASSUME Typed, NEW s \in Actors, NEW kind, Resolving(s, kind), NEW x \in ActorRecord,
           x.op = actor[s].op, x.pc = "resolve", x.run = actor[s].run,
           x.calls = actor[s].calls, x.resolved = actor[s].resolved + 1
    PROVE  \A rows : Holds(s, x, rows)
<1>1. Holds(s, actor[s], invocations)
  BY ActorFacts
<1>2. x.resolved <= Len(x.calls)
  BY OneMore
<1>3. x.run \in Runs /\ s \in Slots
  BY OneMore
<1> QED BY <1>1, <1>2, <1>3, OneMore DEF Holds, Ending, OfRow, OfWrite

LEMMA AnswerCallTyped ==
    ASSUME Typed, NEW s \in Slots, AnswerCall(s)
    PROVE  Typed'
<1> PICK kind \in {"read", "write", "form"} : Resolving(s, kind)
  BY DEF AnswerCall
<1> DEFINE x == [actor[s] EXCEPT !.resolved = @ + 1]
<1>1. actor[s] \in ActorRecord /\ s \in Actors /\ Become(s, x)
  BY ActorFacts, SlotsAct DEF AnswerCall
<1>2. actor[s].resolved + 1 \in Nat /\ actor[s].pc = "resolve"
  BY <1>1, OneMore
<1>3. x \in ActorRecord
  BY <1>1, <1>2 DEF ActorRecord
<1>4. /\ x.op = actor[s].op /\ x.pc = "resolve" /\ x.run = actor[s].run
      /\ x.calls = actor[s].calls /\ x.resolved = actor[s].resolved + 1
  BY <1>1, <1>2 DEF ActorRecord
<1> HIDE DEF x
<1>5. Holds(s, x, invocations)
  BY <1>1, <1>3, <1>4, ResolvedTyped
<1>6. UNCHANGED <<invocations, jobs, outside>> /\ runs' = runs /\ history' = history
  BY DEF AnswerCall, tables
<1>7. runs' \in [Runs -> RunRecord] /\ history' \in Seq(MessageRecord)
  BY <1>6 DEF Typed
<1> QED BY <1>1, <1>3, <1>5, <1>6, <1>7, QuietStep

\* What a new row leaves, whatever becomes of the loop.
LEMMA OpeningStep ==
    ASSUME Typed, NEW s \in Slots, NEW kind, NEW status, Resolving(s, kind),
           OpenRow(s, kind, status),
           \/ kind = "write" /\ status = "AWAITING_APPROVAL"
           \/ kind = "form" /\ status = "AWAITING_INPUT",
           NEW x, x \in ActorRecord, Become(s, x), Holds(s, x, invocations'),
           UNCHANGED <<runs, history, jobs, outside>>
    PROVE  Typed'
<1>1. s \in Actors /\ actor[s].run \in Runs
  BY SlotsAct, OneMore
<1>2. invocations' \in Seq(RowRecord) /\ KindsAgree(invocations') /\ Grow(invocations, invocations')
  BY <1>1, OpenTyped
<1>3. /\ runs' = runs /\ history' = history /\ jobs' = jobs
      /\ allowed' = allowed /\ ops' = ops /\ faults' = faults
  BY DEF outside
<1>4. /\ runs' \in [Runs -> RunRecord] /\ history' \in Seq(MessageRecord)
      /\ jobs' \in [Runs -> Nat] /\ allowed' \in BOOLEAN
      /\ ops' \in 0 .. MaxEvents /\ faults' \in 0 .. MaxFaults
  BY <1>3 DEF Typed
<1> QED BY <1>1, <1>2, <1>4, StepTyped

LEMMA ProposeTyped ==
    ASSUME Typed, NEW s \in Slots, Propose(s)
    PROVE  Typed'
<1>1. actor[s] \in ActorRecord /\ Holds(s, actor[s], invocations) /\ s \in Actors
  BY ActorFacts, SlotsAct
<1>2. /\ Resolving(s, "write") /\ OpenRow(s, "write", "AWAITING_APPROVAL")
      /\ UNCHANGED <<runs, history, jobs, outside>>
  BY DEF Propose
<1>3. actor[s].resolved + 1 \in Nat /\ actor[s].pc = "resolve" /\ actor[s].run \in Runs
  BY <1>1, <1>2, OneMore
<1>4. CASE Resolved(s, "AWAITING_APPROVAL")
  <2> DEFINE x == [actor[s] EXCEPT !.resolved = @ + 1, !.waits = "AWAITING_APPROVAL"]
  <2>1. x \in ActorRecord
    BY <1>1, <1>3 DEF ActorRecord, Waiting
  <2>2. /\ x.op = actor[s].op /\ x.pc = "resolve" /\ x.run = actor[s].run
        /\ x.calls = actor[s].calls /\ x.resolved = actor[s].resolved + 1
    BY <1>1, <1>3 DEF ActorRecord
  <2>3. Become(s, x)
    BY <1>4 DEF Resolved
  <2> HIDE DEF x
  <2>4. Holds(s, x, invocations')
    BY <1>1, <1>2, <2>1, <2>2, ResolvedTyped
  <2> QED BY <1>2, <2>1, <2>3, <2>4, OpeningStep
<1>5. CASE Deciding(s)
  <2> DEFINE x == [actor[s] EXCEPT !.resolved = @ + 1, !.pc = "approve",
                                   !.of = Len(invocations) + 1]
  <2>1. Len(invocations) + 1 \in Nat
    BY Lengths
  <2>2. x \in ActorRecord
    BY <1>1, <1>3, <2>1 DEF ActorRecord, Pcs, DriveOnly
  <2>3. /\ x.op = actor[s].op /\ x.pc = "approve" /\ x.run = actor[s].run
        /\ x.calls = actor[s].calls /\ x.resolved = actor[s].resolved + 1
        /\ x.of = Len(invocations) + 1
    BY <1>1, <1>3 DEF ActorRecord
  <2>4. Become(s, x)
    BY <1>5 DEF Deciding
  <2> HIDE DEF x
  <2>5. /\ x.of \in DOMAIN invocations' /\ invocations'[x.of].run = x.run
        /\ invocations'[x.of].kind = "write"
    BY <1>1, <1>2, <1>3, <2>3, OpenTyped
  <2>6. x.resolved <= Len(x.calls)
    BY <1>1, <1>2, <2>3, OneMore
  <2>7. Holds(s, x, invocations')
    BY <1>1, <1>3, <2>3, <2>5, <2>6 DEF Holds, Ending, OfRow
  <2> QED BY <1>2, <2>2, <2>4, <2>7, OpeningStep
<1> QED BY <1>4, <1>5 DEF Propose

LEMMA RequestInputTyped ==
    ASSUME Typed, NEW s \in Slots, RequestInput(s)
    PROVE  Typed'
<1>1. actor[s] \in ActorRecord /\ s \in Actors
  BY ActorFacts, SlotsAct
<1>2. /\ Resolving(s, "form") /\ OpenRow(s, "form", "AWAITING_INPUT")
      /\ UNCHANGED <<runs, history, jobs, outside>>
  BY DEF RequestInput
<1>3. actor[s].resolved + 1 \in Nat /\ actor[s].pc = "resolve"
  BY <1>1, <1>2, OneMore
<1> DEFINE x == [actor[s] EXCEPT !.resolved = @ + 1, !.waits = "AWAITING_INPUT"]
<1>4. x \in ActorRecord
  BY <1>1, <1>3 DEF ActorRecord, Waiting
<1>5. /\ x.op = actor[s].op /\ x.pc = "resolve" /\ x.run = actor[s].run
      /\ x.calls = actor[s].calls /\ x.resolved = actor[s].resolved + 1
  BY <1>1, <1>3 DEF ActorRecord
<1>6. Become(s, x)
  BY DEF RequestInput, Resolved
<1> HIDE DEF x
<1>7. Holds(s, x, invocations')
  BY <1>1, <1>2, <1>4, <1>5, ResolvedTyped
<1> QED BY <1>2, <1>4, <1>6, <1>7, OpeningStep

\* The loop is back from a decision of its own.
LEMMA ReturnTyped ==
    ASSUME Typed, NEW s \in Slots, actor[s].pc # "idle", NEW waits \in Waiting \cup {"none"}
    PROVE  LET x == [actor[s] EXCEPT !.pc = "resolve", !.waits = waits, !.of = 0, !.choice = "none"]
           IN  x \in ActorRecord /\ \A rows : Holds(s, x, rows)
<1> DEFINE x == [actor[s] EXCEPT !.pc = "resolve", !.waits = waits, !.of = 0, !.choice = "none"]
<1>1. actor[s] \in ActorRecord /\ Holds(s, actor[s], invocations)
  BY ActorFacts, SlotsAct
<1>2. x \in ActorRecord
  BY <1>1 DEF ActorRecord, Pcs, DriveOnly
<1>3. /\ x.op = actor[s].op /\ x.pc = "resolve" /\ x.run = actor[s].run
      /\ x.calls = actor[s].calls /\ x.resolved = actor[s].resolved
  BY <1>1 DEF ActorRecord
<1> HIDE DEF x
<1>4. ASSUME NEW rows PROVE Holds(s, x, rows)
  BY <1>1, <1>3 DEF Holds, Ending, OfRow, OfWrite
<1> QED BY <1>2, <1>4 DEF x

\* An actor keeps its row while it goes on with it.
LEMMA GoToTyped ==
    ASSUME Typed, NEW a \in Actors, actor[a].pc \in OfWrite,
           NEW pc \in {"execute", "unrecorded"}
    PROVE  LET x == [actor[a] EXCEPT !.pc = pc]
           IN  x \in ActorRecord /\ \A rows : Grow(invocations, rows) => Holds(a, x, rows)
<1> DEFINE x == [actor[a] EXCEPT !.pc = pc]
<1>1. actor[a] \in ActorRecord /\ Holds(a, actor[a], invocations)
  BY ActorFacts
<1>2. x \in ActorRecord
  BY <1>1 DEF ActorRecord, Pcs, OfRow, OfWrite
<1>3. /\ x.op = actor[a].op /\ x.pc = pc /\ x.run = actor[a].run /\ x.of = actor[a].of
      /\ x.calls = actor[a].calls /\ x.resolved = actor[a].resolved
  BY <1>1 DEF ActorRecord
<1> HIDE DEF x
<1>4. Holds(a, x, invocations)
  BY <1>1, <1>3 DEF Holds, DriveOnly, Ending, OfRow, OfWrite
<1> QED BY <1>2, <1>4, GrowKeepsHolds DEF x

LEMMA ApproveTyped ==
    ASSUME Typed, NEW a \in Actors, actor[a].pc \in OfWrite, Approve(a),
           UNCHANGED <<runs, history, jobs, allowed, ops>>
    PROVE  Typed'
<1>1. Close({actor[a].of}, "EXECUTING")
  BY DEF Approve
<1>2. ASSUME NEW pc \in {"execute", "unrecorded"}, GoTo(a, pc), faults' \in 0 .. MaxFaults
      PROVE  Typed'
  <2> DEFINE x == [actor[a] EXCEPT !.pc = pc]
  <2>1. Become(a, x)
    BY <1>2, GoToBecomes
  <2>2. x \in ActorRecord /\ \A rows : Grow(invocations, rows) => Holds(a, x, rows)
    BY GoToTyped
  <2> HIDE DEF x
  <2> QED BY <1>1, <1>2, <2>1, <2>2, ClosingStep
<1>3. CASE GoTo(a, "execute") /\ UNCHANGED faults
  BY <1>2, <1>3 DEF Typed
<1>4. CASE Fault("throw") /\ GoTo(a, "unrecorded")
  BY <1>2, <1>4, FaultTyped
<1> QED BY <1>3, <1>4 DEF Approve

LEMMA NoClose ==
    ASSUME Typed, UNCHANGED invocations
    PROVE  Close({}, "EXPIRED")
<1>1. invocations = [i \in DOMAIN invocations |-> invocations[i]]
  BY LenProperties, SeqDef DEF Typed
<1> QED BY <1>1 DEF Close

LEMMA AutoApproveTyped ==
    ASSUME Typed, NEW s \in Slots, AutoApprove(s)
    PROVE  Typed'
<1>1. actor[s] \in ActorRecord /\ s \in Actors /\ actor[s].pc = "approve"
  BY ActorFacts, SlotsAct DEF AutoApprove, At
<1>2. UNCHANGED <<runs, history, jobs, allowed, ops>>
  BY DEF AutoApprove
<1>3. CASE Approve(s)
  BY <1>1, <1>2, <1>3, ApproveTyped DEF OfWrite
<1>4. ASSUME NEW waits \in Waiting \cup {"none"}, Return(s, waits), UNCHANGED faults,
             NEW rows, Close(rows, "EXPIRED")
      PROVE  Typed'
  <2> DEFINE x == [actor[s] EXCEPT !.pc = "resolve", !.waits = waits, !.of = 0, !.choice = "none"]
  <2>1. x \in ActorRecord /\ \A rs : Holds(s, x, rs)
    BY <1>1, ReturnTyped
  <2>2. Become(s, x) /\ faults' \in 0 .. MaxFaults /\ "EXPIRED" \in Closed
    BY <1>4 DEF Return, Typed, Closed
  <2> HIDE DEF x
  <2> QED BY <1>1, <1>2, <1>4, <2>1, <2>2, ClosingStep
<1>5. CASE Return(s, "AWAITING_APPROVAL") /\ UNCHANGED <<invocations, faults>>
  BY <1>4, <1>5, NoClose DEF Waiting
<1>6. CASE /\ Return(s, actor[s].waits) /\ UNCHANGED faults
           /\ Close({actor[s].of} \cap RowsAt(actor[s].run, {"AWAITING_APPROVAL"}), "EXPIRED")
  BY <1>1, <1>4, <1>6 DEF ActorRecord
<1> QED BY <1>3, <1>5, <1>6 DEF AutoApprove

LEMMA AppendResultsTyped ==
    ASSUME Typed, NEW s \in Slots, AppendResults(s)
    PROVE  Typed'
<1> DEFINE step == [Message("step", actor[s].run, actor[s].step, actor[s].calls, <<>>)
                      EXCEPT !.linked = TRUE]
<1>1. actor[s] \in ActorRecord /\ Holds(s, actor[s], invocations) /\ s \in Actors
  BY ActorFacts, SlotsAct
<1>2. actor[s].pc = "resolve" /\ actor[s].run \in Runs
  BY <1>1 DEF AppendResults, AllResolved, At, Holds
<1>3. actor[s].step \in Nat /\ actor[s].calls \in Seq(CallKinds) /\ <<>> \in Seq(Told)
  BY <1>1, EmptySeq DEF ActorRecord
<1>4. Message("step", actor[s].run, actor[s].step, actor[s].calls, <<>>) \in MessageRecord
  BY <1>2, <1>3, MessageTyped
<1>5. step \in MessageRecord
  BY <1>4 DEF MessageRecord
<1>6. OutcomesOf(step, "not done") \in Seq(Told)
  BY <1>5, OutcomesTyped
<1>7. Message("tool", actor[s].run, actor[s].step, actor[s].calls, OutcomesOf(step, "not done"))
        \in MessageRecord
  BY <1>2, <1>3, <1>6, MessageTyped
<1>8. history' = Append(history, Message("tool", actor[s].run, actor[s].step, actor[s].calls,
                                         OutcomesOf(step, "not done")))
  BY DEF AppendResults
<1>9. history' \in Seq(MessageRecord)
  BY <1>7, <1>8, Appended DEF Typed
<1>10. /\ runs' \in [Runs -> RunRecord] /\ UNCHANGED <<invocations, jobs, outside>>
       /\ Become(s, Fresh(actor[s], "guard"))
  BY DEF AppendResults, GoOn, Typed
<1> QED BY <1>1, <1>2, <1>9, <1>10, LoopGoesOn, QuietStep

\* A message is linked, and nothing else.
LEMMA LinkTyped ==
    ASSUME Typed, NEW links,
           history' = [h \in DOMAIN history |->
                         IF h \in links THEN [history[h] EXCEPT !.linked = TRUE] ELSE history[h]]
    PROVE  history' \in Seq(MessageRecord)
<1>1. \A h \in DOMAIN history : history[h] \in MessageRecord
  BY Lengths
<1>2. \A h \in DOMAIN history : history'[h] \in MessageRecord
  BY <1>1 DEF MessageRecord
<1>3. history' = [h \in DOMAIN history |-> history'[h]]
  OBVIOUS
<1>4. history \in Seq(MessageRecord)
  BY DEF Typed
<1> QED BY <1>2, <1>3, <1>4, SeqChanged

LEMMA PauseTyped ==
    ASSUME Typed, NEW s \in Slots, Pause(s)
    PROVE  Typed'
<1> DEFINE r == actor[s].run
           links == {h \in DOMAIN history : history[h].kind = "step" /\ history[h].run = r
                                              /\ history[h].step = actor[s].step}
<1>1. actor[s] \in ActorRecord /\ Holds(s, actor[s], invocations) /\ s \in Actors
  BY ActorFacts, SlotsAct
<1>2. actor[s].pc = "resolve" /\ actor[s].waits \in Waiting
  BY <1>1 DEF Pause, AllResolved, At, ActorRecord
<1>3. history' = [h \in DOMAIN history |->
                     IF h \in links THEN [history[h] EXCEPT !.linked = TRUE] ELSE history[h]]
  BY DEF Pause
<1>4. history' \in Seq(MessageRecord)
  BY <1>3, LinkTyped
<1>5. UNCHANGED <<invocations, jobs, outside>>
  BY DEF Pause
<1>6. CASE SetStatus(r, actor[s].waits) /\ GoOn(s, "count")
  <2>1. runs' \in [Runs -> RunRecord]
    BY <1>2, <1>6, StatusTyped DEF Statuses, Active
  <2> QED BY <1>1, <1>2, <1>4, <1>5, <1>6, <2>1, LoopGoesOn, QuietStep DEF GoOn
<1>7. CASE UNCHANGED runs /\ Become(s, Finalizing(actor[s], "CANCELLED", {"RUNNING"}, "not done"))
  <2>1. runs' \in [Runs -> RunRecord]
    BY <1>7 DEF Typed
  <2> QED BY <1>1, <1>2, <1>4, <1>5, <1>7, <2>1, LoopEnds, QuietStep
<1>8. CASE UNCHANGED runs /\ Done(s)
  <2>1. runs' \in [Runs -> RunRecord]
    BY <1>8 DEF Typed
  <2> QED BY <1>1, <1>4, <1>5, <1>8, <2>1, IdleTyped, QuietStep DEF Done
<1> QED BY <1>6, <1>7, <1>8 DEF Pause

LEMMA FailUnexpectedlyTyped ==
    ASSUME Typed, NEW s \in Slots, FailUnexpectedly(s)
    PROVE  Typed'
<1>1. actor[s].pc = "unexpected" /\ s \in Actors
  BY SlotsAct DEF FailUnexpectedly, At
<1>2. LET x == Finalizing(actor[s], "FINISHED", {"RUNNING"}, "unknown")
      IN  x \in ActorRecord /\ (\A rows : Holds(s, x, rows)) /\ Become(s, x)
  BY <1>1, LoopEnds DEF FailUnexpectedly
<1>3. faults' \in 0 .. MaxFaults /\ UNCHANGED <<runs, history, jobs, allowed, ops>>
  BY DEF FailUnexpectedly, Typed, outside
<1>4. Close(RowsAt(actor[s].run, {"EXECUTING"}), "OUTCOME_UNKNOWN") /\ "OUTCOME_UNKNOWN" \in Closed
  BY DEF FailUnexpectedly, Closed
<1> QED BY <1>1, <1>2, <1>3, <1>4, ClosingStep

LEMMA LoopStepTyped ==
    ASSUME Typed, NEW s \in Slots, LoopStep(s)
    PROVE  Typed'
BY ClaimTyped, AnswerResumeTyped, GuardTyped, ModelFailsTyped, ModelSpeaksTyped, ModelCallsTyped,
   BoundaryTyped, AnswerCallTyped, ProposeTyped, RequestInputTyped, AutoApproveTyped,
   AppendResultsTyped, PauseTyped, FailUnexpectedlyTyped DEF LoopStep
-----------------------------------------------------------------------------
(***************************************************************************)
(* What every actor shares.                                                 *)
(***************************************************************************)
LEMMA ActorGoesOn ==
    ASSUME Typed, NEW a \in Actors, actor[a].pc # "idle",
           NEW pc \in {"guard", "unexpected", "count", "enqueue"},
           pc \in {"guard", "unexpected"} => actor[a].op = "drive"
    PROVE  LET x == Fresh(actor[a], pc)
           IN  x \in ActorRecord /\ \A rows : Holds(a, x, rows)
<1>1. actor[a] \in ActorRecord /\ Holds(a, actor[a], invocations)
  BY ActorFacts
<1>2. /\ actor[a].run \in Runs /\ (actor[a].op = "drive" => a \in Slots)
      /\ (a \in Slots => actor[a].op = "drive")
  BY <1>1 DEF Holds
<1> QED BY <1>1, <1>2, FreshTyped

LEMMA CloseUnrecordedTyped ==
    ASSUME Typed, NEW a \in Actors, CloseUnrecorded(a)
    PROVE  Typed'
<1>1. actor[a].pc = "unrecorded"
  BY DEF CloseUnrecorded, At
<1>2. faults' \in 0 .. MaxFaults /\ UNCHANGED <<runs, history, jobs, allowed, ops>>
  BY DEF CloseUnrecorded, Typed, outside
<1>3. PICK rows : Close(rows, "FAILED") /\ "FAILED" \in Closed \cup {"EXECUTING"}
  BY DEF CloseUnrecorded, Closed
<1>4. CASE actor[a].op = "drive" /\ GoOn(a, "unexpected")
  <2>1. LET x == Fresh(actor[a], "unexpected")
        IN  x \in ActorRecord /\ (\A rs : Holds(a, x, rs)) /\ Become(a, x)
    BY <1>1, <1>4, ActorGoesOn DEF GoOn
  <2> QED BY <1>2, <1>3, <2>1, ClosingStep
<1>5. CASE Done(a)
  BY <1>2, <1>3, <1>5, IdleTyped, ClosingStep DEF Done
<1> QED BY <1>4, <1>5 DEF CloseUnrecorded

LEMMA ExecuteTyped ==
    ASSUME Typed, NEW a \in Actors, Execute(a)
    PROVE  Typed'
<1> DEFINE i == actor[a].of
<1>1. actor[a] \in ActorRecord /\ Holds(a, actor[a], invocations) /\ actor[a].pc = "execute"
  BY ActorFacts DEF Execute, At
<1>2. i \in DOMAIN invocations
  BY <1>1 DEF Holds, OfRow, OfWrite
<1>3. \A j \in DOMAIN invocations : invocations[j] \in RowRecord
  BY Lengths
<1>4. /\ runs' = runs /\ history' = history /\ jobs' = jobs
      /\ allowed' = allowed /\ ops' = ops /\ faults' = faults
  BY DEF Execute, outside
<1>5. /\ runs' \in [Runs -> RunRecord] /\ history' \in Seq(MessageRecord)
      /\ jobs' \in [Runs -> Nat] /\ allowed' \in BOOLEAN
      /\ ops' \in 0 .. MaxEvents /\ faults' \in 0 .. MaxFaults
  BY <1>4 DEF Typed
<1>6. ASSUME NEW choice \in Recorded, Grow(invocations, invocations'),
             invocations' \in Seq(RowRecord), KindsAgree(invocations'),
             Become(a, [actor[a] EXCEPT !.pc = "record", !.choice = choice])
      PROVE  Typed'
  <2> DEFINE x == [actor[a] EXCEPT !.pc = "record", !.choice = choice]
  <2>1. x \in ActorRecord
    BY <1>1 DEF ActorRecord, Pcs, OfRow, OfWrite
  <2>2. /\ x.op = actor[a].op /\ x.pc = "record" /\ x.run = actor[a].run /\ x.of = actor[a].of
        /\ x.calls = actor[a].calls /\ x.resolved = actor[a].resolved /\ x.choice = choice
    BY <1>1 DEF ActorRecord
  <2>3. Become(a, x)
    BY <1>6
  <2> HIDE DEF x
  <2>4. Holds(a, x, invocations)
    BY <1>1, <2>2 DEF Holds, DriveOnly, Ending, OfRow, OfWrite
  <2>5. Holds(a, x, invocations')
    BY <1>6, <2>4, GrowKeepsHolds
  <2> QED BY <1>5, <1>6, <2>1, <2>3, <2>5, StepTyped
<1>7. CASE /\ invocations' = [invocations EXCEPT ![i].done = @ + 1]
           /\ Become(a, [actor[a] EXCEPT !.pc = "record", !.choice = "SUCCEEDED"])
  <2>1. invocations[i].done + 1 \in Nat
    BY <1>2, <1>3 DEF RowRecord
  <2>2. [invocations[i] EXCEPT !.done = @ + 1] \in RowRecord
    BY <1>2, <1>3, <2>1 DEF RowRecord
  <2>3. \A j \in DOMAIN invocations : invocations'[j] \in RowRecord
    BY <1>3, <1>7, <2>2
  <2>4. invocations' = [j \in DOMAIN invocations |-> invocations'[j]]
    BY <1>7
  <2>5. invocations' \in Seq(RowRecord) /\ DOMAIN invocations' = DOMAIN invocations
    BY <2>3, <2>4, SeqChanged DEF Typed
  <2>6. \A j \in DOMAIN invocations :
            /\ invocations'[j].run = invocations[j].run /\ invocations'[j].step = invocations[j].step
            /\ invocations'[j].call = invocations[j].call /\ invocations'[j].kind = invocations[j].kind
            /\ invocations'[j].status = invocations[j].status
    BY <1>3, <1>7 DEF RowRecord
  <2>7. Grow(invocations, invocations') /\ KindsAgree(invocations')
    BY <2>5, <2>6 DEF Grow, KindsAgree, Typed
  <2> QED BY <1>6, <1>7, <2>5, <2>7 DEF Recorded
<1>8. CASE /\ UNCHANGED invocations
           /\ \E refused \in {"FAILED", "EXPIRED"} :
                Become(a, [actor[a] EXCEPT !.pc = "record", !.choice = refused])
  <2>1. Grow(invocations, invocations') /\ KindsAgree(invocations') /\ invocations' \in Seq(RowRecord)
    BY <1>8, SameGrow DEF Typed
  <2>2. PICK refused \in {"FAILED", "EXPIRED"} :
            Become(a, [actor[a] EXCEPT !.pc = "record", !.choice = refused])
    BY <1>8
  <2>3. refused \in Recorded
    BY DEF Recorded
  <2> QED BY <1>6, <2>1, <2>2, <2>3
<1> QED BY <1>7, <1>8 DEF Execute

LEMMA RecordTyped ==
    ASSUME Typed, NEW a \in Actors, Record(a)
    PROVE  Typed'
<1>1. actor[a] \in ActorRecord /\ Holds(a, actor[a], invocations) /\ actor[a].pc = "record"
  BY ActorFacts DEF Record, At
<1>2. actor[a].choice \in Closed \cup {"EXECUTING"}
  BY <1>1 DEF Holds, Recorded, Closed
<1>3. PICK rows : Close(rows, actor[a].choice)
  BY DEF Record
<1>4. faults' \in 0 .. MaxFaults /\ UNCHANGED <<runs, history, jobs, allowed, ops>>
  BY DEF Record, Typed, outside
<1>5. CASE actor[a].op = "drive" /\ Return(a, actor[a].waits)
  <2>1. a \in Slots /\ actor[a].waits \in Waiting \cup {"none"}
    BY <1>1, <1>5 DEF Holds, ActorRecord
  <2>2. LET x == [actor[a] EXCEPT !.pc = "resolve", !.waits = actor[a].waits, !.of = 0, !.choice = "none"]
        IN  x \in ActorRecord /\ (\A rs : Holds(a, x, rs)) /\ Become(a, x)
    BY <1>1, <1>5, <2>1, ReturnTyped DEF Return
  <2> QED BY <1>2, <1>3, <1>4, <2>2, ClosingStep
<1>6. CASE GoOn(a, "count")
  <2>1. LET x == Fresh(actor[a], "count")
        IN  x \in ActorRecord /\ (\A rs : Holds(a, x, rs)) /\ Become(a, x)
    BY <1>1, <1>6, ActorGoesOn DEF GoOn
  <2> QED BY <1>2, <1>3, <1>4, <2>1, ClosingStep
<1> QED BY <1>5, <1>6 DEF Record

LEMMA CountUndecidedTyped ==
    ASSUME Typed, NEW a \in Actors, CountUndecided(a)
    PROVE  Typed'
<1>1. actor[a] \in ActorRecord /\ Holds(a, actor[a], invocations) /\ actor[a].pc = "count"
  BY ActorFacts DEF CountUndecided, At
<1>2. UNCHANGED <<invocations, jobs, outside>> /\ runs' = runs /\ history' = history
  BY DEF CountUndecided, tables
<1>3. runs' \in [Runs -> RunRecord] /\ history' \in Seq(MessageRecord)
  BY <1>2 DEF Typed
<1>4. CASE GoTo(a, "look")
  <2> DEFINE x == [actor[a] EXCEPT !.pc = "look"]
  <2>1. x \in ActorRecord
    BY <1>1 DEF ActorRecord, Pcs
  <2>2. /\ x.op = actor[a].op /\ x.pc = "look" /\ x.run = actor[a].run
        /\ x.calls = actor[a].calls /\ x.resolved = actor[a].resolved
    BY <1>1 DEF ActorRecord
  <2>3. Become(a, x)
    BY <1>4, GoToBecomes
  <2> HIDE DEF x
  <2>4. Holds(a, x, invocations)
    BY <1>1, <2>2 DEF Holds, DriveOnly, Ending, OfRow, OfWrite
  <2> QED BY <1>2, <1>3, <2>1, <2>3, <2>4, QuietStep
<1>5. CASE Done(a)
  BY <1>2, <1>3, <1>5, IdleTyped, QuietStep DEF Done
<1> QED BY <1>4, <1>5 DEF CountUndecided

LEMMA LookAtRunTyped ==
    ASSUME Typed, NEW a \in Actors, LookAtRun(a)
    PROVE  Typed'
<1>1. actor[a] \in ActorRecord /\ Holds(a, actor[a], invocations) /\ actor[a].pc = "look"
  BY ActorFacts DEF LookAtRun, At
<1>2. UNCHANGED <<invocations, jobs, outside>> /\ runs' = runs /\ history' = history
  BY DEF LookAtRun, tables
<1>3. runs' \in [Runs -> RunRecord] /\ history' \in Seq(MessageRecord)
  BY <1>2 DEF Typed
<1>4. ASSUME NEW status \in Waiting, Become(a, [actor[a] EXCEPT !.pc = "requeue", !.seen = status])
      PROVE  Typed'
  <2> DEFINE x == [actor[a] EXCEPT !.pc = "requeue", !.seen = status]
  <2>1. x \in ActorRecord
    BY <1>1 DEF ActorRecord, Pcs
  <2>2. /\ x.op = actor[a].op /\ x.pc = "requeue" /\ x.run = actor[a].run
        /\ x.calls = actor[a].calls /\ x.resolved = actor[a].resolved /\ x.seen = status
    BY <1>1 DEF ActorRecord
  <2>3. Become(a, x)
    BY <1>4
  <2> HIDE DEF x
  <2>4. Holds(a, x, invocations)
    BY <1>1, <2>2 DEF Holds, DriveOnly, Ending, OfRow, OfWrite
  <2> QED BY <1>2, <1>3, <2>1, <2>3, <2>4, QuietStep
<1>5. CASE Done(a)
  BY <1>2, <1>3, <1>5, IdleTyped, QuietStep DEF Done
<1> QED BY <1>4, <1>5 DEF LookAtRun

LEMMA RequeueTyped ==
    ASSUME Typed, NEW a \in Actors, Requeue(a)
    PROVE  Typed'
<1>1. actor[a].pc = "requeue" /\ UNCHANGED <<invocations, jobs, outside>> /\ history' = history
  BY DEF Requeue, At
<1>2. history' \in Seq(MessageRecord)
  BY <1>1 DEF Typed
<1>3. CASE SetStatus(actor[a].run, "QUEUED") /\ GoOn(a, "enqueue")
  <2>1. runs' \in [Runs -> RunRecord]
    BY <1>3, StatusTyped DEF Statuses, Active
  <2>2. LET x == Fresh(actor[a], "enqueue")
        IN  x \in ActorRecord /\ Holds(a, x, invocations) /\ Become(a, x)
    BY <1>1, <1>3, ActorGoesOn DEF GoOn
  <2> QED BY <1>1, <1>2, <2>1, <2>2, QuietStep
<1>4. CASE UNCHANGED runs /\ Done(a)
  <2>1. runs' \in [Runs -> RunRecord]
    BY <1>4 DEF Typed
  <2> QED BY <1>1, <1>2, <1>4, <2>1, IdleTyped, QuietStep DEF Done
<1> QED BY <1>3, <1>4 DEF Requeue

LEMMA EnqueueTyped ==
    ASSUME Typed, NEW a \in Actors, Enqueue(a)
    PROVE  Typed'
<1>1. /\ runs' = runs /\ history' = history /\ invocations' = invocations
      /\ allowed' = allowed /\ ops' = ops
  BY DEF Enqueue, tables
<1>2. /\ runs' \in [Runs -> RunRecord] /\ history' \in Seq(MessageRecord)
      /\ invocations' \in Seq(RowRecord) /\ KindsAgree(invocations')
      /\ Grow(invocations, invocations') /\ allowed' \in BOOLEAN /\ ops' \in 0 .. MaxEvents
  BY <1>1, SameGrow DEF Typed
<1>3. jobs' \in [Runs -> Nat]
  BY DEF Enqueue, Typed
<1>4. faults' \in 0 .. MaxFaults
  BY FaultTyped DEF Enqueue, Typed
<1>5. PICK x : x = Idle
  OBVIOUS
<1>6. x \in ActorRecord /\ Become(a, x) /\ Holds(a, x, invocations')
  BY <1>5, IdleTyped DEF Enqueue, Done
<1> QED BY <1>2, <1>3, <1>4, <1>6, StepTyped

LEMMA FinalizeTyped ==
    ASSUME Typed, NEW a \in Actors, Finalize(a)
    PROVE  Typed'
<1>1. actor[a] \in ActorRecord /\ Holds(a, actor[a], invocations) /\ actor[a].pc = "finalize"
  BY ActorFacts DEF Finalize, At
<1>2. UNCHANGED <<invocations, jobs, outside>> /\ history' = history
  BY DEF Finalize
<1>3. history' \in Seq(MessageRecord)
  BY <1>2 DEF Typed
<1>4. CASE /\ SetStatus(actor[a].run, actor[a].to)
           /\ Become(a, [Fresh(actor[a], "close") EXCEPT !.fallback = actor[a].fallback])
  <2> DEFINE x == [Fresh(actor[a], "close") EXCEPT !.fallback = actor[a].fallback]
  <2>1. Idle \in ActorRecord /\ Idle.calls = <<>> /\ Idle.resolved = 0
    BY IdleTyped DEF Idle
  <2>2. /\ actor[a].op \in Ops /\ actor[a].run \in Nat /\ actor[a].run \in Runs
        /\ actor[a].fallback \in {"none", "not done", "unknown"} /\ actor[a].fallback # "none"
    BY <1>1 DEF Holds, ActorRecord, Ending
  <2>3. x \in ActorRecord
    BY <2>1, <2>2 DEF Fresh, ActorRecord, Pcs, Ending
  <2>4. /\ x.op = actor[a].op /\ x.pc = "close" /\ x.run = actor[a].run
        /\ x.calls = <<>> /\ x.resolved = 0 /\ x.fallback # "none"
    BY <2>1, <2>2 DEF Fresh, ActorRecord
  <2>5. Become(a, x)
    BY <1>4
  <2> HIDE DEF x
  <2>6. x.resolved <= Len(x.calls)
    BY <2>4, NothingResolved
  <2>7. Holds(a, x, invocations)
    BY <1>1, <2>2, <2>4, <2>6 DEF Holds, DriveOnly, OfRow, OfWrite
  <2>8. LegalEnd(actor[a].to, actor[a].from)
    BY <1>1 DEF Holds
  <2>9. actor[a].to \in Statuses
    BY <2>8 DEF LegalEnd, Statuses, Terminal
  <2>10. runs' \in [Runs -> RunRecord]
    BY <1>4, <2>9, StatusTyped
  <2> QED BY <1>2, <1>3, <2>3, <2>5, <2>7, <2>10, QuietStep
<1>5. CASE UNCHANGED runs /\ Done(a)
  <2>1. runs' \in [Runs -> RunRecord]
    BY <1>5 DEF Typed
  <2> QED BY <1>2, <1>3, <1>5, <2>1, IdleTyped, QuietStep DEF Done
<1> QED BY <1>4, <1>5 DEF Finalize

\* The rest of a finalize.
LEMMA TellNext ==
    ASSUME Typed, NEW a \in Actors, actor[a].pc = "close"
    PROVE  LET x == [actor[a] EXCEPT !.pc = "tell"]
           IN  x \in ActorRecord /\ \A rows : Holds(a, x, rows)
<1> DEFINE x == [actor[a] EXCEPT !.pc = "tell"]
<1>1. actor[a] \in ActorRecord /\ Holds(a, actor[a], invocations)
  BY ActorFacts
<1>2. x \in ActorRecord
  BY <1>1 DEF ActorRecord, Pcs, Ending
<1>3. /\ x.op = actor[a].op /\ x.pc = "tell" /\ x.run = actor[a].run
      /\ x.calls = actor[a].calls /\ x.resolved = actor[a].resolved /\ x.fallback = actor[a].fallback
  BY <1>1 DEF ActorRecord
<1> HIDE DEF x
<1>4. ASSUME NEW rows PROVE Holds(a, x, rows)
  BY <1>1, <1>3 DEF Holds, DriveOnly, Ending, OfRow, OfWrite
<1> QED BY <1>2, <1>4 DEF x

LEMMA CloseCallsTyped ==
    ASSUME Typed, NEW a \in Actors, CloseCalls(a)
    PROVE  Typed'
<1>1. LET x == [actor[a] EXCEPT !.pc = "tell"]
      IN  x \in ActorRecord /\ (\A rows : Holds(a, x, rows)) /\ Become(a, x)
  BY TellNext, GoToBecomes DEF CloseCalls, At
<1>2. faults' \in 0 .. MaxFaults /\ UNCHANGED <<runs, history, jobs, allowed, ops>>
  BY DEF CloseCalls, Typed, outside
<1>3. Close(RowsAt(actor[a].run, Waiting), "CANCELLED") /\ "CANCELLED" \in Closed
  BY DEF CloseCalls, Closed
<1> QED BY <1>1, <1>2, <1>3, ClosingStep

LEMMA TellTyped ==
    ASSUME Typed, NEW a \in Actors, Tell(a)
    PROVE  Typed'
<1>1. actor[a] \in ActorRecord /\ Holds(a, actor[a], invocations) /\ actor[a].pc = "tell"
  BY ActorFacts DEF Tell, At
<1>2. actor[a].fallback \in {"not done", "unknown"}
  BY <1>1 DEF Holds, ActorRecord, Ending
<1>3. history' \in Seq(MessageRecord)
  BY <1>2, AnswerTyped DEF Tell
<1>4. runs' \in [Runs -> RunRecord] /\ UNCHANGED <<invocations, jobs, outside>> /\ Become(a, Idle)
  BY DEF Tell, Typed, Done
<1> QED BY <1>3, <1>4, IdleTyped, QuietStep

LEMMA ThrowTyped ==
    ASSUME Typed, NEW a \in Actors, Throw(a)
    PROVE  Typed'
<1>1. faults' \in 0 .. MaxFaults /\ actor[a].pc # "idle"
  BY FaultTyped DEF Throw
<1>2. /\ runs' = runs /\ history' = history /\ jobs' = jobs /\ allowed' = allowed
      /\ ops' = ops
  BY DEF Throw
<1>3. /\ runs' \in [Runs -> RunRecord] /\ history' \in Seq(MessageRecord)
      /\ jobs' \in [Runs -> Nat] /\ allowed' \in BOOLEAN /\ ops' \in 0 .. MaxEvents
  BY <1>2 DEF Typed
<1>4. ASSUME NEW x, x \in ActorRecord, \A rows : Holds(a, x, rows), Become(a, x),
             \/ UNCHANGED invocations
             \/ \E rows : \E status \in Closed : Close(rows, status)
      PROVE  Typed'
  <2>1. CASE UNCHANGED invocations
    <3>1. /\ invocations' \in Seq(RowRecord) /\ KindsAgree(invocations')
          /\ Grow(invocations, invocations')
      BY <2>1, SameGrow DEF Typed
    <3> QED BY <1>1, <1>3, <1>4, <3>1, StepTyped
  <2>2. CASE \E rows : \E status \in Closed : Close(rows, status)
    <3>1. PICK rows : \E status \in Closed : Close(rows, status)
      BY <2>2
    <3>2. PICK status \in Closed : Close(rows, status)
      BY <3>1
    <3> QED BY <1>1, <1>2, <1>4, <3>2, ClosingStep
  <2> QED BY <1>4, <2>1, <2>2
<1>5. \E x \in ActorRecord : (\A rows : Holds(a, x, rows)) /\ Become(a, x)
  <2>1. CASE At(a, "close") /\ GoTo(a, "tell")
    BY <2>1, TellNext, GoToBecomes DEF At
  <2>2. CASE Done(a)
    BY <2>2, IdleTyped DEF Done
  <2>3. CASE actor[a].op = "drive" /\ GoOn(a, "unexpected")
    BY <1>1, <2>3, ActorGoesOn DEF GoOn
  <2>4. CASE RecordFails(a)
    <3>1. CASE actor[a].op = "drive" /\ Return(a, "AWAITING_APPROVAL")
      <4>1. actor[a] \in ActorRecord /\ Holds(a, actor[a], invocations) /\ a \in Slots
        BY <1>1, <3>1, ActorFacts DEF Holds
      <4>2. "AWAITING_APPROVAL" \in Waiting \cup {"none"}
        BY DEF Waiting
      <4> QED BY <1>1, <3>1, <4>1, <4>2, ReturnTyped DEF Return
    <3>2. CASE GoOn(a, "count")
      BY <1>1, <3>2, ActorGoesOn DEF GoOn
    <3> QED BY <2>4, <3>1, <3>2 DEF RecordFails
  <2>5. CASE MarkFails(a)
    <3>1. actor[a].pc = "unexpected" /\ a \in Slots
      BY <2>5, ActorFacts DEF MarkFails, At, Holds, DriveOnly
    <3> QED BY <2>5, <3>1, LoopEnds DEF MarkFails
  <2> QED BY <2>1, <2>2, <2>3, <2>4, <2>5 DEF Throw, CloseFails, Escapes
<1>6. \/ UNCHANGED invocations
      \/ \E rows : \E status \in Closed : Close(rows, status)
  BY DEF Throw, RecordFails, MarkFails, CloseFails, Closed
<1> QED BY <1>4, <1>5, <1>6

LEMMA SharedStepTyped ==
    ASSUME Typed, NEW a \in Actors, SharedStep(a)
    PROVE  Typed'
BY CloseUnrecordedTyped, ExecuteTyped, RecordTyped, CountUndecidedTyped, LookAtRunTyped,
   RequeueTyped, EnqueueTyped, FinalizeTyped, CloseCallsTyped, TellTyped, ThrowTyped DEF SharedStep
-----------------------------------------------------------------------------
(***************************************************************************)
(* Requests.                                                                *)
(***************************************************************************)
LEMMA BeginTyped ==
    ASSUME Typed, NEW c \in Clients, NEW x \in ActorRecord, Begin(c, x),
           Holds(c, x, invocations), UNCHANGED invocations,
           runs' \in [Runs -> RunRecord], history' \in Seq(MessageRecord)
    PROVE  Typed'
<1>1. ops \in Nat /\ faults \in Nat /\ ops < MaxEvents
  BY AssistantAssumption DEF Typed, Begin
<1>2. ops' \in 0 .. MaxEvents
  BY <1>1, AssistantAssumption DEF Begin
<1>3. /\ invocations' = invocations /\ jobs' = jobs /\ allowed' = allowed /\ faults' = faults
      /\ Become(c, x)
  BY DEF Begin
<1>4. /\ invocations' \in Seq(RowRecord) /\ KindsAgree(invocations') /\ Holds(c, x, invocations')
      /\ Grow(invocations, invocations') /\ jobs' \in [Runs -> Nat]
      /\ allowed' \in BOOLEAN /\ faults' \in 0 .. MaxFaults
  BY <1>3, SameGrow DEF Typed
<1> QED BY <1>2, <1>3, <1>4, SlotsAct, StepTyped

\* The first run that is not written yet is one.
LEMMA NextRun ==
    ASSUME Unborn # {}
    PROVE  Next1 \in Unborn /\ Next1 \in Runs
<1>1. Unborn \subseteq Nat
  BY RunsAreNumbers DEF Unborn
<1>2. PICK least \in Unborn : \A m \in Nat : <<m, least>> \in OpToRel(<, Nat) => m \notin Unborn
  <2>1. IsWellFoundedOn(OpToRel(<, Nat), Nat)
    BY NatLessThanWellFounded
  <2> QED BY <1>1, <2>1, WFMin
<1>3. \A other \in Unborn : least <= other
  <2> SUFFICES ASSUME NEW other \in Unborn, ~ (least <= other) PROVE FALSE
    OBVIOUS
  <2>1. least \in Nat /\ other \in Nat /\ other < least
    BY <1>1
  <2>2. <<other, least>> \in OpToRel(<, Nat)
    BY <2>1 DEF OpToRel
  <2> QED BY <1>2, <2>1, <2>2
<1>4. \E r \in Unborn : \A other \in Unborn : r <= other
  BY <1>3
<1> QED BY <1>4 DEF Next1, Unborn

LEMMA RepairTyped ==
    ASSUME Typed
    PROVE  Repaired \in Seq(MessageRecord)
<1>1. CASE StepOpen
  <2> DEFINE open == history[Len(history)]
  <2>1. open \in MessageRecord
    BY <1>1, OpenStepTyped
  <2>2. OutcomesOf(open, "not done") \in Seq(Told)
    BY <2>1, OutcomesTyped
  <2>3. Repaired = Append(history, Message("tool", open.run, open.step, open.calls,
                                           OutcomesOf(open, "not done")))
    BY <1>1 DEF Repaired
  <2> HIDE DEF open
  <2>4. Message("tool", open.run, open.step, open.calls, OutcomesOf(open, "not done")) \in MessageRecord
    BY <2>1, <2>2, MessageTyped DEF MessageRecord
  <2> QED BY <2>3, <2>4, Appended DEF Typed
<1>2. CASE ~ StepOpen
  BY <1>2 DEF Repaired, Typed
<1> QED BY <1>1, <1>2

LEMMA SubmitTyped ==
    ASSUME Typed, NEW c \in Clients, Submit(c)
    PROVE  Typed'
<1> DEFINE r == Next1
           x == [Idle EXCEPT !.op = "submit", !.pc = "enqueue", !.run = r]
<1>1. r \in Runs /\ r \in Nat /\ c \notin Slots
  BY NextRun, RunsAreNumbers, ClientsAreNoSlots DEF Submit
<1>2. Idle \in ActorRecord /\ Idle.calls = <<>> /\ Idle.resolved = 0
  BY IdleTyped DEF Idle
<1>3. x \in ActorRecord
  BY <1>1, <1>2 DEF ActorRecord, Pcs, Ops
<1>4. /\ x.op = "submit" /\ x.pc = "enqueue" /\ x.run = r /\ x.calls = <<>> /\ x.resolved = 0
  BY <1>1, <1>2 DEF ActorRecord
<1>5. Begin(c, x)
  BY DEF Submit
<1>6. UNCHANGED invocations /\ history' = Append(Repaired, Message("user", r, 0, <<>>, <<>>))
  BY DEF Submit
<1>7. runs' \in [Runs -> RunRecord]
  BY StatusTyped DEF Submit, Statuses, Active
<1> HIDE DEF x
<1>8. x.resolved <= Len(x.calls)
  BY <1>4, NothingResolved
<1>9. Holds(c, x, invocations)
  BY <1>1, <1>4, <1>8 DEF Holds, DriveOnly, Ending, OfRow, OfWrite
<1>10. Message("user", r, 0, <<>>, <<>>) \in MessageRecord
  BY <1>1, MessageTyped, EmptySeq
<1>11. history' \in Seq(MessageRecord)
  BY <1>6, <1>10, RepairTyped, Appended
<1> QED BY <1>3, <1>5, <1>6, <1>7, <1>9, <1>11, BeginTyped

LEMMA CancelTyped ==
    ASSUME Typed, NEW c \in Clients, Cancel(c)
    PROVE  Typed'
<1> PICK r \in Runs :
        /\ Begin(c, Finalizing([Idle EXCEPT !.op = "cancel", !.run = r],
                               "CANCELLED", {"QUEUED"} \cup Waiting, "not done"))
        /\ runs' = [runs EXCEPT ![r].cancel = TRUE]
        /\ UNCHANGED <<history, invocations>>
  BY DEF Cancel
<1> DEFINE x == Finalizing([Idle EXCEPT !.op = "cancel", !.run = r],
                           "CANCELLED", {"QUEUED"} \cup Waiting, "not done")
<1>1. c \notin Slots
  BY ClientsAreNoSlots
<1>2. /\ "CANCELLED" \in Terminal /\ {"QUEUED"} \cup Waiting \in SUBSET Active
      /\ LegalEnd("CANCELLED", {"QUEUED"} \cup Waiting)
  BY DEF Terminal, Active, LegalEnd
<1> DEFINE y == [Idle EXCEPT !.op = "cancel", !.run = r]
<1>3. y \in ActorRecord /\ y.op = "cancel" /\ y.run = r
  BY WithRun DEF Ops
<1> HIDE DEF y
<1>4. Finalizing(y, "CANCELLED", {"QUEUED"} \cup Waiting, "not done") \in ActorRecord
      /\ Holds(c, Finalizing(y, "CANCELLED", {"QUEUED"} \cup Waiting, "not done"), invocations)
  BY <1>1, <1>2, <1>3, FinalizingTyped
<1>5. x \in ActorRecord /\ Holds(c, x, invocations)
  BY <1>4 DEF y
<1>6. runs' \in [Runs -> RunRecord] /\ history' \in Seq(MessageRecord)
  BY DEF Typed, RunRecord
<1> QED BY <1>5, <1>6, BeginTyped

\* A request that holds a row.
LEMMA HoldingTyped ==
    ASSUME Typed, NEW c \in Clients, NEW i \in DOMAIN invocations,
           NEW pc \in {"claim", "expire form", "close form"},
           pc = "claim" => invocations[i].kind = "write",
           pc # "claim" => invocations[i].kind = "form",
           NEW x \in ActorRecord, x.op # "drive", x.pc = pc, x.of = i,
           x.run = invocations[i].run, x.calls = <<>>, x.resolved = 0
    PROVE  Holds(c, x, invocations)
<1>1. c \notin Slots
  BY ClientsAreNoSlots
<1>2. invocations[i].run \in Runs
  BY RowFacts
<1>3. x.resolved <= Len(x.calls)
  BY NothingResolved
<1> QED BY <1>1, <1>2, <1>3 DEF Holds, DriveOnly, Ending, OfRow, OfWrite

LEMMA RequestTyped ==
    ASSUME NEW op \in Ops, NEW pc \in Pcs, NEW of \in Nat, NEW run \in Nat,
           NEW choice \in {"none", "approve", "reject"}
    PROVE  /\ [Idle EXCEPT !.op = op, !.pc = pc, !.of = of, !.run = run, !.choice = choice]
                \in ActorRecord
           /\ [Idle EXCEPT !.op = op, !.of = of, !.run = run, !.pc = pc] \in ActorRecord
BY IdleTyped DEF ActorRecord

LEMMA DecideTyped ==
    ASSUME Typed, NEW c \in Clients, Decide(c)
    PROVE  Typed'
<1> PICK i \in DOMAIN invocations, choice \in {"approve", "reject"} :
        /\ invocations[i].kind = "write"
        /\ Begin(c, [Idle EXCEPT !.op = "decide", !.pc = "claim", !.of = i,
                                 !.run = invocations[i].run, !.choice = choice])
        /\ UNCHANGED tables
  BY DEF Decide
<1> DEFINE x == [Idle EXCEPT !.op = "decide", !.pc = "claim", !.of = i,
                             !.run = invocations[i].run, !.choice = choice]
<1>1. runs' \in [Runs -> RunRecord] /\ history' \in Seq(MessageRecord) /\ UNCHANGED invocations
  BY DEF Typed, tables
<1>2. Idle \in ActorRecord /\ Idle.calls = <<>> /\ Idle.resolved = 0
  BY IdleTyped DEF Idle
<1>3. i \in Nat /\ invocations[i].run \in Nat
  BY RowFacts, RunsAreNumbers
<1>a. "decide" \in Ops /\ "claim" \in Pcs
  BY DEF Pcs, Ops, OfRow, OfWrite
<1>4. x \in ActorRecord
  BY <1>3, <1>a, RequestTyped
<1>5. /\ x.op # "drive" /\ x.pc = "claim" /\ x.of = i /\ x.run = invocations[i].run
      /\ x.calls = <<>> /\ x.resolved = 0 /\ Begin(c, x)
  BY <1>2 DEF ActorRecord
<1> HIDE DEF x
<1>6. Holds(c, x, invocations)
  BY <1>4, <1>5, HoldingTyped
<1> QED BY <1>1, <1>4, <1>5, <1>6, BeginTyped

LEMMA AnswerFormTyped ==
    ASSUME Typed, NEW c \in Clients, AnswerForm(c)
    PROVE  Typed'
<1> PICK i \in DOMAIN invocations :
        /\ invocations[i].status = "AWAITING_INPUT"
        /\ Begin(c, [Idle EXCEPT !.op = "answer", !.of = i, !.run = invocations[i].run,
                       !.pc = IF invocations[i].due THEN "expire form" ELSE "close form"])
        /\ UNCHANGED tables
  BY DEF AnswerForm
<1> DEFINE pc == IF invocations[i].due THEN "expire form" ELSE "close form"
           x == [Idle EXCEPT !.op = "answer", !.of = i, !.run = invocations[i].run, !.pc = pc]
<1>1. runs' \in [Runs -> RunRecord] /\ history' \in Seq(MessageRecord) /\ UNCHANGED invocations
  BY DEF Typed, tables
<1>2. invocations[i].kind = "form"
  BY DEF Typed, KindsAgree
<1>3. pc \in {"expire form", "close form"} /\ Begin(c, x)
  OBVIOUS
<1> HIDE DEF pc
<1>4. Idle \in ActorRecord /\ Idle.calls = <<>> /\ Idle.resolved = 0
  BY IdleTyped DEF Idle
<1>5. i \in Nat /\ invocations[i].run \in Nat
  BY RowFacts, RunsAreNumbers
<1>a. "answer" \in Ops /\ pc \in Pcs
  BY <1>3 DEF Pcs, Ops, OfRow
<1>6. x \in ActorRecord
  BY <1>5, <1>a, RequestTyped
<1>7. /\ x.op # "drive" /\ x.pc = pc /\ x.of = i /\ x.run = invocations[i].run
      /\ x.calls = <<>> /\ x.resolved = 0
  BY <1>4 DEF ActorRecord
<1> HIDE DEF x
<1>8. Holds(c, x, invocations)
  BY <1>2, <1>3, <1>6, <1>7, HoldingTyped
<1> QED BY <1>1, <1>3, <1>6, <1>8, BeginTyped

\* A row is closed, and its actor goes on with nothing but its run.
LEMMA ClientEnds ==
    ASSUME Typed, NEW c \in Clients, actor[c].pc # "idle", NEW waiting \in Waiting
    PROVE  LET x == Finalizing(actor[c], "EXPIRED", {waiting}, "not done")
           IN  x \in ActorRecord /\ \A rows : Holds(c, x, rows)
<1>1. actor[c] \in ActorRecord /\ Holds(c, actor[c], invocations) /\ c \in Actors /\ c \notin Slots
  BY ActorFacts, SlotsAct, ClientsAreNoSlots
<1>2. actor[c].run \in Runs /\ actor[c].op # "drive"
  BY <1>1 DEF Holds
<1>3. "EXPIRED" \in Terminal /\ {waiting} \in SUBSET Active /\ LegalEnd("EXPIRED", {waiting})
  BY DEF Terminal, Active, LegalEnd
<1> QED BY <1>1, <1>2, <1>3, FinalizingTyped

LEMMA ClaimDecisionTyped ==
    ASSUME Typed, NEW c \in Clients, ClaimDecision(c)
    PROVE  Typed'
<1>1. actor[c].pc = "claim" /\ c \in Actors
  BY SlotsAct DEF ClaimDecision, At
<1>2. UNCHANGED <<runs, history, jobs, allowed, ops>>
  BY DEF ClaimDecision
<1>3. ASSUME NEW x, x \in ActorRecord, \A rows : Holds(c, x, rows), Become(c, x), UNCHANGED faults,
             NEW rows, NEW st \in Closed \cup {"EXECUTING"}, Close(rows, st)
      PROVE  Typed'
  <2>1. faults' \in 0 .. MaxFaults
    BY <1>3 DEF Typed
  <2> QED BY <1>1, <1>2, <1>3, <2>1, ClosingStep
<1>4. CASE Approve(c)
  BY <1>1, <1>2, <1>4, ApproveTyped DEF OfWrite
<1>5. CASE Close({actor[c].of}, "REJECTED") /\ GoOn(c, "count") /\ UNCHANGED faults
  BY <1>1, <1>3, <1>5, ActorGoesOn DEF GoOn, Closed
<1>6. CASE Close({actor[c].of}, "EXPIRED") /\ Lapsed(c) /\ UNCHANGED faults
  BY <1>1, <1>3, <1>6, ClientEnds DEF Lapsed, Closed, Waiting
<1>7. CASE UNCHANGED <<invocations, faults>> /\ (GoOn(c, "count") \/ Lapsed(c) \/ Done(c))
  <2>1. Close({}, "EXPIRED") /\ "EXPIRED" \in Closed
    BY <1>7, NoClose DEF Closed
  <2>2. CASE GoOn(c, "count")
    BY <1>1, <1>3, <1>7, <2>1, <2>2, ActorGoesOn DEF GoOn
  <2>3. CASE Lapsed(c)
    BY <1>1, <1>3, <1>7, <2>1, <2>3, ClientEnds DEF Lapsed, Waiting
  <2>4. CASE Done(c)
    BY <1>3, <1>7, <2>1, <2>4, IdleTyped DEF Done
  <2> QED BY <1>7, <2>2, <2>3, <2>4
<1> QED BY <1>4, <1>5, <1>6, <1>7 DEF ClaimDecision

LEMMA ExpireFormTyped ==
    ASSUME Typed, NEW c \in Clients, ExpireForm(c)
    PROVE  Typed'
<1>1. actor[c].pc = "expire form" /\ c \in Actors
  BY SlotsAct DEF ExpireForm, At
<1>2. UNCHANGED <<runs, history, jobs, allowed, ops>> /\ faults' \in 0 .. MaxFaults
  BY DEF ExpireForm, outside, Typed
<1>3. PICK rows : Close(rows, "EXPIRED") /\ "EXPIRED" \in Closed
  BY DEF ExpireForm, Closed
<1>4. LET x == Finalizing(actor[c], "EXPIRED", {"AWAITING_INPUT"}, "not done")
      IN  x \in ActorRecord /\ (\A rs : Holds(c, x, rs)) /\ Become(c, x)
  BY <1>1, ClientEnds DEF ExpireForm, Waiting
<1> QED BY <1>1, <1>2, <1>3, <1>4, ClosingStep

LEMMA CloseFormTyped ==
    ASSUME Typed, NEW c \in Clients, CloseForm(c)
    PROVE  Typed'
<1>1. actor[c].pc = "close form" /\ c \in Actors
  BY SlotsAct DEF CloseForm, At
<1>2. UNCHANGED <<runs, history, jobs, allowed, ops>> /\ faults' \in 0 .. MaxFaults
  BY DEF CloseForm, outside, Typed
<1>3. CASE (\E outcome \in {"SUCCEEDED", "REJECTED"} : Close({actor[c].of}, outcome)) /\ GoOn(c, "count")
  <2>1. PICK outcome \in {"SUCCEEDED", "REJECTED"} : Close({actor[c].of}, outcome)
    BY <1>3
  <2>2. outcome \in Closed \cup {"EXECUTING"}
    BY DEF Closed
  <2>3. LET x == Fresh(actor[c], "count")
        IN  x \in ActorRecord /\ (\A rs : Holds(c, x, rs)) /\ Become(c, x)
    BY <1>1, <1>3, ActorGoesOn DEF GoOn
  <2> QED BY <1>1, <1>2, <2>1, <2>2, <2>3, ClosingStep
<1>4. CASE UNCHANGED invocations /\ Done(c)
  <2>1. Close({}, "EXPIRED") /\ "EXPIRED" \in Closed
    BY <1>4, NoClose DEF Closed
  <2> QED BY <1>1, <1>2, <1>4, <2>1, IdleTyped, ClosingStep DEF Done
<1> QED BY <1>3, <1>4 DEF CloseForm

LEMMA RequestStepTyped ==
    ASSUME Typed, NEW c \in Clients, RequestStep(c)
    PROVE  Typed'
BY SubmitTyped, CancelTyped, DecideTyped, ClaimDecisionTyped, AnswerFormTyped, ExpireFormTyped,
   CloseFormTyped DEF RequestStep
-----------------------------------------------------------------------------
(***************************************************************************)
(* The sweeper, time and faults.                                            *)
(***************************************************************************)
\* A pass of the sweeper that ends a run.
LEMMA SweepEnds ==
    ASSUME NEW r \in Runs, NEW to \in Terminal, NEW from \in SUBSET Active, LegalEnd(to, from),
           NEW fallback \in {"not done", "unknown"},
           Pass(Finalizing([Idle EXCEPT !.run = r], to, from, fallback))
    PROVE  \E x \in ActorRecord : Become(Sweeper, x) /\ \A rows : Holds(Sweeper, x, rows)
<1>1. Sweeper \notin Slots
  BY ClientsAreNoSlots
<1> DEFINE x == [Finalizing([Idle EXCEPT !.run = r], to, from, fallback) EXCEPT !.op = "sweep"]
<1>2. x \in ActorRecord /\ \A rows : Holds(Sweeper, x, rows)
  BY <1>1, FinalizingAnew
<1>3. Become(Sweeper, x)
  BY DEF Pass
<1> QED BY <1>2, <1>3

\* A pass that goes on with one of its runs.
LEMMA SweepGoesOn ==
    ASSUME NEW r \in Runs, NEW pc \in {"count", "enqueue"},
           Pass([Idle EXCEPT !.run = r, !.pc = pc])
    PROVE  \E x \in ActorRecord : Become(Sweeper, x) /\ \A rows : Holds(Sweeper, x, rows)
<1>1. Sweeper \notin Slots /\ r \in Nat
  BY ClientsAreNoSlots, RunsAreNumbers
<1> DEFINE x == [[Idle EXCEPT !.run = r, !.pc = pc] EXCEPT !.op = "sweep"]
<1>2. Idle \in ActorRecord /\ Idle.calls = <<>> /\ Idle.resolved = 0
  BY IdleTyped DEF Idle
<1>3. "sweep" \in Ops /\ pc \in Pcs
  BY DEF Pcs, Ops
<1>4. x \in ActorRecord
  BY <1>1, <1>2, <1>3 DEF ActorRecord
<1>5. x.op = "sweep" /\ x.pc = pc /\ x.run = r /\ x.calls = <<>> /\ x.resolved = 0
  BY <1>2 DEF ActorRecord
<1>6. Become(Sweeper, x)
  BY DEF Pass
<1> HIDE DEF x
<1>7. x.resolved <= Len(x.calls)
  BY <1>5, NothingResolved
<1>8. ASSUME NEW rows PROVE Holds(Sweeper, x, rows)
  BY <1>1, <1>5, <1>7 DEF Holds, DriveOnly, Ending, OfRow, OfWrite
<1> QED BY <1>4, <1>6, <1>8

LEMMA SweepStepTyped ==
    ASSUME Typed, SweepStep
    PROVE  Typed'
<1>1. ASSUME NEW x \in ActorRecord, Become(Sweeper, x), \A rows : Holds(Sweeper, x, rows),
             UNCHANGED <<runs, history, jobs, outside>>,
             NEW rows, NEW st \in Closed \cup {"EXECUTING"}, Close(rows, st)
      PROVE  Typed'
  <2>1. faults' \in 0 .. MaxFaults /\ UNCHANGED <<runs, history, jobs, allowed, ops>>
    BY <1>1 DEF outside, Typed
  <2> QED BY <1>1, <2>1, SlotsAct, ClosingStep
<1>2. ASSUME NEW x \in ActorRecord, Become(Sweeper, x), \A rows : Holds(Sweeper, x, rows),
             UNCHANGED <<tables, jobs, outside>>
      PROVE  Typed'
  <2>1. /\ runs' \in [Runs -> RunRecord] /\ history' \in Seq(MessageRecord)
        /\ UNCHANGED <<invocations, jobs, outside>>
    BY <1>2 DEF tables, Typed
  <2> QED BY <1>2, <2>1, SlotsAct, QuietStep
<1>3. CASE SweepExpired
  <2>1. PICK r \in Runs, waiting \in Waiting :
          /\ Close(DueRows(r, waiting), "EXPIRED")
          /\ Pass(Finalizing([Idle EXCEPT !.run = r], "EXPIRED", {waiting}, "not done"))
          /\ UNCHANGED <<runs, history, jobs>>
    BY <1>3 DEF SweepExpired
  <2>2. "EXPIRED" \in Terminal /\ {waiting} \in SUBSET Active /\ LegalEnd("EXPIRED", {waiting})
    BY DEF Terminal, Active, LegalEnd
  <2>3. PICK x \in ActorRecord : Become(Sweeper, x) /\ \A rows : Holds(Sweeper, x, rows)
    BY <2>1, <2>2, SweepEnds
  <2> QED BY <1>1, <2>1, <2>3 DEF Pass, Closed
<1>4. CASE SweepInterrupted
  <2>1. PICK i \in DOMAIN invocations :
          Close({i}, "OUTCOME_UNKNOWN") /\ UNCHANGED <<runs, history, jobs, actor, outside>>
    BY <1>4 DEF SweepInterrupted
  <2>2. /\ invocations' \in Seq(RowRecord) /\ KindsAgree(invocations')
        /\ Grow(invocations, invocations')
    BY <2>1, CloseTyped DEF Closed
  <2>3. \A a \in Actors : Holds(a, actor[a], invocations')
    BY <2>2, GrowKeepsHolds DEF Typed
  <2> QED BY <2>1, <2>2, <2>3 DEF Typed, outside
<1>5. CASE SweepAwaiting
  <2>1. PICK r \in Runs :
          \/ Pass([Idle EXCEPT !.run = r, !.pc = "count"])
          \/ Pass(Finalizing([Idle EXCEPT !.run = r], "CANCELLED", Waiting, "not done"))
    BY <1>5 DEF SweepAwaiting
  <2>2. "CANCELLED" \in Terminal /\ Waiting \in SUBSET Active /\ LegalEnd("CANCELLED", Waiting)
    BY DEF Terminal, Active, LegalEnd
  <2>3. PICK x \in ActorRecord : Become(Sweeper, x) /\ \A rows : Holds(Sweeper, x, rows)
    BY <2>1, <2>2, SweepEnds, SweepGoesOn
  <2>4. UNCHANGED <<tables, jobs, outside>>
    BY <1>5 DEF SweepAwaiting, Pass
  <2> QED BY <1>2, <2>3, <2>4
<1>6. CASE SweepQueued
  <2>1. PICK r \in Runs : Pass([Idle EXCEPT !.run = r, !.pc = "enqueue"])
    BY <1>6 DEF SweepQueued
  <2>2. PICK x \in ActorRecord : Become(Sweeper, x) /\ \A rows : Holds(Sweeper, x, rows)
    BY <2>1, SweepGoesOn
  <2>3. UNCHANGED <<tables, jobs, outside>>
    BY <1>6 DEF SweepQueued, Pass
  <2> QED BY <1>2, <2>2, <2>3
<1>7. CASE SweepStale
  <2>1. PICK r \in Runs :
          /\ Close(RowsAt(r, {"EXECUTING"}), "OUTCOME_UNKNOWN")
          /\ Pass(Finalizing([Idle EXCEPT !.run = r], "FINISHED", {"RUNNING"}, "unknown"))
          /\ UNCHANGED <<runs, history, jobs>>
    BY <1>7 DEF SweepStale
  <2>2. "FINISHED" \in Terminal /\ {"RUNNING"} \in SUBSET Active /\ LegalEnd("FINISHED", {"RUNNING"})
    BY DEF Terminal, Active, LegalEnd
  <2>3. PICK x \in ActorRecord : Become(Sweeper, x) /\ \A rows : Holds(Sweeper, x, rows)
    BY <2>1, <2>2, SweepEnds
  <2> QED BY <1>1, <2>1, <2>3 DEF Pass, Closed
<1> QED BY <1>3, <1>4, <1>5, <1>6, <1>7 DEF SweepStep

LEMMA LapseTyped ==
    ASSUME Typed, Lapse
    PROVE  Typed'
<1>0. PICK i \in DOMAIN invocations :
        /\ invocations' = [invocations EXCEPT ![i].due = TRUE]
        /\ UNCHANGED <<runs, history, jobs, actor, outside>>
  BY DEF Lapse
<1>1. \A j \in DOMAIN invocations : invocations[j] \in RowRecord
  BY Lengths
<1>2. [invocations[i] EXCEPT !.due = TRUE] \in RowRecord
  BY <1>1 DEF RowRecord
<1>3. \A j \in DOMAIN invocations : invocations'[j] \in RowRecord
  BY <1>0, <1>1, <1>2
<1>4. invocations' = [j \in DOMAIN invocations |-> invocations'[j]]
  BY <1>0
<1>a. invocations \in Seq(RowRecord)
  BY DEF Typed
<1>5. invocations' \in Seq(RowRecord) /\ DOMAIN invocations' = DOMAIN invocations
  BY <1>3, <1>4, <1>a, SeqChanged
<1>6. \A j \in DOMAIN invocations :
          /\ invocations'[j].run = invocations[j].run /\ invocations'[j].step = invocations[j].step
          /\ invocations'[j].call = invocations[j].call /\ invocations'[j].kind = invocations[j].kind
          /\ invocations'[j].status = invocations[j].status
  BY <1>0, <1>1 DEF RowRecord
<1>7. Grow(invocations, invocations') /\ KindsAgree(invocations')
  BY <1>5, <1>6 DEF Grow, KindsAgree, Typed
<1>8. \A a \in Actors : Holds(a, actor[a], invocations')
  BY <1>7, GrowKeepsHolds DEF Typed
<1> QED BY <1>0, <1>5, <1>7, <1>8 DEF Typed, outside

LEMMA DisallowTyped ==
    ASSUME Typed, Disallow
    PROVE  Typed'
<1>1. faults' \in 0 .. MaxFaults
  BY FaultTyped DEF Disallow
<1> QED BY <1>1 DEF Disallow, tables, Typed

LEMMA CrashTyped ==
    ASSUME Typed, Crash
    PROVE  Typed'
<1>1. faults' \in 0 .. MaxFaults
  BY FaultTyped DEF Crash
<1>2. jobs' \in [Runs -> Nat]
  BY DEF Crash, Typed
<1>3. actor' \in [Actors -> ActorRecord] /\ \A a \in Actors : Holds(a, actor'[a], invocations)
  BY IdleTyped DEF Crash
<1> QED BY <1>1, <1>2, <1>3 DEF Crash, tables, Typed

LEMMA NextTyped ==
    ASSUME Typed, [Next]_vars
    PROVE  Typed'
<1>1. CASE Next
  BY <1>1, LoopStepTyped, RequestStepTyped, SharedStepTyped, SweepStepTyped, LapseTyped,
     DisallowTyped, CrashTyped DEF Next
<1>2. CASE UNCHANGED vars
  BY <1>2 DEF vars, tables, outside, Typed
<1> QED BY <1>1, <1>2

LEMMA TypedInit ==
    ASSUME Init
    PROVE  Typed
<1>1. <<>> \in Seq(MessageRecord) /\ <<>> \in Seq(RowRecord) /\ DOMAIN <<>> = {}
  BY EmptySeq
<1>2. runs \in [Runs -> RunRecord]
  BY DEF Init, RunRecord, Statuses
<1>3. jobs \in [Runs -> Nat]
  BY DEF Init
<1>4. actor \in [Actors -> ActorRecord] /\ \A a \in Actors : Holds(a, actor[a], invocations)
  BY IdleTyped DEF Init
<1>5. ops \in 0 .. MaxEvents /\ faults \in 0 .. MaxFaults
  BY AssistantAssumption DEF Init
<1>6. KindsAgree(invocations)
  BY <1>1 DEF Init, KindsAgree
<1> QED BY <1>1, <1>2, <1>3, <1>4, <1>5, <1>6 DEF Init, Typed

LEMMA AlwaysTyped == Spec => []Typed
<1>1. Init => Typed
  BY TypedInit
<1>2. Typed /\ [Next]_vars => Typed'
  BY NextTyped
<1> QED BY <1>1, <1>2, PTL DEF Spec

LEMMA TypedIsTypeOK ==
    ASSUME Typed
    PROVE  TypeOK
<1>1. \A r \in Runs :
         /\ runs[r].status \in Statuses /\ runs[r].cancel \in BOOLEAN
         /\ runs[r].steps \in Nat /\ jobs[r] \in Nat
  BY DEF Typed, RunRecord
<1>2. ASSUME NEW h \in DOMAIN history
      PROVE  /\ history[h].kind \in {"user", "text", "step", "tool"} /\ history[h].run \in Runs
             /\ \A n \in DOMAIN history[h].told : history[h].told[n] \in Told
  <2>1. history[h] \in MessageRecord
    BY Lengths
  <2>2. history[h].told \in Seq(Told)
    BY <2>1 DEF MessageRecord
  <2>3. \A n \in DOMAIN history[h].told : history[h].told[n] \in Told
    BY <2>2, ElementOfSeq, LenProperties
  <2> QED BY <2>1, <2>3 DEF MessageRecord
<1>3. ASSUME NEW i \in DOMAIN invocations
      PROVE  /\ invocations[i].run \in Runs /\ invocations[i].status \in Undecided \cup Closed
             /\ invocations[i].kind \in {"write", "form"} /\ invocations[i].done \in Nat
  BY RowFacts DEF RowRecord
<1> QED BY <1>1, <1>2, <1>3 DEF TypeOK, Typed

\* However many runs, steps, slots and users, and whatever fails: the tables hold
\* what their columns may hold.
THEOREM AssistantTypes == Spec => []TypeOK
BY AlwaysTyped, TypedIsTypeOK, PTL
-----------------------------------------------------------------------------
(***************************************************************************)
(* Every status a run takes is one the lifecycle allows.                    *)
(***************************************************************************)
StatusOf == [r \in Runs |-> runs[r].status]

\* One write of a status is a move of the abstract run.
LEMMA OneMove ==
    ASSUME Typed, NEW r \in Runs, NEW to, SetStatus(r, to),
           NEW from, runs[r].status \in from
    PROVE  Lifecycle!Move(r, from, to)
<1>1. runs \in [Runs -> RunRecord]
  BY DEF Typed
<1>2. \A q \in Runs : runs'[q].status = IF q = r THEN to ELSE runs[q].status
  BY <1>1 DEF SetStatus, RunRecord
<1>3. [q \in Runs |-> runs[q].status]' = [[q \in Runs |-> runs[q].status] EXCEPT ![r] = to]
  BY <1>2
<1> QED BY <1>3 DEF Lifecycle!Move

LEMMA NoMove ==
    ASSUME Typed, \A r \in Runs : runs'[r].status = runs[r].status
    PROVE  UNCHANGED StatusOf
BY DEF StatusOf

LEMMA RunsUnchanged ==
    ASSUME Typed, UNCHANGED runs
    PROVE  UNCHANGED StatusOf
BY DEF StatusOf

LEMMA SameSets ==
    Lifecycle!Waiting = Waiting /\ Lifecycle!Active = Active
BY DEF Lifecycle!Waiting, Lifecycle!Active, Waiting, Active

LEMMA PersistMoves ==
    ASSUME Typed, NEW s, NEW kind, NEW calls, Persist(s, kind, calls)
    PROVE  UNCHANGED StatusOf
<1>1. \A r \in Runs : runs[r] \in RunRecord
  BY DEF Typed
<1> QED BY <1>1, NoMove DEF Persist, Typed, RunRecord

LEMMA LoopMoves ==
    ASSUME Typed, NEW s \in Slots, LoopStep(s)
    PROVE  Lifecycle!Next \/ UNCHANGED StatusOf
<1>1. CASE Claim(s)
  <2>1. PICK r \in Runs :
          \/ runs[r].status = "QUEUED" /\ SetStatus(r, "RUNNING")
          \/ UNCHANGED runs
    BY <1>1 DEF Claim
  <2>2. CASE runs[r].status = "QUEUED" /\ SetStatus(r, "RUNNING")
    BY <2>2, OneMove DEF Lifecycle!Next, Lifecycle!Claim
  <2> QED BY <2>1, <2>2, RunsUnchanged
<1>2. CASE Pause(s)
  <2>1. actor[s] \in ActorRecord /\ Holds(s, actor[s], invocations)
    BY ActorFacts, SlotsAct
  <2>2. actor[s].run \in Runs /\ actor[s].waits \in Waiting
    BY <1>2, <2>1 DEF Pause, AllResolved, At, Holds, ActorRecord
  <2>3. ASSUME NEW r \in Runs, NEW waiting \in Waiting,
               runs[r].status = "RUNNING", SetStatus(r, waiting)
        PROVE  Lifecycle!Next
    <3>1. Lifecycle!Move(r, {"RUNNING"}, waiting)
      BY <2>3, OneMove
    <3>2. Lifecycle!Pause(r)
      BY <3>1, SameSets DEF Lifecycle!Pause
    <3> QED BY <3>2 DEF Lifecycle!Next
  <2> QED BY <1>2, <2>2, <2>3, RunsUnchanged DEF Pause, MayPause
<1>3. CASE ModelSpeaks(s) \/ ModelCalls(s)
  BY <1>3, PersistMoves DEF ModelSpeaks, ModelCalls
<1>4. CASE UNCHANGED runs
  BY <1>4, RunsUnchanged
<1>5. CASE AnswerResume(s) \/ Guard(s) \/ ModelFails(s) \/ Boundary(s)
  BY <1>4, <1>5 DEF AnswerResume, Guard, ModelFails, Boundary, tables
<1>6. CASE AnswerCall(s) \/ Propose(s) \/ RequestInput(s)
  BY <1>4, <1>6 DEF AnswerCall, Propose, RequestInput, tables
<1>7. CASE AutoApprove(s) \/ AppendResults(s) \/ FailUnexpectedly(s)
  BY <1>4, <1>7 DEF AutoApprove, AppendResults, FailUnexpectedly
<1> QED BY <1>1, <1>2, <1>3, <1>5, <1>6, <1>7 DEF LoopStep

LEMMA SharedMoves ==
    ASSUME Typed, NEW a \in Actors, SharedStep(a)
    PROVE  Lifecycle!Next \/ UNCHANGED StatusOf
<1> DEFINE r == actor[a].run
<1>1. actor[a] \in ActorRecord /\ Holds(a, actor[a], invocations)
  BY ActorFacts
<1>2. CASE UNCHANGED runs
  BY <1>2, RunsUnchanged
<1>3. CASE Requeue(a)
  <2>1. r \in Runs /\ actor[a].seen \in Waiting
    BY <1>1, <1>3 DEF Requeue, At, Holds
  <2>2. CASE runs[r].status = actor[a].seen /\ SetStatus(r, "QUEUED")
    <3>1. Lifecycle!Move(r, Waiting, "QUEUED")
      BY <2>1, <2>2, OneMove
    <3> QED BY <2>1, <3>1, SameSets DEF Lifecycle!Next, Lifecycle!Resume
  <2> QED BY <1>2, <1>3, <2>2 DEF Requeue
<1>4. CASE Finalize(a)
  <2>1. r \in Runs /\ LegalEnd(actor[a].to, actor[a].from)
    BY <1>1, <1>4 DEF Finalize, At, Holds
  <2>2. CASE runs[r].status \in actor[a].from /\ SetStatus(r, actor[a].to)
    <3>1. CASE actor[a].to = "FINISHED"
      <4>1. runs[r].status \in {"RUNNING"}
        BY <2>1, <2>2, <3>1 DEF LegalEnd
      <4>2. Lifecycle!Move(r, {"RUNNING"}, "FINISHED")
        BY <2>1, <2>2, <3>1, <4>1, OneMove
      <4> QED BY <2>1, <4>2 DEF Lifecycle!Next, Lifecycle!Finish
    <3>2. CASE actor[a].to = "CANCELLED"
      <4>1. runs[r].status \in Active
        BY <2>1, <2>2, <3>2 DEF LegalEnd
      <4>2. Lifecycle!Move(r, Active, "CANCELLED")
        BY <2>1, <2>2, <3>2, <4>1, OneMove
      <4> QED BY <2>1, <4>2, SameSets DEF Lifecycle!Next, Lifecycle!Cancel
    <3>3. CASE actor[a].to = "EXPIRED"
      <4>1. runs[r].status \in Waiting
        BY <2>1, <2>2, <3>3 DEF LegalEnd
      <4>2. Lifecycle!Move(r, Waiting, "EXPIRED")
        BY <2>1, <2>2, <3>3, <4>1, OneMove
      <4> QED BY <2>1, <4>2, SameSets DEF Lifecycle!Next, Lifecycle!Expire
    <3> QED BY <2>1, <3>1, <3>2, <3>3 DEF LegalEnd
  <2> QED BY <1>2, <1>4, <2>2 DEF Finalize
<1>5. CASE CloseUnrecorded(a) \/ Execute(a) \/ Record(a) \/ CountUndecided(a) \/ LookAtRun(a)
           \/ Enqueue(a) \/ CloseCalls(a) \/ Tell(a) \/ Throw(a)
  BY <1>2, <1>5 DEF CloseUnrecorded, Execute, Record, CountUndecided, LookAtRun, Enqueue,
                    CloseCalls, Tell, Throw, tables
<1> QED BY <1>3, <1>4, <1>5 DEF SharedStep

LEMMA RequestMoves ==
    ASSUME Typed, NEW c \in Clients, RequestStep(c)
    PROVE  Lifecycle!Next \/ UNCHANGED StatusOf
<1>1. CASE UNCHANGED runs
  BY <1>1, RunsUnchanged
<1>2. CASE Submit(c)
  <2>1. Next1 \in Runs /\ runs[Next1].status = "NONE" /\ SetStatus(Next1, "QUEUED")
    BY <1>2, NextRun DEF Submit, Unborn
  <2>2. Lifecycle!Move(Next1, {"NONE"}, "QUEUED")
    BY <2>1, OneMove
  <2>3. \A q \in Runs : [w \in Runs |-> runs[w].status][q] \notin Lifecycle!Active
    BY <1>2, SameSets DEF Submit, NothingActive
  <2> QED BY <2>1, <2>2, <2>3 DEF Lifecycle!Next, Lifecycle!Submit
<1>3. CASE Cancel(c)
  <2>1. PICK r \in Runs : runs' = [runs EXCEPT ![r].cancel = TRUE]
    BY <1>3 DEF Cancel
  <2>2. \A q \in Runs : runs'[q].status = runs[q].status
    BY <2>1 DEF Typed, RunRecord
  <2> QED BY <2>2, NoMove
<1>4. CASE Decide(c) \/ ClaimDecision(c) \/ AnswerForm(c) \/ ExpireForm(c) \/ CloseForm(c)
  BY <1>1, <1>4 DEF Decide, ClaimDecision, AnswerForm, ExpireForm, CloseForm, tables
<1> QED BY <1>2, <1>3, <1>4 DEF RequestStep

LEMMA NextMoves ==
    ASSUME Typed, [Next]_vars
    PROVE  [Lifecycle!Next]_StatusOf
<1>1. CASE UNCHANGED runs
  BY <1>1, RunsUnchanged
<1>2. CASE SweepStep
  BY <1>1, <1>2 DEF SweepStep, SweepExpired, SweepInterrupted, SweepAwaiting, SweepQueued,
                    SweepStale, tables
<1>3. CASE Lapse \/ Disallow \/ Crash \/ UNCHANGED vars
  BY <1>1, <1>3 DEF Lapse, Disallow, Crash, vars, tables
<1> QED BY <1>2, <1>3, LoopMoves, SharedMoves, RequestMoves DEF Next

\* A conversation's runs take the statuses the lifecycle allows and in its order:
\* one at a time, driven only from the queue, and ended once, whatever the slots,
\* the users, the sweeper and the faults do.
THEOREM AssistantImplements == Spec => ImplementsAssistant
<1>1. Init => Lifecycle!Init
  BY DEF Init, Lifecycle!Init
<1>2. Typed /\ [Next]_vars => [Lifecycle!Next]_StatusOf
  BY NextMoves
<1> QED BY <1>1, <1>2, AlwaysTyped, PTL DEF Spec, ImplementsAssistant, Lifecycle!Spec, StatusOf
=============================================================================
