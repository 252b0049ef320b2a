--------------------------- MODULE AssistantSafety ---------------------------
(***************************************************************************)
(* A write of the assistant is made once, by whoever claimed it, and what   *)
(* the model is told of it is true, under every fault; a run has one driver *)
(* and no call is left open, as long as no database call fails.  For any    *)
(* number of runs, steps, slots and users.                                  *)
(*                                                                          *)
(* The argument about the writes.  A row is found again by its run, its     *)
(* step and the call it stands for; it is the only one with these, because  *)
(* one actor at a time is in the loop of a run (Alone), its step is past    *)
(* every older one, and it opens the rows of its step in the order of the   *)
(* calls (Keyed).  Only one actor has claimed a row, and it is the row's    *)
(* own record that says whether the write was made (Claimed).  A message    *)
(* that answers a step has an answer for each row of it, and says "done" of *)
(* a row that says so (Answered).  The argument about the drivers stands    *)
(* with their invariant, TurnInv.                                           *)
(***************************************************************************)
EXTENDS AssistantProofs

\* In the loop of its run: the step it is at is its own.
InStepPcs == {"boundary", "resolve", "approve", "execute", "record"}
LoopPcs == InStepPcs \cup {"answer", "guard", "model"}

InLoopOf(x) == x.op = "drive" /\ x.pc \in LoopPcs
InStep(x) == x.op = "drive" /\ x.pc \in InStepPcs

Alone ==
    /\ \A a \in Actors : InLoopOf(actor[a]) =>
         runs[actor[a].run].status \in {"RUNNING"} \cup Terminal
    /\ \A a, b \in Actors :
         InLoopOf(actor[a]) /\ InLoopOf(actor[b]) /\ actor[a].run = actor[b].run => a = b

SameKey(row, other) ==
    row.run = other.run /\ row.step = other.step /\ row.call = other.call

OfStep(row, r, step) == row.run = r /\ row.step = step

Keyed ==
    /\ \A i \in DOMAIN invocations : invocations[i].step < runs[invocations[i].run].steps
    /\ \A i, j \in DOMAIN invocations : SameKey(invocations[i], invocations[j]) => i = j
    /\ \A a \in Actors :
         /\ actor[a].pc = "model" => actor[a].step = runs[actor[a].run].steps
         /\ InStep(actor[a]) =>
              /\ actor[a].step < runs[actor[a].run].steps
              /\ \A i \in DOMAIN invocations :
                   OfStep(invocations[i], actor[a].run, actor[a].step) => invocations[i].call <= actor[a].resolved

\* Where an actor has claimed its row.
ClaimPcs == {"execute", "record", "unrecorded"}
Untouched == Waiting \cup {"REJECTED", "EXPIRED", "CANCELLED"}

Claimed ==
    /\ \A a, b \in Actors :
         actor[a].pc \in ClaimPcs /\ actor[b].pc \in ClaimPcs /\ actor[a].of = actor[b].of => a = b
    /\ \A a \in Actors : actor[a].pc \in ClaimPcs =>
         /\ invocations[actor[a].of].status \in {"EXECUTING", "OUTCOME_UNKNOWN"}
         /\ actor[a].pc \in {"execute", "unrecorded"} => invocations[actor[a].of].done = 0
         /\ actor[a].pc = "record" /\ actor[a].choice = "SUCCEEDED" =>
              invocations[actor[a].of].done = 1
         /\ actor[a].pc = "record" /\ actor[a].choice = "EXPIRED" =>
              invocations[actor[a].of].done = 0
    /\ \A i \in DOMAIN invocations :
         /\ invocations[i].done <= 1
         /\ invocations[i].status \in Untouched => invocations[i].done = 0
         /\ invocations[i].kind = "write" /\ invocations[i].status = "SUCCEEDED" =>
              invocations[i].done = 1

\* A message that calls tools, or answers them.
OfCalls(message) == message.kind \in {"step", "tool"}

\* A call whose row says that it was done.
SaysDone(rows, r, step, n) ==
    \E i \in DOMAIN rows :
        OfStep(rows[i], r, step) /\ rows[i].call = n /\ rows[i].status = "SUCCEEDED"

\* What the messages say of the calls.
ToldRight(messages, rows) ==
    \A h \in DOMAIN messages : messages[h].kind = "tool" =>
        /\ DOMAIN messages[h].told = DOMAIN messages[h].calls
        /\ \A n \in DOMAIN messages[h].told : messages[h].told[n] = "done" =>
             SaysDone(rows, messages[h].run, messages[h].step, n)

Answered ==
    /\ \A h \in DOMAIN history : OfCalls(history[h]) => history[h].step < runs[history[h].run].steps
    /\ \A a \in Actors, h \in DOMAIN history :
         InStep(actor[a]) /\ OfCalls(history[h]) /\ history[h].run = actor[a].run
           /\ history[h].step = actor[a].step => history[h].calls = actor[a].calls
    /\ \A i \in DOMAIN invocations, h \in DOMAIN history :
         OfCalls(history[h]) /\ OfStep(invocations[i], history[h].run, history[h].step) =>
           invocations[i].call \in DOMAIN history[h].calls
    /\ ToldRight(history, invocations)

WriteInv == Typed /\ Alone /\ Keyed /\ Claimed /\ Answered
-----------------------------------------------------------------------------
(***************************************************************************)
(* What most steps have in common.                                          *)
(***************************************************************************)
Going == {"RUNNING"} \cup Terminal

\* Where an actor has neither a loop nor a claim.
Out(x) == x.pc \notin LoopPcs \cup ClaimPcs

\* Nobody enters a loop, nobody begins a step of a run, nobody claims a row.
LoopOn ==
    \A a \in Actors :
        InLoopOf(actor'[a]) => InLoopOf(actor[a]) /\ actor'[a].run = actor[a].run

StepOn ==
    \A a \in Actors :
        /\ InStep(actor'[a]) =>
             /\ InStep(actor[a]) /\ actor'[a].run = actor[a].run
             /\ actor'[a].step = actor[a].step /\ actor'[a].calls = actor[a].calls
             /\ actor[a].resolved <= actor'[a].resolved
        /\ actor'[a].pc = "model" =>
             actor'[a] = actor[a] \/ actor'[a].step = runs[actor'[a].run].steps

ClaimsOn == \A a \in Actors : actor'[a].pc \in ClaimPcs => actor'[a] = actor[a]

\* No run that is driven or has ended waits again, and none is at another step.
StatusOn == \A r \in Runs : runs[r].status \in Going => runs'[r].status \in Going
StepsStay == \A r \in Runs : runs'[r].steps = runs[r].steps

SameRows == DOMAIN invocations' = DOMAIN invocations /\ Grow(invocations, invocations')

\* What becomes of a row that nobody has claimed.
MayBecome(row, st) ==
    \/ st = row.status
    \/ row.status \in Waiting /\ st \in {"REJECTED", "EXPIRED", "CANCELLED"}
    \/ row.status = "EXECUTING" /\ st = "OUTCOME_UNKNOWN"
    \/ row.kind = "form" /\ row.status \in Waiting /\ st = "SUCCEEDED"

RowsOn ==
    /\ \A i \in DOMAIN invocations :
         /\ invocations'[i].done = invocations[i].done
         /\ MayBecome(invocations[i], invocations'[i].status)
    /\ \A i \in DOMAIN invocations' \ DOMAIN invocations :
         invocations'[i].done = 0 /\ invocations'[i].status \in Waiting

\* What a row says was done stays so.
DoneKept ==
    \A i \in DOMAIN invocations :
        invocations[i].status = "SUCCEEDED" => invocations'[i].status = "SUCCEEDED"

\* A new row is for a call of the messages about its step.
NewRowsFit ==
    \A i \in DOMAIN invocations' \ DOMAIN invocations, h \in DOMAIN history :
        OfCalls(history[h]) /\ OfStep(invocations'[i], history[h].run, history[h].step) =>
            invocations'[i].call \in DOMAIN history[h].calls

\* Every message about calls is about calls of an older one, and every answer is
\* an old one, or says what the rows say.
SameCalls(m, n) == m.run = n.run /\ m.step = n.step /\ m.calls = n.calls

FromRows(m) ==
    \E message \in MessageRecord, fallback \in {"not done", "unknown"} :
        SameCalls(m, message) /\ m.told = OutcomesOf(message, fallback)

CallsFrom(messages) ==
    \A h \in DOMAIN messages : OfCalls(messages[h]) =>
        \E g \in DOMAIN history : OfCalls(history[g]) /\ SameCalls(messages[h], history[g])

AnswersFrom(messages) ==
    \A h \in DOMAIN messages : messages[h].kind = "tool" =>
        \/ /\ h \in DOMAIN history /\ history[h].kind = "tool"
           /\ SameCalls(messages[h], history[h]) /\ messages[h].told = history[h].told
        \/ FromRows(messages[h])

CallsOn == CallsFrom(history')
AnswersOn == AnswersFrom(history')

LEMMA AloneFrame ==
    ASSUME Typed, Typed', Alone, LoopOn, StatusOn
    PROVE  Alone'
<1>1. ASSUME NEW a \in Actors, InLoopOf(actor'[a])
      PROVE  runs'[actor'[a].run].status \in Going
  <2>1. InLoopOf(actor[a]) /\ actor'[a].run = actor[a].run
    BY <1>1 DEF LoopOn
  <2>2. Holds(a, actor[a], invocations)
    BY ActorFacts
  <2>3. actor[a].pc # "idle"
    BY <2>1 DEF InLoopOf, LoopPcs, InStepPcs
  <2>4. actor[a].run \in Runs
    BY <2>2, <2>3 DEF Holds
  <2> QED BY <2>1, <2>4 DEF Alone, StatusOn, Going
<1>2. ASSUME NEW a \in Actors, NEW b \in Actors, InLoopOf(actor'[a]), InLoopOf(actor'[b]),
             actor'[a].run = actor'[b].run
      PROVE  a = b
  BY <1>2 DEF LoopOn, Alone
<1> QED BY <1>1, <1>2 DEF Alone, Going

LEMMA KeyedFrame ==
    ASSUME Typed, Typed', Keyed, StepOn, StepsStay, SameRows
    PROVE  Keyed'
<1>1. \A i \in DOMAIN invocations' :
        /\ i \in DOMAIN invocations
        /\ invocations'[i].run = invocations[i].run /\ invocations'[i].step = invocations[i].step
        /\ invocations'[i].call = invocations[i].call
  BY DEF SameRows, Grow
<1>2. ASSUME NEW i \in DOMAIN invocations'
      PROVE  invocations'[i].step < runs'[invocations'[i].run].steps
  <2>1. invocations[i].run \in Runs
    BY <1>1, <1>2, RowFacts
  <2> QED BY <1>1, <1>2, <2>1 DEF Keyed, StepsStay
<1>3. ASSUME NEW i \in DOMAIN invocations', NEW j \in DOMAIN invocations', SameKey(invocations'[i], invocations'[j])
      PROVE  i = j
  BY <1>1, <1>3 DEF Keyed, SameKey
<1>4. ASSUME NEW a \in Actors, actor'[a].pc = "model"
      PROVE  actor'[a].step = runs'[actor'[a].run].steps
  <2>1. Holds(a, actor'[a], invocations')
    BY DEF Typed
  <2>2. actor'[a].run \in Runs
    BY <1>4, <2>1 DEF Holds
  <2>3. actor'[a].step = runs[actor'[a].run].steps
    BY <1>4 DEF StepOn, Keyed
  <2> QED BY <2>2, <2>3 DEF StepsStay
<1>5. ASSUME NEW a \in Actors, InStep(actor'[a])
      PROVE  /\ actor'[a].step < runs'[actor'[a].run].steps
             /\ \A i \in DOMAIN invocations' :
                  OfStep(invocations'[i], actor'[a].run, actor'[a].step) => invocations'[i].call <= actor'[a].resolved
  <2>1. /\ InStep(actor[a]) /\ actor'[a].run = actor[a].run
        /\ actor'[a].step = actor[a].step /\ actor[a].resolved <= actor'[a].resolved
    BY <1>5 DEF StepOn
  <2>2. Holds(a, actor[a], invocations) /\ actor[a].pc # "idle"
    BY <2>1, ActorFacts DEF InStep, InStepPcs
  <2>3. actor[a].run \in Runs
    BY <2>2 DEF Holds
  <2>4. actor'[a].step < runs'[actor'[a].run].steps
    BY <2>1, <2>3 DEF Keyed, StepsStay
  <2>5. ASSUME NEW i \in DOMAIN invocations', OfStep(invocations'[i], actor'[a].run, actor'[a].step)
        PROVE  invocations'[i].call <= actor'[a].resolved
    <3>1. i \in DOMAIN invocations /\ OfStep(invocations[i], actor[a].run, actor[a].step)
      BY <1>1, <2>1, <2>5 DEF OfStep
    <3>2. invocations[i].call <= actor[a].resolved
      BY <2>1, <3>1 DEF Keyed
    <3>3. invocations[i].call \in Nat
      BY <3>1, RowFacts DEF RowRecord
    <3>4. actor[a].resolved \in Nat /\ actor'[a].resolved \in Nat
      BY DEF Typed, ActorRecord
    <3>5. invocations'[i].call = invocations[i].call
      BY <1>1
    <3> HIDE DEF Typed
    <3> QED BY <2>1, <3>2, <3>3, <3>4, <3>5
  <2> QED BY <2>4, <2>5
<1> QED BY <1>2, <1>3, <1>4, <1>5 DEF Keyed

LEMMA ClaimedFrame ==
    ASSUME Typed, Typed', Claimed, ClaimsOn, RowsOn, Grow(invocations, invocations')
    PROVE  Claimed'
<1>1. ASSUME NEW a \in Actors, NEW b \in Actors, actor'[a].pc \in ClaimPcs,
             actor'[b].pc \in ClaimPcs, actor'[a].of = actor'[b].of
      PROVE  a = b
  BY <1>1 DEF ClaimsOn, Claimed
<1>2. ASSUME NEW a \in Actors, actor'[a].pc \in ClaimPcs
      PROVE  /\ invocations'[actor'[a].of].status \in {"EXECUTING", "OUTCOME_UNKNOWN"}
             /\ actor'[a].pc \in {"execute", "unrecorded"} => invocations'[actor'[a].of].done = 0
             /\ actor'[a].pc = "record" /\ actor'[a].choice = "SUCCEEDED" =>
                  invocations'[actor'[a].of].done = 1
             /\ actor'[a].pc = "record" /\ actor'[a].choice = "EXPIRED" =>
                  invocations'[actor'[a].of].done = 0
  <2>1. actor'[a] = actor[a]
    BY <1>2 DEF ClaimsOn
  <2>2. Holds(a, actor[a], invocations) /\ actor[a].pc \in OfRow
    BY <1>2, <2>1, ActorFacts DEF ClaimPcs, OfRow, OfWrite
  <2>3. actor[a].of \in DOMAIN invocations
    BY <2>2 DEF Holds
  <2>4. MayBecome(invocations[actor[a].of], invocations'[actor[a].of].status)
        /\ invocations'[actor[a].of].done = invocations[actor[a].of].done
    BY <2>3 DEF RowsOn
  <2> QED BY <1>2, <2>1, <2>4 DEF Claimed, MayBecome, Waiting
<1>3. ASSUME NEW i \in DOMAIN invocations'
      PROVE  /\ invocations'[i].done <= 1
             /\ invocations'[i].status \in Untouched => invocations'[i].done = 0
             /\ invocations'[i].kind = "write" /\ invocations'[i].status = "SUCCEEDED" =>
                  invocations'[i].done = 1
  <2>1. CASE i \in DOMAIN invocations
    <3>1. /\ invocations'[i].done = invocations[i].done /\ invocations'[i].kind = invocations[i].kind
          /\ MayBecome(invocations[i], invocations'[i].status)
      BY <2>1 DEF RowsOn, Grow
    <3> QED BY <2>1, <3>1 DEF Claimed, MayBecome, Untouched, Waiting
  <2>2. CASE i \notin DOMAIN invocations
    BY <1>3, <2>2 DEF RowsOn, Waiting
  <2> QED BY <2>1, <2>2
<1> QED BY <1>1, <1>2, <1>3 DEF Claimed

\* A call is told to be done only of a row that says so.
LEMMA OutcomeDone ==
    ASSUME Typed, NEW m \in MessageRecord, NEW fallback \in {"not done", "unknown"},
           NEW n \in DOMAIN m.calls, OutcomesOf(m, fallback)[n] = "done"
    PROVE  SaysDone(invocations, m.run, m.step, n)
<1>1. OutcomeOf(m, n, fallback) = "done"
  BY DEF OutcomesOf
<1>2. RowOf(m, n) # {} /\ Outcome(invocations[CHOOSE i \in RowOf(m, n) : TRUE], fallback) = "done"
  BY <1>1 DEF OutcomeOf
<1>3. PICK i : i \in RowOf(m, n) /\ Outcome(invocations[i], fallback) = "done"
  BY <1>2
<1>4. invocations[i].status = "SUCCEEDED"
  BY <1>3 DEF Outcome
<1>5. i \in DOMAIN invocations /\ OfStep(invocations[i], m.run, m.step) /\ invocations[i].call = n
  BY <1>3 DEF RowOf, RowsOf, OfStep
<1> QED BY <1>4, <1>5 DEF SaysDone

LEMMA RowsKeepDone ==
    ASSUME RowsOn
    PROVE  DoneKept
BY DEF RowsOn, DoneKept, MayBecome, Waiting

LEMMA DoneStays ==
    ASSUME DoneKept, Grow(invocations, invocations'), NEW r, NEW step, NEW n,
           SaysDone(invocations, r, step, n)
    PROVE  SaysDone(invocations', r, step, n)
<1>1. PICK i \in DOMAIN invocations :
        /\ OfStep(invocations[i], r, step) /\ invocations[i].call = n
        /\ invocations[i].status = "SUCCEEDED"
  BY DEF SaysDone
<1>2. invocations'[i].status = "SUCCEEDED"
  BY <1>1 DEF DoneKept
<1> QED BY <1>1, <1>2 DEF Grow, OfStep, SaysDone

LEMMA AnsweredTold ==
    ASSUME Typed, Typed', ToldRight(history, invocations), DoneKept,
           Grow(invocations, invocations'), AnswersOn
    PROVE  ToldRight(history', invocations')
<1>1. SUFFICES ASSUME NEW h \in DOMAIN history', history'[h].kind = "tool"
               PROVE  /\ DOMAIN history'[h].told = DOMAIN history'[h].calls
                      /\ \A n \in DOMAIN history'[h].told : history'[h].told[n] = "done" =>
                           SaysDone(invocations', history'[h].run, history'[h].step, n)
  BY DEF ToldRight
<1>2. CASE /\ h \in DOMAIN history /\ history[h].kind = "tool"
           /\ SameCalls(history'[h], history[h]) /\ history'[h].told = history[h].told
  BY <1>2, DoneStays DEF ToldRight, SameCalls
<1>3. CASE FromRows(history'[h])
  <2>1. PICK m \in MessageRecord, fallback \in {"not done", "unknown"} :
          SameCalls(history'[h], m) /\ history'[h].told = OutcomesOf(m, fallback)
    BY <1>3 DEF FromRows
  <2>2. DOMAIN history'[h].told = DOMAIN m.calls
    BY <2>1 DEF OutcomesOf
  <2>3. ASSUME NEW n \in DOMAIN m.calls, history'[h].told[n] = "done"
        PROVE  SaysDone(invocations', m.run, m.step, n)
    BY <2>1, <2>3, OutcomeDone, DoneStays
  <2> QED BY <2>1, <2>2, <2>3 DEF SameCalls
<1> QED BY <1>1, <1>2, <1>3 DEF AnswersOn, AnswersFrom

LEMMA AnsweredFrame ==
    ASSUME Typed, Typed', Answered, StepOn, StepsStay, Grow(invocations, invocations'),
           NewRowsFit, DoneKept, CallsOn, AnswersOn
    PROVE  Answered'
<1>1. ASSUME NEW h \in DOMAIN history', OfCalls(history'[h])
      PROVE  \E g \in DOMAIN history : OfCalls(history[g]) /\ SameCalls(history'[h], history[g])
  BY <1>1 DEF CallsOn, CallsFrom
<1>2. ASSUME NEW h \in DOMAIN history', OfCalls(history'[h])
      PROVE  history'[h].step < runs'[history'[h].run].steps
  <2>1. PICK g \in DOMAIN history : OfCalls(history[g]) /\ SameCalls(history'[h], history[g])
    BY <1>1, <1>2
  <2>2. history[g].run \in Runs
    BY Lengths DEF MessageRecord
  <2> QED BY <2>1, <2>2 DEF Answered, SameCalls, StepsStay
<1>3. ASSUME NEW a \in Actors, NEW h \in DOMAIN history', InStep(actor'[a]), OfCalls(history'[h]),
             history'[h].run = actor'[a].run, history'[h].step = actor'[a].step
      PROVE  history'[h].calls = actor'[a].calls
  <2>1. PICK g \in DOMAIN history : OfCalls(history[g]) /\ SameCalls(history'[h], history[g])
    BY <1>1, <1>3
  <2>2. /\ InStep(actor[a]) /\ actor'[a].run = actor[a].run
        /\ actor'[a].step = actor[a].step /\ actor'[a].calls = actor[a].calls
    BY <1>3 DEF StepOn
  <2> QED BY <1>3, <2>1, <2>2 DEF Answered, SameCalls
<1>4. ASSUME NEW i \in DOMAIN invocations', NEW h \in DOMAIN history', OfCalls(history'[h]),
             OfStep(invocations'[i], history'[h].run, history'[h].step)
      PROVE  invocations'[i].call \in DOMAIN history'[h].calls
  <2>1. PICK g \in DOMAIN history : OfCalls(history[g]) /\ SameCalls(history'[h], history[g])
    BY <1>1, <1>4
  <2>2. OfStep(invocations'[i], history[g].run, history[g].step)
    BY <1>4, <2>1 DEF OfStep, SameCalls
  <2>3. CASE i \in DOMAIN invocations
    <3>1. /\ invocations'[i].call = invocations[i].call
          /\ invocations'[i].run = invocations[i].run /\ invocations'[i].step = invocations[i].step
      BY <2>3 DEF Grow
    <3>2. OfStep(invocations[i], history[g].run, history[g].step)
      BY <2>2, <3>1 DEF OfStep
    <3> QED BY <2>1, <2>3, <3>1, <3>2 DEF Answered, SameCalls
  <2>4. CASE i \notin DOMAIN invocations
    BY <2>1, <2>2, <2>4 DEF NewRowsFit, SameCalls
  <2> QED BY <2>3, <2>4
<1> QED BY <1>2, <1>3, <1>4, AnsweredTold DEF Answered
-----------------------------------------------------------------------------
(***************************************************************************)
(* The steps that have it all in common.                                    *)
(***************************************************************************)
Tables == StatusOn /\ StepsStay /\ SameRows /\ RowsOn /\ CallsOn /\ AnswersOn

Steady == LoopOn /\ StepOn /\ ClaimsOn /\ Tables

\* All but who is in a loop.
LEMMA LoopsKept ==
    ASSUME WriteInv, Typed', Alone', StepOn, ClaimsOn, StepsStay, SameRows, RowsOn, CallsOn, AnswersOn
    PROVE  WriteInv'
<1>1. Grow(invocations, invocations') /\ NewRowsFit /\ DoneKept
  BY RowsKeepDone DEF SameRows, NewRowsFit
<1> QED BY <1>1, KeyedFrame, ClaimedFrame, AnsweredFrame DEF WriteInv

LEMMA SteadyKeeps ==
    ASSUME WriteInv, Typed', Steady
    PROVE  WriteInv'
BY AloneFrame, LoopsKept DEF WriteInv, Steady, Tables

LEMMA RunsKept ==
    ASSUME UNCHANGED runs
    PROVE  StatusOn /\ StepsStay
BY DEF StatusOn, StepsStay

LEMMA RowsKept ==
    ASSUME UNCHANGED invocations
    PROVE  SameRows /\ RowsOn
BY SameGrow DEF SameRows, RowsOn, MayBecome

LEMMA HistoryKept ==
    ASSUME UNCHANGED history
    PROVE  CallsOn /\ AnswersOn
BY DEF CallsOn, AnswersOn, CallsFrom, AnswersFrom, SameCalls

LEMMA RowsClosed ==
    ASSUME Typed, NEW rows, NEW st \in Closed \cup {"EXECUTING"}, Close(rows, st),
           \A i \in DOMAIN invocations : i \in rows => MayBecome(invocations[i], st)
    PROVE  SameRows /\ RowsOn
<1>1. DOMAIN invocations' = DOMAIN invocations /\ Grow(invocations, invocations')
  BY CloseTyped
<1>2. \A i \in DOMAIN invocations : invocations[i] \in RowRecord
  BY Lengths
<1>3. \A i \in DOMAIN invocations :
         invocations'[i] = IF i \in rows THEN [invocations[i] EXCEPT !.status = st] ELSE invocations[i]
  BY DEF Close
<1>4. ASSUME NEW i \in DOMAIN invocations
      PROVE  /\ invocations'[i].done = invocations[i].done
             /\ MayBecome(invocations[i], invocations'[i].status)
  <2>1. CASE i \in rows
    BY <1>2, <1>3, <2>1 DEF RowRecord
  <2>2. CASE i \notin rows
    BY <1>3, <2>2 DEF MayBecome
  <2> QED BY <2>1, <2>2
<1> QED BY <1>1, <1>4 DEF SameRows, RowsOn

\* One actor goes on, and the others stay where they are.
LEMMA OneActor ==
    ASSUME Typed, NEW a \in Actors, NEW y, Become(a, y),
           InStep(y) =>
               /\ InStep(actor[a]) /\ y.run = actor[a].run /\ y.step = actor[a].step
               /\ y.calls = actor[a].calls /\ actor[a].resolved <= y.resolved,
           y.pc = "model" => y.step = runs[y.run].steps
    PROVE  /\ StepOn /\ (y.pc \notin ClaimPcs => ClaimsOn)
           /\ (InLoopOf(y) => InLoopOf(actor[a]) /\ y.run = actor[a].run) => LoopOn
<1>1. \A b \in Actors : actor'[b] = IF b = a THEN y ELSE actor[b]
  BY DEF Become, Typed
<1>2. \A b \in Actors : actor[b].resolved \in Nat
  BY DEF Typed, ActorRecord
<1>3. \A b \in Actors : actor[b].resolved <= actor[b].resolved
  BY <1>2
<1>4. (InLoopOf(y) => InLoopOf(actor[a]) /\ y.run = actor[a].run) => LoopOn
  BY <1>1 DEF LoopOn
<1>5. StepOn
  BY <1>1, <1>3 DEF StepOn
<1>6. y.pc \notin ClaimPcs => ClaimsOn
  BY <1>1 DEF ClaimsOn
<1> QED BY <1>4, <1>5, <1>6

LEMMA OutOn ==
    ASSUME Typed, NEW a \in Actors, NEW y, Become(a, y), Out(y)
    PROVE  LoopOn /\ StepOn /\ ClaimsOn
<1>1. ~ InLoopOf(y) /\ ~ InStep(y) /\ y.pc # "model" /\ y.pc \notin ClaimPcs
  BY DEF Out, InLoopOf, InStep, LoopPcs
<1> QED BY <1>1, OneActor

LEMMA SameActors ==
    ASSUME Typed, UNCHANGED actor
    PROVE  LoopOn /\ StepOn /\ ClaimsOn
<1>1. \A b \in Actors : actor[b].resolved \in Nat
  BY DEF Typed, ActorRecord
<1>2. \A b \in Actors : actor[b].resolved <= actor[b].resolved
  BY <1>1
<1> QED BY <1>2 DEF LoopOn, StepOn, ClaimsOn

LEMMA OutIdle == Out(Idle)
BY DEF Idle, Out, LoopPcs, InStepPcs, ClaimPcs

LEMMA OutFresh ==
    ASSUME NEW x, NEW pc \in {"unexpected", "count", "enqueue"}
    PROVE  Out(Fresh(x, pc))
<1>1. Fresh(x, pc).pc = pc
  BY DEF Fresh, Idle
<1> QED BY <1>1 DEF Out, LoopPcs, InStepPcs, ClaimPcs

LEMMA OutFinalizing ==
    ASSUME NEW x, NEW to, NEW from, NEW fallback
    PROVE  Out(Finalizing(x, to, from, fallback))
<1>1. Finalizing(x, to, from, fallback).pc = "finalize"
  BY DEF Finalizing, Fresh, Idle
<1> QED BY <1>1 DEF Out, LoopPcs, InStepPcs, ClaimPcs

LEMMA QuietOut ==
    ASSUME Typed, NEW a \in Actors, NEW y, Become(a, y), Out(y),
           UNCHANGED <<runs, history, invocations>>
    PROVE  Steady
BY OutOn, RunsKept, RowsKept, HistoryKept DEF Steady, Tables

LEMMA ClosingOut ==
    ASSUME Typed, NEW a \in Actors, NEW y, Become(a, y), Out(y), UNCHANGED <<runs, history>>,
           NEW rows, NEW st \in Closed \cup {"EXECUTING"}, Close(rows, st),
           \A i \in DOMAIN invocations : i \in rows => MayBecome(invocations[i], st)
    PROVE  Steady
BY OutOn, RunsKept, RowsClosed, HistoryKept DEF Steady, Tables

\* A status is written that none follows but the end.
LEMMA StatusOut ==
    ASSUME Typed, NEW a \in Actors, NEW y, Become(a, y), Out(y), UNCHANGED <<history, invocations>>,
           NEW r, NEW status, SetStatus(r, status),
           status \in Going \/ runs[r].status \notin Going
    PROVE  Steady
<1>1. \A q \in Runs : runs[q] \in RunRecord
  BY DEF Typed
<1>2. StatusOn /\ StepsStay
  BY <1>1 DEF StatusOn, StepsStay, SetStatus, Typed, RunRecord
<1> QED BY <1>2, OutOn, RowsKept, HistoryKept DEF Steady, Tables
-----------------------------------------------------------------------------
(***************************************************************************)
(* Steps that leave every loop and every claim.                             *)
(***************************************************************************)
LEMMA SharedSteady ==
    ASSUME Typed, NEW a \in Actors,
           \/ CountUndecided(a) \/ LookAtRun(a) \/ Requeue(a) \/ Enqueue(a)
           \/ Finalize(a) \/ CloseCalls(a)
    PROVE  Steady
<1>0. actor[a] \in ActorRecord /\ Holds(a, actor[a], invocations)
  BY ActorFacts
<1>1. CASE CountUndecided(a)
  <2>1. UNCHANGED <<runs, history, invocations>>
    BY <1>1 DEF CountUndecided, tables
  <2>2. [actor[a] EXCEPT !.pc = "look"].pc = "look"
    BY <1>0 DEF ActorRecord
  <2>3. Out([actor[a] EXCEPT !.pc = "look"])
    BY <2>2 DEF Out, LoopPcs, InStepPcs, ClaimPcs
  <2> QED BY <1>1, <2>1, <2>3, OutIdle, GoToBecomes, QuietOut DEF CountUndecided, Done
<1>2. CASE LookAtRun(a)
  <2>1. UNCHANGED <<runs, history, invocations>>
    BY <1>2 DEF LookAtRun, tables
  <2>2. ASSUME NEW status PROVE Out([actor[a] EXCEPT !.pc = "requeue", !.seen = status])
    <3>1. [actor[a] EXCEPT !.pc = "requeue", !.seen = status].pc = "requeue"
      BY <1>0 DEF ActorRecord
    <3> QED BY <3>1 DEF Out, LoopPcs, InStepPcs, ClaimPcs
  <2> QED BY <1>2, <2>1, <2>2, OutIdle, QuietOut DEF LookAtRun, Done
<1>3. CASE Requeue(a)
  <2>1. UNCHANGED <<history, invocations>>
    BY <1>3 DEF Requeue
  <2>2. CASE /\ runs[actor[a].run].status = actor[a].seen
             /\ SetStatus(actor[a].run, "QUEUED") /\ GoOn(a, "enqueue")
    <3>1. actor[a].seen \in Waiting
      BY <1>0, <1>3 DEF Requeue, At, Holds
    <3>2. runs[actor[a].run].status \notin Going
      BY <2>2, <3>1 DEF Going, Waiting, Terminal
    <3> QED BY <2>1, <2>2, <3>2, OutFresh, StatusOut DEF GoOn
  <2>3. CASE UNCHANGED runs /\ Done(a)
    BY <2>1, <2>3, OutIdle, QuietOut DEF Done
  <2> QED BY <1>3, <2>2, <2>3 DEF Requeue
<1>4. CASE Enqueue(a)
  <2>1. UNCHANGED <<runs, history, invocations>> /\ Done(a)
    BY <1>4 DEF Enqueue, tables
  <2> QED BY <2>1, OutIdle, QuietOut DEF Done
<1>5. CASE Finalize(a)
  <2>1. UNCHANGED <<history, invocations>> /\ LegalEnd(actor[a].to, actor[a].from)
    BY <1>0, <1>5 DEF Finalize, At, Holds
  <2>2. CASE /\ SetStatus(actor[a].run, actor[a].to)
             /\ Become(a, [Fresh(actor[a], "close") EXCEPT !.fallback = actor[a].fallback])
    <3>1. actor[a].to \in Going
      BY <2>1 DEF LegalEnd, Going, Terminal
    <3>2. [Fresh(actor[a], "close") EXCEPT !.fallback = actor[a].fallback].pc = "close"
      BY DEF Fresh, Idle
    <3>3. Out([Fresh(actor[a], "close") EXCEPT !.fallback = actor[a].fallback])
      BY <3>2 DEF Out, LoopPcs, InStepPcs, ClaimPcs
    <3> QED BY <2>1, <2>2, <3>1, <3>3, StatusOut
  <2>3. CASE UNCHANGED runs /\ Done(a)
    BY <2>1, <2>3, OutIdle, QuietOut DEF Done
  <2> QED BY <1>5, <2>2, <2>3 DEF Finalize
<1>6. CASE CloseCalls(a)
  <2>1. /\ UNCHANGED <<runs, history>> /\ Close(RowsAt(actor[a].run, Waiting), "CANCELLED")
        /\ Become(a, [actor[a] EXCEPT !.pc = "tell"])
    BY <1>6, GoToBecomes DEF CloseCalls
  <2>2. [actor[a] EXCEPT !.pc = "tell"].pc = "tell"
    BY <1>0 DEF ActorRecord
  <2>3. Out([actor[a] EXCEPT !.pc = "tell"])
    BY <2>2 DEF Out, LoopPcs, InStepPcs, ClaimPcs
  <2>4. \A i \in DOMAIN invocations : i \in RowsAt(actor[a].run, Waiting) =>
           MayBecome(invocations[i], "CANCELLED")
    BY DEF RowsAt, MayBecome
  <2> QED BY <2>1, <2>3, <2>4, ClosingOut DEF Closed
<1> QED BY <1>1, <1>2, <1>3, <1>4, <1>5, <1>6

LEMMA RequestSteady ==
    ASSUME Typed, NEW c \in Clients,
           Cancel(c) \/ Decide(c) \/ AnswerForm(c) \/ ExpireForm(c) \/ CloseForm(c)
    PROVE  Steady
<1>0. c \in Actors /\ actor[c] \in ActorRecord /\ Holds(c, actor[c], invocations)
  BY ActorFacts, SlotsAct
<1>1. CASE Cancel(c)
  <2>1. PICK r \in Runs :
          /\ Become(c, Finalizing([Idle EXCEPT !.op = "cancel", !.run = r],
                                  "CANCELLED", {"QUEUED"} \cup Waiting, "not done"))
          /\ runs' = [runs EXCEPT ![r].cancel = TRUE]
          /\ UNCHANGED <<history, invocations>>
    BY <1>1 DEF Cancel, Begin
  <2>2. StatusOn /\ StepsStay
    BY <2>1 DEF Typed, RunRecord, StatusOn, StepsStay
  <2> QED BY <1>0, <2>1, <2>2, OutFinalizing, OutOn, RowsKept, HistoryKept DEF Steady, Tables
<1>2. CASE Decide(c)
  <2>1. PICK i \in DOMAIN invocations, choice \in {"approve", "reject"} :
          /\ Become(c, [Idle EXCEPT !.op = "decide", !.pc = "claim", !.of = i,
                                    !.run = invocations[i].run, !.choice = choice])
          /\ UNCHANGED tables
    BY <1>2 DEF Decide, Begin
  <2>2. [Idle EXCEPT !.op = "decide", !.pc = "claim", !.of = i,
                     !.run = invocations[i].run, !.choice = choice].pc = "claim"
    BY DEF Idle
  <2>3. Out([Idle EXCEPT !.op = "decide", !.pc = "claim", !.of = i,
                         !.run = invocations[i].run, !.choice = choice])
    BY <2>2 DEF Out, LoopPcs, InStepPcs, ClaimPcs
  <2>4. UNCHANGED <<runs, history, invocations>>
    BY <2>1 DEF tables
  <2> QED BY <1>0, <2>1, <2>3, <2>4, QuietOut
<1>3. CASE AnswerForm(c)
  <2>1. PICK i \in DOMAIN invocations, pc \in {"expire form", "close form"} :
          /\ Become(c, [Idle EXCEPT !.op = "answer", !.of = i, !.run = invocations[i].run,
                                    !.pc = pc])
          /\ UNCHANGED tables
    BY <1>3 DEF AnswerForm, Begin
  <2>2. [Idle EXCEPT !.op = "answer", !.of = i, !.run = invocations[i].run, !.pc = pc].pc = pc
    BY DEF Idle
  <2>3. Out([Idle EXCEPT !.op = "answer", !.of = i, !.run = invocations[i].run, !.pc = pc])
    BY <2>2 DEF Out, LoopPcs, InStepPcs, ClaimPcs
  <2>4. UNCHANGED <<runs, history, invocations>>
    BY <2>1 DEF tables
  <2> QED BY <1>0, <2>1, <2>3, <2>4, QuietOut
<1>4. CASE ExpireForm(c)
  <2> DEFINE rows == {actor[c].of} \cap RowsAt(actor[c].run, {"AWAITING_INPUT"})
  <2>1. /\ UNCHANGED <<runs, history>> /\ Close(rows, "EXPIRED")
        /\ Become(c, Finalizing(actor[c], "EXPIRED", {"AWAITING_INPUT"}, "not done"))
    BY <1>4 DEF ExpireForm
  <2>2. \A i \in DOMAIN invocations : i \in rows => MayBecome(invocations[i], "EXPIRED")
    BY DEF RowsAt, MayBecome, Waiting
  <2> QED BY <1>0, <2>1, <2>2, OutFinalizing, ClosingOut DEF Closed
<1>5. CASE CloseForm(c)
  <2>1. UNCHANGED <<runs, history>> /\ actor[c].pc = "close form"
    BY <1>5 DEF CloseForm, At
  <2>2. CASE /\ invocations[actor[c].of].status = "AWAITING_INPUT" /\ GoOn(c, "count")
             /\ \E outcome \in {"SUCCEEDED", "REJECTED"} : Close({actor[c].of}, outcome)
    <3>1. PICK outcome \in {"SUCCEEDED", "REJECTED"} : Close({actor[c].of}, outcome)
      BY <2>2
    <3>2. actor[c].of \in DOMAIN invocations /\ invocations[actor[c].of].kind = "form"
      BY <1>0, <2>1 DEF Holds, OfRow
    <3>3. \A i \in DOMAIN invocations : i \in {actor[c].of} => MayBecome(invocations[i], outcome)
      BY <2>2, <3>2 DEF MayBecome, Waiting
    <3>4. outcome \in Closed
      BY DEF Closed
    <3> QED BY <1>0, <2>1, <2>2, <3>1, <3>3, <3>4, OutFresh, ClosingOut DEF GoOn
  <2>3. CASE UNCHANGED invocations /\ Done(c)
    BY <1>0, <2>1, <2>3, OutIdle, QuietOut DEF Done
  <2> QED BY <1>5, <2>2, <2>3 DEF CloseForm
<1> QED BY <1>1, <1>2, <1>3, <1>4, <1>5

LEMMA SweepFinalizing ==
    ASSUME NEW r, NEW to, NEW from, NEW fallback,
           Pass(Finalizing([Idle EXCEPT !.run = r], to, from, fallback))
    PROVE  \E y : Become(Sweeper, y) /\ Out(y)
<1> DEFINE y == [Finalizing([Idle EXCEPT !.run = r], to, from, fallback) EXCEPT !.op = "sweep"]
<1>1. y.pc = "finalize" /\ Become(Sweeper, y)
  BY DEF Finalizing, Fresh, Idle, Pass
<1>2. Out(y)
  BY <1>1 DEF Out, LoopPcs, InStepPcs, ClaimPcs
<1> QED BY <1>1, <1>2

LEMMA SweepGoing ==
    ASSUME NEW r, NEW pc \in {"count", "enqueue"}, Pass([Idle EXCEPT !.run = r, !.pc = pc])
    PROVE  \E y : Become(Sweeper, y) /\ Out(y)
<1> DEFINE y == [[Idle EXCEPT !.run = r, !.pc = pc] EXCEPT !.op = "sweep"]
<1>1. y.pc = pc /\ Become(Sweeper, y)
  BY DEF Idle, Pass
<1>2. Out(y)
  BY <1>1 DEF Out, LoopPcs, InStepPcs, ClaimPcs
<1> QED BY <1>1, <1>2

LEMMA SweepSteady ==
    ASSUME Typed, SweepStep
    PROVE  Steady
<1>0. Sweeper \in Actors /\ {"EXPIRED", "OUTCOME_UNKNOWN"} \subseteq Closed
  BY SlotsAct DEF Closed
<1>1. CASE SweepExpired
  <2>1. PICK r \in Runs, waiting \in Waiting :
          /\ Close(DueRows(r, waiting), "EXPIRED")
          /\ Pass(Finalizing([Idle EXCEPT !.run = r], "EXPIRED", {waiting}, "not done"))
          /\ UNCHANGED <<runs, history, jobs>>
    BY <1>1 DEF SweepExpired
  <2>2. \A i \in DOMAIN invocations : i \in DueRows(r, waiting) => MayBecome(invocations[i], "EXPIRED")
    BY DEF DueRows, RowsAt, MayBecome
  <2>3. PICK y : Become(Sweeper, y) /\ Out(y)
    BY <2>1, SweepFinalizing
  <2> QED BY <1>0, <2>1, <2>2, <2>3, ClosingOut
<1>2. CASE SweepInterrupted
  <2>1. PICK i \in DOMAIN invocations :
          /\ invocations[i].status = "EXECUTING" /\ Close({i}, "OUTCOME_UNKNOWN")
          /\ UNCHANGED <<runs, history, jobs, actor, outside>>
    BY <1>2 DEF SweepInterrupted
  <2>2. \A j \in DOMAIN invocations : j \in {i} => MayBecome(invocations[j], "OUTCOME_UNKNOWN")
    BY <2>1 DEF MayBecome
  <2> QED BY <1>0, <2>1, <2>2, SameActors, RunsKept, RowsClosed, HistoryKept DEF Steady, Tables
<1>3. CASE SweepAwaiting
  <2>1. UNCHANGED <<runs, history, invocations>>
    BY <1>3 DEF SweepAwaiting, tables
  <2>2. PICK r \in Runs :
          \/ Pass([Idle EXCEPT !.run = r, !.pc = "count"])
          \/ Pass(Finalizing([Idle EXCEPT !.run = r], "CANCELLED", Waiting, "not done"))
    BY <1>3 DEF SweepAwaiting
  <2>3. PICK y : Become(Sweeper, y) /\ Out(y)
    BY <2>2, SweepFinalizing, SweepGoing
  <2> QED BY <1>0, <2>1, <2>3, QuietOut
<1>4. CASE SweepQueued
  <2>1. UNCHANGED <<runs, history, invocations>>
    BY <1>4 DEF SweepQueued, tables
  <2>2. PICK r \in Runs : Pass([Idle EXCEPT !.run = r, !.pc = "enqueue"])
    BY <1>4 DEF SweepQueued
  <2>3. PICK y : Become(Sweeper, y) /\ Out(y)
    BY <2>2, SweepGoing
  <2> QED BY <1>0, <2>1, <2>3, QuietOut
<1>5. CASE SweepStale
  <2>1. PICK r \in Runs :
          /\ Close(RowsAt(r, {"EXECUTING"}), "OUTCOME_UNKNOWN")
          /\ Pass(Finalizing([Idle EXCEPT !.run = r], "FINISHED", {"RUNNING"}, "unknown"))
          /\ UNCHANGED <<runs, history, jobs>>
    BY <1>5 DEF SweepStale
  <2>2. \A i \in DOMAIN invocations : i \in RowsAt(r, {"EXECUTING"}) =>
           MayBecome(invocations[i], "OUTCOME_UNKNOWN")
    BY DEF RowsAt, MayBecome
  <2>3. PICK y : Become(Sweeper, y) /\ Out(y)
    BY <2>1, SweepFinalizing
  <2> QED BY <1>0, <2>1, <2>2, <2>3, ClosingOut
<1> QED BY <1>1, <1>2, <1>3, <1>4, <1>5 DEF SweepStep

LEMMA OtherSteady ==
    ASSUME Typed, Lapse \/ Disallow \/ Crash \/ UNCHANGED vars
    PROVE  Steady
<1>1. CASE Lapse
  <2>1. PICK i \in DOMAIN invocations :
          /\ invocations' = [invocations EXCEPT ![i].due = TRUE]
          /\ UNCHANGED <<runs, history, jobs, actor, outside>>
    BY <1>1 DEF Lapse
  <2>2. \A j \in DOMAIN invocations : invocations[j] \in RowRecord
    BY Lengths
  <2>3. SameRows /\ RowsOn
    BY <2>1, <2>2 DEF SameRows, Grow, RowsOn, MayBecome, RowRecord
  <2> QED BY <2>1, <2>3, SameActors, RunsKept, HistoryKept DEF Steady, Tables
<1>2. CASE Disallow \/ UNCHANGED vars
  <2>1. UNCHANGED <<runs, history, invocations, actor>>
    BY <1>2 DEF Disallow, vars, tables
  <2> QED BY <2>1, SameActors, RunsKept, RowsKept, HistoryKept DEF Steady, Tables
<1>3. CASE Crash
  <2>1. UNCHANGED <<runs, history, invocations>> /\ actor' = [a \in Actors |-> Idle]
    BY <1>3 DEF Crash, tables
  <2>2. ~ InLoopOf(Idle) /\ ~ InStep(Idle) /\ Idle.pc # "model" /\ Idle.pc \notin ClaimPcs
    BY OutIdle DEF Out, InLoopOf, InStep, LoopPcs
  <2>3. LoopOn /\ StepOn /\ ClaimsOn
    BY <2>1, <2>2 DEF LoopOn, StepOn, ClaimsOn
  <2> QED BY <2>1, <2>3, RunsKept, RowsKept, HistoryKept DEF Steady, Tables
<1> QED BY <1>1, <1>2, <1>3
-----------------------------------------------------------------------------
(***************************************************************************)
(* Answers.                                                                 *)
(***************************************************************************)
\* One more answer, about the calls of a message there is.
LEMMA AnswerAppended ==
    ASSUME Typed, NEW m \in MessageRecord, FromRows(m),
           \E g \in DOMAIN history : OfCalls(history[g]) /\ SameCalls(m, history[g])
    PROVE  CallsFrom(Append(history, m)) /\ AnswersFrom(Append(history, m))
<1>1. history \in Seq(MessageRecord)
  BY DEF Typed
<1>2. /\ DOMAIN Append(history, m) = DOMAIN history \cup {Len(history) + 1}
      /\ \A h \in DOMAIN history : Append(history, m)[h] = history[h]
      /\ Append(history, m)[Len(history) + 1] = m
  BY <1>1, Appended
<1>3. CallsFrom(Append(history, m))
  BY <1>2 DEF CallsFrom, SameCalls
<1>4. AnswersFrom(Append(history, m))
  BY <1>2 DEF AnswersFrom, SameCalls
<1> QED BY <1>3, <1>4

\* The answer to the open step is about its calls and says what the rows say.
LEMMA OpenStepAnswered ==
    ASSUME Typed, StepOpen, NEW fallback \in {"not done", "unknown"}, NEW messages,
           messages = LET open == history[Len(history)] IN
                      Append(history, Message("tool", open.run, open.step, open.calls,
                                              OutcomesOf(open, fallback)))
    PROVE  CallsFrom(messages) /\ AnswersFrom(messages)
<1> DEFINE open == history[Len(history)]
           answer == Message("tool", open.run, open.step, open.calls, OutcomesOf(open, fallback))
<1>1. open \in MessageRecord /\ Len(history) \in DOMAIN history /\ OfCalls(open)
  BY OpenStepTyped DEF StepOpen, OfCalls
<1>2. OutcomesOf(open, fallback) \in Seq(Told)
  BY <1>1, OutcomesTyped
<1>3. /\ answer.run = open.run /\ answer.step = open.step
      /\ answer.calls = open.calls /\ answer.told = OutcomesOf(open, fallback)
  BY DEF Message
<1>4. messages = Append(history, answer)
  OBVIOUS
<1>5. open.kind = "step" /\ answer \in MessageRecord
  BY <1>1, <1>2, MessageTyped DEF MessageRecord, StepOpen
<1>6. SameCalls(answer, open)
  BY <1>3 DEF SameCalls
<1>7. FromRows(answer)
  BY <1>1, <1>3, <1>6 DEF FromRows
<1> HIDE DEF answer
<1>8. \E g \in DOMAIN history : OfCalls(history[g]) /\ SameCalls(answer, history[g])
  BY <1>1, <1>6
<1>9. CallsFrom(Append(history, answer)) /\ AnswersFrom(Append(history, answer))
  BY <1>5, <1>7, <1>8, AnswerAppended
<1> QED BY <1>4, <1>9

LEMMA SameMessages == CallsFrom(history) /\ AnswersFrom(history)
BY DEF CallsFrom, AnswersFrom, SameCalls

LEMMA AnswerOn ==
    ASSUME Typed, NEW r, NEW fallback \in {"not done", "unknown"}, AnswerOpenStep(r, fallback)
    PROVE  CallsOn /\ AnswersOn
<1>1. CASE StepOpen
  BY <1>1, OpenStepAnswered DEF AnswerOpenStep, CallsOn, AnswersOn
<1>2. CASE ~ StepOpen
  BY <1>2, SameMessages DEF AnswerOpenStep, CallsOn, AnswersOn
<1> QED BY <1>1, <1>2

LEMMA TellSteady ==
    ASSUME Typed, NEW a \in Actors, Tell(a)
    PROVE  Steady
<1>1. actor[a] \in ActorRecord /\ Holds(a, actor[a], invocations) /\ actor[a].pc = "tell"
  BY ActorFacts DEF Tell, At
<1>2. actor[a].fallback \in {"not done", "unknown"}
  BY <1>1 DEF Holds, ActorRecord, Ending
<1>3. CallsOn /\ AnswersOn
  BY <1>2, AnswerOn DEF Tell
<1>4. LoopOn /\ StepOn /\ ClaimsOn
  BY OutIdle, OutOn DEF Tell, Done
<1>5. UNCHANGED <<runs, invocations>>
  BY DEF Tell
<1> QED BY <1>3, <1>4, <1>5, RunsKept, RowsKept DEF Steady, Tables

LEMMA SubmitSteady ==
    ASSUME Typed, NEW c \in Clients, Submit(c)
    PROVE  Steady
<1> DEFINE user == Message("user", Next1, 0, <<>>, <<>>)
<1>1. CallsFrom(Repaired) /\ AnswersFrom(Repaired)
  <2>1. CASE StepOpen
    BY <2>1, OpenStepAnswered DEF Repaired
  <2>2. CASE ~ StepOpen
    BY <2>2, SameMessages DEF Repaired
  <2> QED BY <2>1, <2>2
<1>2. Repaired \in Seq(MessageRecord)
  BY RepairTyped
<1>3. Next1 \in Runs /\ runs[Next1].status = "NONE"
  BY NextRun DEF Submit, Unborn
<1>4. user \in MessageRecord
  BY <1>3, MessageTyped, EmptySeq
<1>5. user.kind = "user"
  BY DEF Message
<1>6. history' = Append(Repaired, user)
  BY DEF Submit
<1> HIDE DEF user
<1>7. /\ DOMAIN history' = DOMAIN Repaired \cup {Len(Repaired) + 1}
      /\ \A h \in DOMAIN Repaired : history'[h] = Repaired[h]
      /\ history'[Len(Repaired) + 1] = user
  BY <1>2, <1>4, <1>6, Appended
<1>8. CallsOn
  BY <1>1, <1>5, <1>7 DEF CallsOn, CallsFrom, OfCalls
<1>9. AnswersOn
  BY <1>1, <1>5, <1>7 DEF AnswersOn, AnswersFrom
<1>10. StatusOn /\ StepsStay
  <2>1. \A q \in Runs : runs[q] \in RunRecord
    BY DEF Typed
  <2>2. SetStatus(Next1, "QUEUED")
    BY DEF Submit
  <2> QED BY <1>3, <2>1, <2>2 DEF StatusOn, StepsStay, SetStatus, Typed, RunRecord, Going, Terminal
<1>11. LoopOn /\ StepOn /\ ClaimsOn
  <2>1. Become(c, [Idle EXCEPT !.op = "submit", !.pc = "enqueue", !.run = Next1])
    BY DEF Submit, Begin
  <2>2. [Idle EXCEPT !.op = "submit", !.pc = "enqueue", !.run = Next1].pc = "enqueue"
    BY DEF Idle
  <2>3. Out([Idle EXCEPT !.op = "submit", !.pc = "enqueue", !.run = Next1])
    BY <2>2 DEF Out, LoopPcs, InStepPcs, ClaimPcs
  <2> QED BY <2>1, <2>3, SlotsAct, OutOn
<1>12. UNCHANGED invocations
  BY DEF Submit
<1> QED BY <1>8, <1>9, <1>10, <1>11, <1>12, RowsKept DEF Steady, Tables
-----------------------------------------------------------------------------
(***************************************************************************)
(* The loop.                                                                *)
(***************************************************************************)
LEMMA SlotIn ==
    ASSUME Typed, NEW s \in Slots
    PROVE  /\ s \in Actors /\ actor[s] \in ActorRecord /\ Holds(s, actor[s], invocations)
           /\ actor[s].pc \in LoopPcs => InLoopOf(actor[s]) /\ actor[s].run \in Runs
           /\ actor[s].pc \in InStepPcs => InStep(actor[s])
           /\ actor[s].resolved \in Nat /\ actor[s].resolved <= actor[s].resolved
<1>1. s \in Actors /\ actor[s] \in ActorRecord /\ Holds(s, actor[s], invocations)
  BY ActorFacts, SlotsAct
<1>2. actor[s].pc \in LoopPcs => actor[s].op = "drive" /\ actor[s].run \in Runs
  BY <1>1 DEF Holds, LoopPcs, InStepPcs
<1>3. actor[s].resolved \in Nat
  BY <1>1 DEF ActorRecord
<1>4. actor[s].resolved <= actor[s].resolved
  BY <1>3
<1> QED BY <1>1, <1>2, <1>3, <1>4 DEF InLoopOf, InStep, LoopPcs

\* A slot that stays in the loop of its run, between two steps.
LEMMA GuardOn ==
    ASSUME Typed, NEW s \in Slots, actor[s].pc \in LoopPcs, NEW y, Become(s, y),
           y.op = "drive", y.pc = "guard", y.run = actor[s].run
    PROVE  LoopOn /\ StepOn /\ ClaimsOn
<1>1. InLoopOf(actor[s]) /\ s \in Actors
  BY SlotIn
<1>2. ~ InStep(y) /\ y.pc # "model" /\ y.pc \notin ClaimPcs
  BY DEF InStep, InStepPcs, ClaimPcs
<1> QED BY <1>1, <1>2, OneActor

LEMMA GoOnGuard ==
    ASSUME Typed, NEW s \in Slots, actor[s].pc \in LoopPcs, GoOn(s, "guard")
    PROVE  LoopOn /\ StepOn /\ ClaimsOn
<1>1. Become(s, Fresh(actor[s], "guard"))
  BY DEF GoOn
<1>2. /\ Fresh(actor[s], "guard").op = actor[s].op /\ Fresh(actor[s], "guard").pc = "guard"
      /\ Fresh(actor[s], "guard").run = actor[s].run
  BY DEF Fresh, Idle
<1>3. actor[s].op = "drive"
  BY SlotIn DEF InLoopOf
<1> QED BY <1>1, <1>2, <1>3, GuardOn

\* A slot that stays in the step it is at.
LEMMA InStepOn ==
    ASSUME Typed, NEW s \in Slots, actor[s].pc \in InStepPcs, NEW y, Become(s, y),
           y.run = actor[s].run, y.step = actor[s].step, y.calls = actor[s].calls,
           actor[s].resolved <= y.resolved, y.pc # "model"
    PROVE  LoopOn /\ StepOn /\ (y.pc \notin ClaimPcs => ClaimsOn)
<1>1. InLoopOf(actor[s]) /\ InStep(actor[s]) /\ s \in Actors
  BY SlotIn DEF LoopPcs
<1> QED BY <1>1, OneActor

LEMMA LoopSteady ==
    ASSUME Typed, NEW s \in Slots,
           AnswerResume(s) \/ Guard(s) \/ ModelFails(s) \/ Boundary(s) \/ AnswerCall(s)
             \/ FailUnexpectedly(s)
    PROVE  Steady
<1>0. s \in Actors /\ actor[s] \in ActorRecord
  BY SlotIn
<1>1. CASE AnswerResume(s)
  <2>1. actor[s].op = "drive" /\ actor[s].pc \in LoopPcs /\ Become(s, [actor[s] EXCEPT !.pc = "guard"])
    BY <1>1, GoToBecomes DEF AnswerResume, At, LoopPcs
  <2>2. LET y == [actor[s] EXCEPT !.pc = "guard"]
        IN  y.op = actor[s].op /\ y.pc = "guard" /\ y.run = actor[s].run
    BY <1>0 DEF ActorRecord
  <2>3. LoopOn /\ StepOn /\ ClaimsOn
    BY <2>1, <2>2, GuardOn
  <2>4. CallsOn /\ AnswersOn
    BY <1>1, AnswerOn DEF AnswerResume
  <2>5. UNCHANGED <<runs, invocations>>
    BY <1>1 DEF AnswerResume
  <2> QED BY <2>3, <2>4, <2>5, RunsKept, RowsKept DEF Steady, Tables
<1>2. CASE Guard(s)
  <2>1. UNCHANGED <<runs, history, invocations>> /\ actor[s].pc = "guard"
    BY <1>2 DEF Guard, tables, At
  <2>2. CASE Done(s)
    BY <1>0, <2>1, <2>2, OutIdle, QuietOut DEF Done
  <2>3. ASSUME NEW to, Become(s, Finalizing(actor[s], to, {"RUNNING"}, "not done"))
        PROVE  Steady
    BY <1>0, <2>1, <2>3, OutFinalizing, QuietOut
  <2>4. CASE Become(s, [actor[s] EXCEPT !.pc = "model", !.step = runs[actor[s].run].steps])
    <3> DEFINE y == [actor[s] EXCEPT !.pc = "model", !.step = runs[actor[s].run].steps]
    <3>1. y.pc = "model" /\ y.run = actor[s].run /\ y.step = runs[actor[s].run].steps
      BY <1>0 DEF ActorRecord
    <3>2. InLoopOf(actor[s])
      BY <2>1, SlotIn DEF LoopPcs
    <3>3. Become(s, y)
      BY <2>4
    <3> HIDE DEF y
    <3>4. ~ InStep(y) /\ y.pc \notin ClaimPcs
      BY <3>1 DEF InStep, InStepPcs, ClaimPcs
    <3>5. LoopOn /\ StepOn /\ ClaimsOn
      BY <1>0, <3>1, <3>2, <3>3, <3>4, OneActor
    <3> QED BY <2>1, <3>5, RunsKept, RowsKept, HistoryKept DEF Steady, Tables
  <2> QED BY <1>2, <2>2, <2>3, <2>4 DEF Guard
<1>3. CASE ModelFails(s)
  <2>1. UNCHANGED <<runs, history, invocations>>
    BY <1>3 DEF ModelFails, tables
  <2> QED BY <1>0, <1>3, <2>1, OutFinalizing, QuietOut DEF ModelFails
<1>4. CASE Boundary(s)
  <2>1. UNCHANGED <<runs, history, invocations>> /\ actor[s].pc = "boundary"
    BY <1>4 DEF Boundary, tables, At
  <2>2. CASE Done(s)
    BY <1>0, <2>1, <2>2, OutIdle, QuietOut DEF Done
  <2>3. CASE Become(s, Finalizing(actor[s], "CANCELLED", {"RUNNING"}, "not done"))
    BY <1>0, <2>1, <2>3, OutFinalizing, QuietOut
  <2>4. CASE GoTo(s, "resolve")
    <3> DEFINE y == [actor[s] EXCEPT !.pc = "resolve"]
    <3>1. /\ y.pc = "resolve" /\ y.run = actor[s].run /\ y.step = actor[s].step
          /\ y.calls = actor[s].calls /\ y.resolved = actor[s].resolved
      BY <1>0 DEF ActorRecord
    <3>2. Become(s, y)
      BY <2>4, GoToBecomes
    <3> HIDE DEF y
    <3>3. actor[s].pc \in InStepPcs /\ actor[s].resolved <= y.resolved
      BY <2>1, <3>1, SlotIn DEF InStepPcs
    <3>4. LoopOn /\ StepOn /\ ClaimsOn
      BY <3>1, <3>2, <3>3, InStepOn DEF ClaimPcs
    <3> QED BY <2>1, <3>4, RunsKept, RowsKept, HistoryKept DEF Steady, Tables
  <2> QED BY <1>4, <2>2, <2>3, <2>4 DEF Boundary
<1>5. CASE AnswerCall(s)
  <2> DEFINE y == [actor[s] EXCEPT !.resolved = @ + 1]
  <2>1. UNCHANGED <<runs, history, invocations>> /\ Become(s, y) /\ actor[s].pc = "resolve"
    BY <1>5 DEF AnswerCall, tables, Resolving, At
  <2>2. /\ y.pc = actor[s].pc /\ y.run = actor[s].run /\ y.step = actor[s].step
        /\ y.calls = actor[s].calls /\ y.resolved = actor[s].resolved + 1
    BY <1>0 DEF ActorRecord
  <2> HIDE DEF y
  <2>3. actor[s].resolved \in Nat
    BY SlotIn
  <2>4. actor[s].resolved <= y.resolved
    BY <2>2, <2>3
  <2>5. LoopOn /\ StepOn /\ ClaimsOn
    BY <2>1, <2>2, <2>4, InStepOn DEF ClaimPcs, InStepPcs
  <2> QED BY <2>1, <2>5, RunsKept, RowsKept, HistoryKept DEF Steady, Tables
<1>6. CASE FailUnexpectedly(s)
  <2>1. /\ UNCHANGED <<runs, history>> /\ Close(RowsAt(actor[s].run, {"EXECUTING"}), "OUTCOME_UNKNOWN")
        /\ Become(s, Finalizing(actor[s], "FINISHED", {"RUNNING"}, "unknown"))
    BY <1>6 DEF FailUnexpectedly
  <2>2. \A i \in DOMAIN invocations : i \in RowsAt(actor[s].run, {"EXECUTING"}) =>
           MayBecome(invocations[i], "OUTCOME_UNKNOWN")
    BY DEF RowsAt, MayBecome
  <2> QED BY <1>0, <2>1, <2>2, OutFinalizing, ClosingOut DEF Closed
<1> QED BY <1>1, <1>2, <1>3, <1>4, <1>5, <1>6

\* A failing database call leaves the loop, or the call whose outcome it lost.
LEMMA ThrowSteady ==
    ASSUME Typed, NEW a \in Actors, Throw(a)
    PROVE  Steady
<1>1. UNCHANGED <<runs, history>>
  BY DEF Throw
<1>2. \/ UNCHANGED invocations
      \/ \E r : Close(RowsAt(r, {"EXECUTING"}), "OUTCOME_UNKNOWN")
      \/ \E r, i : Close(RowsAt(r, {"EXECUTING"}) \ {i}, "OUTCOME_UNKNOWN")
      \/ \E r, i : Close(RowsAt(r, Waiting) \ {i}, "CANCELLED")
      \/ \E r : \E read \in SUBSET Waiting : Close(RowsAt(r, read), "CANCELLED")
  BY DEF Throw, RecordFails, MarkFails, CloseFails, Waiting
<1>3. SameRows /\ RowsOn
  <2>1. ASSUME NEW rows, NEW st \in Closed \cup {"EXECUTING"}, Close(rows, st),
               \A i \in DOMAIN invocations : i \in rows => MayBecome(invocations[i], st)
        PROVE  SameRows /\ RowsOn
    BY <2>1, RowsClosed
  <2>2. ASSUME NEW r, NEW rows, rows \subseteq RowsAt(r, {"EXECUTING"}), Close(rows, "OUTCOME_UNKNOWN")
        PROVE  SameRows /\ RowsOn
    BY <2>1, <2>2 DEF RowsAt, MayBecome, Closed
  <2>3. ASSUME NEW r, NEW rows, rows \subseteq RowsAt(r, Waiting), Close(rows, "CANCELLED")
        PROVE  SameRows /\ RowsOn
    BY <2>1, <2>3 DEF RowsAt, MayBecome, Closed
  <2>4. \A r : \A read \in SUBSET Waiting : RowsAt(r, read) \subseteq RowsAt(r, Waiting)
    BY DEF RowsAt
  <2>5. CASE UNCHANGED invocations
    BY <2>5, RowsKept
  <2> QED BY <1>2, <2>2, <2>3, <2>4, <2>5
<1>4. LoopOn /\ StepOn /\ ClaimsOn
  <2>1. CASE At(a, "close") /\ GoTo(a, "tell")
    <3>1. [actor[a] EXCEPT !.pc = "tell"].pc = "tell"
      BY DEF Typed, ActorRecord
    <3>2. Out([actor[a] EXCEPT !.pc = "tell"])
      BY <3>1 DEF Out, LoopPcs, InStepPcs, ClaimPcs
    <3> QED BY <2>1, <3>2, GoToBecomes, OutOn
  <2>2. CASE Done(a)
    BY <2>2, OutIdle, OutOn DEF Done
  <2>3. CASE GoOn(a, "unexpected") \/ GoOn(a, "count")
    BY <2>3, OutFresh, OutOn DEF GoOn
  <2>4. CASE Become(a, Finalizing(actor[a], "FINISHED", {"RUNNING"}, "unknown"))
    BY <2>4, OutFinalizing, OutOn
  <2>5. CASE At(a, "record") /\ actor[a].op = "drive" /\ Return(a, "AWAITING_APPROVAL")
    <3> DEFINE y == [actor[a] EXCEPT !.pc = "resolve", !.waits = "AWAITING_APPROVAL",
                                     !.of = 0, !.choice = "none"]
    <3>1. actor[a] \in ActorRecord /\ a \in Slots
      BY <2>5, ActorFacts DEF Holds
    <3>2. /\ y.pc = "resolve" /\ y.run = actor[a].run /\ y.step = actor[a].step
          /\ y.calls = actor[a].calls /\ y.resolved = actor[a].resolved
      BY <3>1 DEF ActorRecord
    <3>3. Become(a, y)
      BY <2>5 DEF Return
    <3> HIDE DEF y
    <3>4. actor[a].resolved <= y.resolved
      BY <3>1, <3>2, SlotIn
    <3> QED BY <2>5, <3>1, <3>2, <3>3, <3>4, InStepOn DEF At, InStepPcs, ClaimPcs
  <2> QED BY <2>1, <2>2, <2>3, <2>4, <2>5 DEF Throw, RecordFails, MarkFails, CloseFails, Escapes
<1> QED BY <1>1, <1>3, <1>4, RunsKept, HistoryKept DEF Steady, Tables
-----------------------------------------------------------------------------
(***************************************************************************)
(* Steps that begin a loop, end one, or go on to the next step of a run.    *)
(***************************************************************************)
\* A slot takes a run that waits in the queue: nobody is in its loop.
LEMMA ClaimKeeps ==
    ASSUME WriteInv, Typed', NEW s \in Slots, Claim(s)
    PROVE  WriteInv'
<1>1. PICK r \in Runs :
        /\ UNCHANGED <<history, invocations>>
        /\ \/ UNCHANGED <<runs, actor>>
           \/ /\ runs[r].status = "QUEUED" /\ SetStatus(r, "RUNNING")
              /\ Become(s, [Idle EXCEPT !.op = "drive", !.pc = "answer", !.run = r])
  BY DEF Claim
<1>2. Typed /\ s \in Actors
  BY SlotsAct DEF WriteInv
<1>3. CASE UNCHANGED <<runs, actor>>
  BY <1>1, <1>2, <1>3, SameActors, RunsKept, RowsKept, HistoryKept, SteadyKeeps DEF Steady, Tables
<1>4. CASE /\ runs[r].status = "QUEUED" /\ SetStatus(r, "RUNNING")
           /\ Become(s, [Idle EXCEPT !.op = "drive", !.pc = "answer", !.run = r])
  <2> DEFINE y == [Idle EXCEPT !.op = "drive", !.pc = "answer", !.run = r]
  <2>1. y.pc = "answer" /\ y.run = r /\ Become(s, y)
    BY <1>4 DEF Idle
  <2> HIDE DEF y
  <2>2. StepOn /\ ClaimsOn
    BY <1>2, <2>1, OneActor DEF InStep, InStepPcs, ClaimPcs
  <2>3. \A b \in Actors : actor'[b] = IF b = s THEN y ELSE actor[b]
    BY <1>2, <2>1 DEF Become, Typed
  <2>4. \A q \in Runs : runs'[q].steps = runs[q].steps /\ runs'[q].status = IF q = r THEN "RUNNING" ELSE runs[q].status
    BY <1>2, <1>4 DEF SetStatus, Typed, RunRecord
  <2>5. \A b \in Actors : InLoopOf(actor[b]) => actor[b].run \in Runs /\ actor[b].run # r
    <3>1. \A b \in Actors : Holds(b, actor[b], invocations)
      BY <1>2 DEF Typed
    <3>2. \A b \in Actors : InLoopOf(actor[b]) => actor[b].run \in Runs
      BY <3>1 DEF Holds, InLoopOf, LoopPcs, InStepPcs
    <3>3. "QUEUED" \notin {"RUNNING"} \cup Terminal
      BY DEF Terminal
    <3>4. \A b \in Actors : InLoopOf(actor[b]) => actor[b].run # r
      BY <1>4, <3>3 DEF WriteInv, Alone
    <3> QED BY <3>2, <3>4
  <2>6. Alone'
    <3>1. ASSUME NEW b \in Actors, InLoopOf(actor'[b])
          PROVE  runs'[actor'[b].run].status \in {"RUNNING"} \cup Terminal
      BY <2>1, <2>3, <2>4, <2>5, <3>1 DEF WriteInv, Alone
    <3>2. ASSUME NEW b \in Actors, NEW c \in Actors, InLoopOf(actor'[b]), InLoopOf(actor'[c]),
                 actor'[b].run = actor'[c].run
          PROVE  b = c
      BY <2>1, <2>3, <2>5, <3>2 DEF WriteInv, Alone
    <3> QED BY <3>1, <3>2 DEF Alone
  <2>7. StepsStay /\ SameRows /\ RowsOn /\ CallsOn /\ AnswersOn
    BY <1>1, <2>4, RowsKept, HistoryKept DEF StepsStay
  <2> QED BY <2>2, <2>6, <2>7, LoopsKept
<1> QED BY <1>1, <1>3, <1>4

\* A message is linked: the messages are about the same calls, and say the same.
LEMMA LinkOn ==
    ASSUME Typed, NEW links,
           history' = [h \in DOMAIN history |->
                         IF h \in links THEN [history[h] EXCEPT !.linked = TRUE] ELSE history[h]]
    PROVE  CallsOn /\ AnswersOn
<1>1. \A h \in DOMAIN history : history[h] \in MessageRecord
  BY Lengths
<1>2. \A h \in DOMAIN history :
        /\ history'[h].kind = history[h].kind /\ history'[h].told = history[h].told
        /\ SameCalls(history'[h], history[h])
  BY <1>1 DEF MessageRecord, SameCalls
<1>3. DOMAIN history' = DOMAIN history
  OBVIOUS
<1> QED BY <1>2, <1>3 DEF CallsOn, AnswersOn, CallsFrom, AnswersFrom, OfCalls

LEMMA OtherStatus ==
    ASSUME Typed, NEW r, NEW status, UNCHANGED runs \/ SetStatus(r, status)
    PROVE  \A q \in Runs :
             runs'[q].steps = runs[q].steps /\ (q # r => runs'[q].status = runs[q].status)
<1>1. \A q \in Runs : runs[q] \in RunRecord
  BY DEF Typed
<1> QED BY <1>1, ZenonT(60) DEF SetStatus, Typed, RunRecord

\* The one slot in the loop of a run leaves it: the run waits.
LEMMA PauseKeeps ==
    ASSUME WriteInv, Typed', NEW s \in Slots, Pause(s)
    PROVE  WriteInv'
<1> DEFINE r == actor[s].run
           links == {h \in DOMAIN history : history[h].kind = "step" /\ history[h].run = r
                                              /\ history[h].step = actor[s].step}
<1>1. Typed /\ s \in Actors /\ actor[s].pc = "resolve"
  BY SlotsAct DEF WriteInv, Pause, AllResolved, At
<1>2. InLoopOf(actor[s]) /\ r \in Runs
  BY <1>1, SlotIn DEF LoopPcs, InStepPcs
<1>3. history' = [h \in DOMAIN history |->
                     IF h \in links THEN [history[h] EXCEPT !.linked = TRUE] ELSE history[h]]
  BY DEF Pause
<1>4. CallsOn /\ AnswersOn
  BY <1>1, <1>3, LinkOn
<1>5. SameRows /\ RowsOn
  BY RowsKept DEF Pause
<1>6. /\ \E y : Become(s, y) /\ Out(y)
      /\ UNCHANGED runs \/ SetStatus(r, actor[s].waits)
  BY OutFresh, OutIdle, OutFinalizing DEF Pause, GoOn, Done
<1>7. LoopOn /\ StepOn /\ ClaimsOn
  BY <1>1, <1>6, OutOn
<1>8. /\ StepsStay
      /\ \A q \in Runs : q # r => runs'[q].status = runs[q].status
  <2>1. \A q \in Runs : runs'[q].steps = runs[q].steps /\ (q # r => runs'[q].status = runs[q].status)
    BY <1>1, <1>6, OtherStatus
  <2> QED BY <2>1 DEF StepsStay
<1>9. Alone'
  <2>1. ~ InLoopOf(actor'[s])
    BY <1>1, <1>6 DEF Become, Typed, Out, InLoopOf
  <2>2. ASSUME NEW b \in Actors, InLoopOf(actor'[b])
        PROVE  runs'[actor'[b].run].status \in {"RUNNING"} \cup Terminal
    <3>1. InLoopOf(actor[b]) /\ actor'[b].run = actor[b].run /\ b # s
      BY <2>1, <2>2, <1>7 DEF LoopOn
    <3>2. actor[b].run # r
      BY <1>1, <1>2, <3>1 DEF WriteInv, Alone
    <3>3. Holds(b, actor[b], invocations)
      BY <1>1, ActorFacts
    <3>4. actor[b].run \in Runs
      BY <3>1, <3>3 DEF Holds, InLoopOf, LoopPcs, InStepPcs
    <3> QED BY <1>8, <3>1, <3>2, <3>4 DEF WriteInv, Alone
  <2>3. ASSUME NEW b \in Actors, NEW c \in Actors, InLoopOf(actor'[b]), InLoopOf(actor'[c]),
               actor'[b].run = actor'[c].run
        PROVE  b = c
    BY <1>7, <2>3 DEF LoopOn, WriteInv, Alone
  <2> QED BY <2>2, <2>3 DEF Alone
<1> QED BY <1>4, <1>5, <1>7, <1>8, <1>9, LoopsKept

LEMMA PersistRuns ==
    ASSUME Typed, NEW r, runs' = [runs EXCEPT ![r].steps = @ + 1]
    PROVE  /\ \A q \in Runs : runs'[q].status = runs[q].status
           /\ \A q \in Runs : runs[q].steps \in Nat /\
                runs'[q].steps = IF q = r THEN runs[q].steps + 1 ELSE runs[q].steps
<1>1. \A q \in Runs : runs[q] \in RunRecord
  BY DEF Typed
<1> QED BY <1>1 DEF Typed, RunRecord

\* The next step of a run: its number is past every row's and every message's.
LEMMA PersistKeeps ==
    ASSUME WriteInv, Typed', NEW s \in Slots, actor[s].pc = "model",
           NEW kind \in {"text", "step"}, NEW calls \in Seq(CallKinds), Persist(s, kind, calls),
           UNCHANGED invocations, NEW y, Become(s, y), y.pc \notin ClaimPcs \cup {"model"},
           InLoopOf(y) => y.run = actor[s].run,
           InStep(y) => y.run = actor[s].run /\ y.step = actor[s].step /\ y.calls = calls
    PROVE  WriteInv'
<1> DEFINE r == actor[s].run
           m == Message(kind, r, actor[s].step, calls, <<>>)
<1>1. Typed /\ s \in Actors /\ InLoopOf(actor[s]) /\ r \in Runs /\ actor[s] \in ActorRecord
  BY SlotsAct, SlotIn DEF WriteInv, LoopPcs
<1>2. /\ m.kind = kind /\ m.run = r /\ m.step = actor[s].step /\ m.calls = calls
  BY DEF Message
<1>3. m \in MessageRecord
  <2>1. actor[s].step \in Nat /\ <<>> \in Seq(Told)
    BY <1>1, EmptySeq DEF ActorRecord
  <2> QED BY <1>1, <2>1, MessageTyped
<1>4. history' = Append(history, m) /\ runs' = [runs EXCEPT ![r].steps = @ + 1]
  BY DEF Persist
<1>5. actor[s].step = runs[r].steps
  BY <1>1 DEF WriteInv, Keyed
<1> HIDE DEF m
<1>6. /\ DOMAIN history' = DOMAIN history \cup {Len(history) + 1}
      /\ \A h \in DOMAIN history : history'[h] = history[h]
      /\ history'[Len(history) + 1] = m
  <2>1. history \in Seq(MessageRecord)
    BY <1>1 DEF Typed
  <2> QED BY <1>3, <1>4, <2>1, Appended
<1>7. /\ \A q \in Runs : runs'[q].status = runs[q].status
      /\ \A q \in Runs : runs[q].steps \in Nat /\ runs'[q].steps = IF q = r THEN runs[q].steps + 1 ELSE runs[q].steps
  BY <1>1, <1>4, PersistRuns
<1>8. \A b \in Actors : actor'[b] = IF b = s THEN y ELSE actor[b]
  BY <1>1 DEF Become, Typed
<1>9. \A b \in Actors : InLoopOf(actor[b]) => actor[b].run \in Runs /\ (b # s => actor[b].run # r)
  <2>1. \A b \in Actors : Holds(b, actor[b], invocations)
    BY <1>1, ActorFacts
  <2> QED BY <1>1, <2>1 DEF Holds, InLoopOf, LoopPcs, InStepPcs, WriteInv, Alone
<1>10. LoopOn /\ ClaimsOn
  BY <1>1, <1>8 DEF LoopOn, ClaimsOn
<1>11. Alone'
  BY <1>1, <1>7, <1>10, AloneFrame DEF StatusOn, WriteInv
<1>12. Keyed'
  <2>1. \A i \in DOMAIN invocations : invocations[i] \in RowRecord /\ invocations[i].run \in Runs
    BY <1>1, RowFacts
  <2>2. \A i \in DOMAIN invocations : invocations[i].step < runs'[invocations[i].run].steps
    <3>1. \A i \in DOMAIN invocations : invocations[i].step < runs[invocations[i].run].steps
      BY DEF WriteInv, Keyed
    <3>2. \A i \in DOMAIN invocations : invocations[i].step \in Nat
      BY <2>1 DEF RowRecord
    <3> QED BY <1>7, <2>1, <3>1, <3>2
  <2>3. ASSUME NEW b \in Actors, actor'[b].pc = "model"
        PROVE  actor'[b].step = runs'[actor'[b].run].steps
    <3>1. b # s /\ actor'[b] = actor[b] /\ actor[b].pc = "model"
      BY <1>8, <2>3
    <3>2. Holds(b, actor[b], invocations)
      BY <1>1, ActorFacts
    <3>3. InLoopOf(actor[b])
      BY <3>1, <3>2, SlotIn, <1>1 DEF Holds, DriveOnly, LoopPcs
    <3> QED BY <1>7, <1>9, <3>1, <3>3 DEF WriteInv, Keyed
  <2>4. ASSUME NEW b \in Actors, InStep(actor'[b])
        PROVE  /\ actor'[b].step < runs'[actor'[b].run].steps
               /\ \A i \in DOMAIN invocations :
                    OfStep(invocations[i], actor'[b].run, actor'[b].step) => invocations[i].call <= actor'[b].resolved
    <3>1. CASE b = s
      <4>1. actor'[b].run = r /\ actor'[b].step = runs[r].steps
        BY <1>5, <1>8, <2>4, <3>1
      <4>2. runs[r].steps < runs'[r].steps
        BY <1>1, <1>7
      <4>3. \A i \in DOMAIN invocations : ~ OfStep(invocations[i], r, runs[r].steps)
        <5>1. ~ (runs[r].steps < runs[r].steps)
          BY <1>1, <1>7
        <5> QED BY <5>1 DEF WriteInv, Keyed, OfStep
      <4> QED BY <4>1, <4>2, <4>3
    <3>2. CASE b # s
      <4>1. actor'[b] = actor[b] /\ InStep(actor[b]) /\ InLoopOf(actor[b])
        BY <1>8, <2>4, <3>2 DEF InStep, InLoopOf, LoopPcs
      <4>2. runs'[actor[b].run].steps = runs[actor[b].run].steps
        BY <1>7, <1>9, <3>2, <4>1
      <4> QED BY <4>1, <4>2 DEF WriteInv, Keyed
    <3> QED BY <3>1, <3>2
  <2>5. invocations' = invocations
    OBVIOUS
  <2> QED BY <2>2, <2>3, <2>4, <2>5 DEF WriteInv, Keyed
<1>13. Claimed'
  BY <1>1, <1>10, RowsKept, ClaimedFrame DEF WriteInv, SameRows
<1>14. Answered'
  <2>1. \A h \in DOMAIN history : OfCalls(history[h]) =>
            history[h].run \in Runs /\ history[h].step \in Nat /\ history[h].step < runs[history[h].run].steps
    BY <1>1, Lengths DEF WriteInv, Answered, MessageRecord
  <2>2. ASSUME NEW h \in DOMAIN history', OfCalls(history'[h])
        PROVE  history'[h].step < runs'[history'[h].run].steps
    <3>1. runs[r].steps < runs'[r].steps
      BY <1>1, <1>7
    <3>2. CASE h \in DOMAIN history
      <4>1. history'[h] = history[h]
        BY <1>6, <3>2
      <4>2. /\ history[h].run \in Runs /\ history[h].step \in Nat
            /\ history[h].step < runs[history[h].run].steps
        BY <2>1, <2>2, <3>2, <4>1
      <4>3. runs[history[h].run].steps \in Nat /\ runs[history[h].run].steps <= runs'[history[h].run].steps
        BY <1>7, <4>2
      <4>4. runs'[history[h].run].steps \in Nat
        BY <1>7, <4>2
      <4>5. \A x, z, w \in Nat : x < z /\ z <= w => x < w
        OBVIOUS
      <4> QED BY <4>1, <4>2, <4>3, <4>4, <4>5
    <3>3. CASE h \notin DOMAIN history
      BY <1>2, <1>5, <1>6, <3>1, <3>3
    <3> QED BY <3>2, <3>3
  <2>3. ASSUME NEW b \in Actors, NEW h \in DOMAIN history', InStep(actor'[b]), OfCalls(history'[h]),
               history'[h].run = actor'[b].run, history'[h].step = actor'[b].step
        PROVE  history'[h].calls = actor'[b].calls
    <3>1. CASE b = s
      <4>1. y.run = r /\ y.step = runs[r].steps /\ y.calls = calls /\ actor'[b] = y
        BY <1>5, <1>8, <2>3, <3>1
      <4>2. ~ (runs[r].steps < runs[r].steps)
        BY <1>1, <1>7
      <4>3. h \notin DOMAIN history
        BY <1>6, <2>1, <2>3, <4>1, <4>2
      <4> QED BY <1>2, <1>6, <4>1, <4>3
    <3>2. CASE b # s
      <4>1. actor'[b] = actor[b] /\ InStep(actor[b]) /\ InLoopOf(actor[b])
        BY <1>8, <2>3, <3>2 DEF InStep, InLoopOf, LoopPcs
      <4>2. actor[b].run # r
        BY <1>9, <3>2, <4>1
      <4>3. h \in DOMAIN history
        BY <1>2, <1>6, <2>3, <4>1, <4>2
      <4> QED BY <1>6, <2>3, <4>1, <4>3 DEF WriteInv, Answered
    <3> QED BY <3>1, <3>2
  <2>4. ASSUME NEW i \in DOMAIN invocations, NEW h \in DOMAIN history', OfCalls(history'[h]),
               OfStep(invocations[i], history'[h].run, history'[h].step)
        PROVE  invocations[i].call \in DOMAIN history'[h].calls
    <3>1. CASE h \in DOMAIN history
      BY <1>6, <2>4, <3>1 DEF WriteInv, Answered
    <3>2. CASE h \notin DOMAIN history
      <4>1. OfStep(invocations[i], r, runs[r].steps)
        BY <1>2, <1>5, <1>6, <2>4, <3>2
      <4>2. ~ (runs[r].steps < runs[r].steps)
        BY <1>1, <1>7
      <4> QED BY <4>1, <4>2 DEF WriteInv, Keyed, OfStep
    <3> QED BY <3>1, <3>2
  <2>5. ToldRight(history', invocations')
    <3>1. AnswersOn
      BY <1>2, <1>6 DEF AnswersOn, AnswersFrom, SameCalls
    <3> QED BY <1>1, <3>1, RowsKept, RowsKeepDone, AnsweredTold DEF WriteInv, Answered, SameRows
  <2>6. invocations' = invocations
    OBVIOUS
  <2> QED BY <2>2, <2>3, <2>4, <2>5, <2>6 DEF Answered
<1> QED BY <1>11, <1>12, <1>13, <1>14 DEF WriteInv

LEMMA ModelKeeps ==
    ASSUME WriteInv, Typed', NEW s \in Slots, ModelSpeaks(s) \/ ModelCalls(s)
    PROVE  WriteInv'
<1>1. Typed /\ s \in Actors /\ actor[s] \in ActorRecord
  BY SlotIn DEF WriteInv
<1>2. \A to : LET y == Finalizing(actor[s], to, {"RUNNING"}, "not done")
              IN  y.pc \notin ClaimPcs \cup {"model"} /\ ~ InLoopOf(y) /\ ~ InStep(y)
  BY OutFinalizing DEF Out, InLoopOf, InStep, LoopPcs
<1>3. CASE ModelSpeaks(s)
  <2>1. /\ actor[s].pc = "model" /\ Persist(s, "text", <<>>) /\ UNCHANGED invocations
        /\ \/ Become(s, Finalizing(actor[s], "FINISHED", {"RUNNING"}, "not done"))
           \/ Become(s, Fresh(actor[s], "guard"))
    BY <1>3 DEF ModelSpeaks, At, GoOn
  <2>2. <<>> \in Seq(CallKinds)
    BY EmptySeq
  <2>3. CASE Become(s, Finalizing(actor[s], "FINISHED", {"RUNNING"}, "not done"))
    BY <1>2, <2>1, <2>2, <2>3, PersistKeeps
  <2>4. CASE Become(s, Fresh(actor[s], "guard"))
    <3>1. Fresh(actor[s], "guard").pc = "guard" /\ Fresh(actor[s], "guard").run = actor[s].run
      BY DEF Fresh, Idle
    <3>2. ~ InStep(Fresh(actor[s], "guard")) /\ Fresh(actor[s], "guard").pc \notin ClaimPcs \cup {"model"}
      BY <3>1 DEF InStep, InStepPcs, ClaimPcs
    <3> QED BY <2>1, <2>2, <2>4, <3>1, <3>2, PersistKeeps
  <2> QED BY <2>1, <2>3, <2>4
<1>4. CASE ModelCalls(s)
  <2>1. PICK calls \in CallSets :
          /\ Persist(s, "step", calls)
          /\ \/ Become(s, Finalizing(actor[s], "FINISHED", {"RUNNING"}, "not done"))
             \/ Become(s, [actor[s] EXCEPT !.pc = "boundary", !.calls = calls,
                                           !.resolved = 0, !.waits = "none"])
    BY <1>4 DEF ModelCalls
  <2>2. actor[s].pc = "model" /\ UNCHANGED invocations
    BY <1>4 DEF ModelCalls, At
  <2>3. calls \in Seq(CallKinds)
    BY AssistantAssumption DEF CallKinds
  <2>4. CASE Become(s, Finalizing(actor[s], "FINISHED", {"RUNNING"}, "not done"))
    BY <1>2, <2>1, <2>2, <2>3, <2>4, PersistKeeps
  <2>5. CASE Become(s, [actor[s] EXCEPT !.pc = "boundary", !.calls = calls,
                                        !.resolved = 0, !.waits = "none"])
    <3> DEFINE y == [actor[s] EXCEPT !.pc = "boundary", !.calls = calls, !.resolved = 0, !.waits = "none"]
    <3>1. y.pc = "boundary" /\ y.run = actor[s].run /\ y.step = actor[s].step /\ y.calls = calls
      BY <1>1 DEF ActorRecord
    <3>2. Become(s, y)
      BY <2>5
    <3> HIDE DEF y
    <3>3. y.pc \notin ClaimPcs \cup {"model"}
      BY <3>1 DEF ClaimPcs
    <3> QED BY <2>1, <2>2, <2>3, <3>1, <3>2, <3>3, PersistKeeps
  <2> QED BY <2>1, <2>4, <2>5
<1> QED BY <1>3, <1>4
-----------------------------------------------------------------------------
(***************************************************************************)
(* A row is opened.                                                         *)
(***************************************************************************)
LEMMA OpenKeeps ==
    ASSUME WriteInv, Typed', NEW s \in Slots, NEW kind \in {"write", "form"},
           Resolving(s, kind), NEW status \in Waiting,
           OpenRow(s, kind, status), UNCHANGED <<runs, history>>,
           NEW y, Become(s, y), y.pc \in {"resolve", "approve"}, y.run = actor[s].run,
           y.step = actor[s].step, y.calls = actor[s].calls, y.resolved = actor[s].resolved + 1
    PROVE  WriteInv'
<1> DEFINE r == actor[s].run
           row == [run |-> r, step |-> actor[s].step, call |-> actor[s].resolved + 1,
                   kind |-> kind, status |-> status, due |-> FALSE, done |-> 0]
<1>1. Typed /\ s \in Actors /\ actor[s].pc = "resolve"
  BY SlotsAct DEF WriteInv, Resolving, At
<1>2. /\ InLoopOf(actor[s]) /\ InStep(actor[s]) /\ r \in Runs /\ actor[s] \in ActorRecord
      /\ actor[s].resolved \in Nat
  BY <1>1, SlotIn DEF LoopPcs, InStepPcs
<1>3. /\ row.run = r /\ row.step = actor[s].step /\ row.call = actor[s].resolved + 1
      /\ row.status = status /\ row.done = 0
  OBVIOUS
<1>4. row \in RowRecord
  <2>1. actor[s].resolved + 1 \in Nat \ {0}
    BY <1>2
  <2>2. actor[s].step \in Nat
    BY <1>2 DEF ActorRecord
  <2> QED BY <1>2, <2>1, <2>2 DEF RowRecord, Undecided
<1>5. invocations' = Append(invocations, row)
  BY DEF OpenRow
<1>6. actor[s].resolved + 1 \in 1 .. Len(actor[s].calls) /\ actor[s].resolved <= actor[s].resolved + 1
      /\ ~ (actor[s].resolved + 1 <= actor[s].resolved)
  <2>1. actor[s].calls \in Seq(CallKinds)
    BY <1>2 DEF ActorRecord
  <2>2. Len(actor[s].calls) \in Nat
    BY <2>1, LenProperties
  <2>3. actor[s].resolved < Len(actor[s].calls)
    BY DEF Resolving
  <2> QED BY <1>2, <2>2, <2>3
<1> HIDE DEF row
<1>7. /\ DOMAIN invocations' = DOMAIN invocations \cup {Len(invocations) + 1}
      /\ \A i \in DOMAIN invocations : invocations'[i] = invocations[i]
      /\ invocations'[Len(invocations) + 1] = row
      /\ Len(invocations) + 1 \notin DOMAIN invocations
  <2>1. invocations \in Seq(RowRecord)
    BY <1>1 DEF Typed
  <2> QED BY <1>4, <1>5, <2>1, Appended
<1>8. Grow(invocations, invocations') /\ RowsOn /\ DoneKept
  BY <1>3, <1>7 DEF Grow, RowsOn, DoneKept, MayBecome
<1>9. LoopOn /\ StepOn /\ ClaimsOn
  BY <1>1, <1>6, InStepOn DEF ClaimPcs, InStepPcs
<1>10. StatusOn /\ StepsStay /\ CallsOn /\ AnswersOn
  BY RunsKept, HistoryKept
<1>11. Alone'
  BY <1>1, <1>9, <1>10, AloneFrame DEF WriteInv
<1>12. \A b \in Actors : actor'[b] = IF b = s THEN y ELSE actor[b]
  BY <1>1 DEF Become, Typed
<1>13. \A b \in Actors : InStep(actor'[b]) /\ b # s => InStep(actor[b]) /\ actor[b].run # r
  BY <1>1, <1>2, <1>12 DEF WriteInv, Alone, InStep, InLoopOf, LoopPcs
<1>14. Keyed'
  <2>1. ASSUME NEW i \in DOMAIN invocations'
        PROVE  invocations'[i].step < runs'[invocations'[i].run].steps
    <3>1. actor[s].step < runs[r].steps
      BY <1>1, <1>2 DEF WriteInv, Keyed
    <3>2. \A j \in DOMAIN invocations : invocations[j].step < runs[invocations[j].run].steps
      BY DEF WriteInv, Keyed
    <3> QED BY <1>3, <1>7, <3>1, <3>2
  <2>2. \A j \in DOMAIN invocations : ~ SameKey(invocations[j], row) /\ ~ SameKey(row, invocations[j])
    <3>1. \A j \in DOMAIN invocations : OfStep(invocations[j], r, actor[s].step) =>
              invocations[j].call <= actor[s].resolved
      BY <1>1, <1>2 DEF WriteInv, Keyed
    <3> QED BY <1>3, <1>6, <3>1 DEF SameKey, OfStep
  <2>3. ASSUME NEW i \in DOMAIN invocations', NEW j \in DOMAIN invocations',
               SameKey(invocations'[i], invocations'[j])
        PROVE  i = j
    BY <1>7, <2>2, <2>3 DEF WriteInv, Keyed
  <2>4. ASSUME NEW b \in Actors, actor'[b].pc = "model"
        PROVE  actor'[b].step = runs'[actor'[b].run].steps
    BY <1>12, <2>4 DEF WriteInv, Keyed
  <2>5. ASSUME NEW b \in Actors, InStep(actor'[b])
        PROVE  /\ actor'[b].step < runs'[actor'[b].run].steps
               /\ \A i \in DOMAIN invocations' :
                    OfStep(invocations'[i], actor'[b].run, actor'[b].step) =>
                      invocations'[i].call <= actor'[b].resolved
    <3>1. CASE b = s
      <4>1. actor'[b].run = r /\ actor'[b].step = actor[s].step /\ actor'[b].resolved = actor[s].resolved + 1
        BY <1>12, <3>1
      <4>2. actor[s].step < runs[r].steps
        BY <1>1, <1>2 DEF WriteInv, Keyed
      <4>3. ASSUME NEW i \in DOMAIN invocations', OfStep(invocations'[i], r, actor[s].step)
            PROVE  invocations'[i].call <= actor[s].resolved + 1
        <5>1. CASE i \in DOMAIN invocations
          <6>1. invocations[i].call <= actor[s].resolved
            BY <1>1, <1>2, <1>7, <4>3, <5>1 DEF WriteInv, Keyed
          <6>2. invocations[i].call \in Nat
            BY <1>1, <5>1, RowFacts DEF RowRecord
          <6>3. invocations'[i] = invocations[i]
            BY <1>7, <5>1
          <6> QED BY <1>2, <6>1, <6>2, <6>3
        <5>2. CASE i \notin DOMAIN invocations
          <6>1. invocations'[i].call = actor[s].resolved + 1
            BY <1>3, <1>7, <5>2
          <6> QED BY <1>2, <6>1
        <5> QED BY <5>1, <5>2
      <4> QED BY <4>1, <4>2, <4>3
    <3>2. CASE b # s
      <4>1. actor'[b] = actor[b] /\ InStep(actor[b]) /\ actor[b].run # r
        BY <1>12, <1>13, <2>5, <3>2
      <4>2. \A i \in DOMAIN invocations' : OfStep(invocations'[i], actor[b].run, actor[b].step) =>
                i \in DOMAIN invocations /\ invocations'[i] = invocations[i]
        BY <1>3, <1>7, <4>1 DEF OfStep
      <4> QED BY <4>1, <4>2 DEF WriteInv, Keyed
    <3> QED BY <3>1, <3>2
  <2> QED BY <2>1, <2>3, <2>4, <2>5 DEF Keyed
<1>15. NewRowsFit
  <2>1. SUFFICES ASSUME NEW h \in DOMAIN history, OfCalls(history[h]),
                        OfStep(row, history[h].run, history[h].step)
                 PROVE  row.call \in DOMAIN history[h].calls
    BY <1>7 DEF NewRowsFit
  <2>2. history[h].calls = actor[s].calls
    BY <1>1, <1>2, <1>3, <2>1 DEF WriteInv, Answered, OfStep
  <2>3. actor[s].calls \in Seq(CallKinds)
    BY <1>2 DEF ActorRecord
  <2>4. DOMAIN actor[s].calls = 1 .. Len(actor[s].calls)
    BY <2>3, LenProperties
  <2> QED BY <1>3, <1>6, <2>2, <2>4
<1>16. Claimed' /\ Answered'
  BY <1>1, <1>8, <1>9, <1>10, <1>15, ClaimedFrame, AnsweredFrame DEF WriteInv
<1> QED BY <1>11, <1>14, <1>16 DEF WriteInv

LEMMA OpeningKeeps ==
    ASSUME WriteInv, Typed', NEW s \in Slots, Propose(s) \/ RequestInput(s)
    PROVE  WriteInv'
<1>1. actor[s] \in ActorRecord
  BY SlotIn DEF WriteInv
<1>2. \E kind \in {"write", "form"}, status \in Waiting :
        /\ Resolving(s, kind) /\ OpenRow(s, kind, status)
        /\ Resolved(s, status) \/ Deciding(s)
        /\ UNCHANGED <<runs, history>>
  BY DEF Propose, RequestInput, Waiting
<1>3. PICK kind \in {"write", "form"}, status \in Waiting :
        /\ Resolving(s, kind) /\ OpenRow(s, kind, status)
        /\ Resolved(s, status) \/ Deciding(s)
        /\ UNCHANGED <<runs, history>>
  BY <1>2
<1>4. actor[s].pc = "resolve"
  BY <1>3 DEF Resolving, At
<1>5. \E y : /\ Become(s, y) /\ y.pc \in {"resolve", "approve"} /\ y.run = actor[s].run
             /\ y.step = actor[s].step /\ y.calls = actor[s].calls
             /\ y.resolved = actor[s].resolved + 1
  <2>1. CASE Resolved(s, status)
    <3> DEFINE y == [actor[s] EXCEPT !.resolved = @ + 1, !.waits = status]
    <3>1. /\ y.pc = actor[s].pc /\ y.run = actor[s].run /\ y.step = actor[s].step
          /\ y.calls = actor[s].calls /\ y.resolved = actor[s].resolved + 1
      BY <1>1 DEF ActorRecord
    <3>2. Become(s, y)
      BY <2>1 DEF Resolved
    <3> HIDE DEF y
    <3> QED BY <1>4, <3>1, <3>2
  <2>2. CASE Deciding(s)
    <3> DEFINE y == [actor[s] EXCEPT !.resolved = @ + 1, !.pc = "approve", !.of = Len(invocations) + 1]
    <3>1. /\ y.pc = "approve" /\ y.run = actor[s].run /\ y.step = actor[s].step
          /\ y.calls = actor[s].calls /\ y.resolved = actor[s].resolved + 1
      BY <1>1 DEF ActorRecord
    <3>2. Become(s, y)
      BY <2>2 DEF Deciding
    <3> HIDE DEF y
    <3> QED BY <3>1, <3>2
  <2> QED BY <1>3, <2>1, <2>2
<1> QED BY <1>3, <1>5, OpenKeeps
-----------------------------------------------------------------------------
(***************************************************************************)
(* The results of a step.                                                   *)
(***************************************************************************)
LEMMA AppendKeeps ==
    ASSUME WriteInv, Typed', NEW s \in Slots, AppendResults(s)
    PROVE  WriteInv'
<1> DEFINE r == actor[s].run
           of == [Message("step", r, actor[s].step, actor[s].calls, <<>>) EXCEPT !.linked = TRUE]
           m == Message("tool", r, actor[s].step, actor[s].calls, OutcomesOf(of, "not done"))
<1>1. /\ Typed /\ s \in Actors /\ actor[s].pc = "resolve" /\ GoOn(s, "guard")
      /\ actor[s].resolved = Len(actor[s].calls) /\ UNCHANGED <<runs, invocations>>
      /\ history' = Append(history, m)
  BY SlotsAct DEF WriteInv, AppendResults, AllResolved, At
<1>2. InLoopOf(actor[s]) /\ InStep(actor[s]) /\ r \in Runs /\ actor[s] \in ActorRecord
  BY <1>1, SlotIn DEF LoopPcs, InStepPcs
<1>3. /\ of.run = r /\ of.step = actor[s].step /\ of.calls = actor[s].calls
      /\ m.kind = "tool" /\ m.run = r /\ m.step = actor[s].step /\ m.calls = actor[s].calls
      /\ m.told = OutcomesOf(of, "not done")
  BY DEF Message
<1>4. of \in MessageRecord
  <2>1. actor[s].step \in Nat /\ actor[s].calls \in Seq(CallKinds) /\ <<>> \in Seq(Told)
    BY <1>2, EmptySeq DEF ActorRecord
  <2>2. Message("step", r, actor[s].step, actor[s].calls, <<>>) \in MessageRecord
    BY <1>2, <2>1, MessageTyped
  <2> QED BY <2>2 DEF MessageRecord
<1>5. m \in MessageRecord
  <2>1. actor[s].step \in Nat /\ actor[s].calls \in Seq(CallKinds)
    BY <1>2 DEF ActorRecord
  <2>2. OutcomesOf(of, "not done") \in Seq(Told)
    BY <1>1, <1>4, OutcomesTyped
  <2> QED BY <1>2, <2>1, <2>2, MessageTyped
<1>6. FromRows(m)
  BY <1>3, <1>4 DEF FromRows, SameCalls
<1> HIDE DEF m, of
<1>7. /\ DOMAIN history' = DOMAIN history \cup {Len(history) + 1}
      /\ \A h \in DOMAIN history : history'[h] = history[h]
      /\ history'[Len(history) + 1] = m
  <2>1. history \in Seq(MessageRecord)
    BY <1>1 DEF Typed
  <2> QED BY <1>1, <1>5, <2>1, Appended
<1>8. LoopOn /\ StepOn /\ ClaimsOn
  BY <1>1, GoOnGuard DEF LoopPcs, InStepPcs
<1>9. StatusOn /\ StepsStay /\ SameRows /\ RowsOn /\ DoneKept
  BY <1>1, RunsKept, RowsKept, RowsKeepDone
<1>10. Alone' /\ Keyed' /\ Claimed'
  BY <1>1, <1>8, <1>9, AloneFrame, KeyedFrame, ClaimedFrame DEF WriteInv, SameRows
<1>11. AnswersOn
  BY <1>6, <1>7 DEF AnswersOn, AnswersFrom, SameCalls
<1>12. ASSUME NEW h \in DOMAIN history', OfCalls(history'[h])
       PROVE  history'[h].step < runs'[history'[h].run].steps
  <2>1. CASE h \in DOMAIN history
    BY <1>1, <1>7, <1>12, <2>1 DEF WriteInv, Answered
  <2>2. CASE h \notin DOMAIN history
    <3>1. actor[s].step < runs[r].steps
      BY <1>1, <1>2 DEF WriteInv, Keyed
    <3>2. history'[h] = m
      BY <1>7, <2>2
    <3> QED BY <1>1, <1>3, <3>1, <3>2
  <2> QED BY <2>1, <2>2
<1>13. ASSUME NEW b \in Actors, NEW h \in DOMAIN history', InStep(actor'[b]), OfCalls(history'[h]),
              history'[h].run = actor'[b].run, history'[h].step = actor'[b].step
       PROVE  history'[h].calls = actor'[b].calls
  <2>1. /\ InStep(actor[b]) /\ actor'[b].run = actor[b].run
        /\ actor'[b].step = actor[b].step /\ actor'[b].calls = actor[b].calls
    BY <1>8, <1>13 DEF StepOn
  <2>2. CASE h \in DOMAIN history
    BY <1>7, <1>13, <2>1, <2>2 DEF WriteInv, Answered
  <2>3. CASE h \notin DOMAIN history
    <3>1. history'[h] = m
      BY <1>7, <2>3
    <3>2. actor[b].run = r
      BY <1>3, <1>13, <2>1, <3>1
    <3>3. b = s
      BY <1>1, <1>2, <2>1, <3>2 DEF WriteInv, Alone, InStep, InLoopOf, LoopPcs
    <3> QED BY <1>3, <2>1, <3>1, <3>3
  <2> QED BY <2>2, <2>3
<1>14. ASSUME NEW i \in DOMAIN invocations, NEW h \in DOMAIN history', OfCalls(history'[h]),
              OfStep(invocations[i], history'[h].run, history'[h].step)
       PROVE  invocations[i].call \in DOMAIN history'[h].calls
  <2>1. CASE h \in DOMAIN history
    BY <1>7, <1>14, <2>1 DEF WriteInv, Answered
  <2>2. CASE h \notin DOMAIN history
    <3>1. history'[h] = m
      BY <1>7, <2>2
    <3>2. invocations[i].call <= actor[s].resolved
      BY <1>1, <1>2, <1>3, <1>14, <3>1 DEF WriteInv, Keyed
    <3>3. invocations[i].call \in Nat \ {0}
      BY <1>1, RowFacts DEF RowRecord
    <3>4. actor[s].calls \in Seq(CallKinds)
      BY <1>2 DEF ActorRecord
    <3>5. DOMAIN actor[s].calls = 1 .. Len(actor[s].calls) /\ Len(actor[s].calls) \in Nat
      BY <3>4, LenProperties
    <3>6. invocations[i].call \in 1 .. Len(actor[s].calls)
      BY <1>1, <3>2, <3>3, <3>5
    <3> QED BY <1>3, <3>1, <3>5, <3>6
  <2> QED BY <2>1, <2>2
<1>15. ToldRight(history', invocations')
  BY <1>1, <1>9, <1>11, AnsweredTold DEF WriteInv, Answered, SameRows
<1>16. Answered'
  BY <1>1, <1>12, <1>13, <1>14, <1>15 DEF Answered
<1> QED BY <1>10, <1>16 DEF WriteInv
-----------------------------------------------------------------------------
(***************************************************************************)
(* Who claims a row.                                                        *)
(***************************************************************************)
\* One actor and its row move; nobody else has claimed that row.
LEMMA ClaimMoves ==
    ASSUME Typed, Claimed, NEW a \in Actors, NEW i \in DOMAIN invocations, NEW y, Become(a, y),
           y.pc \in ClaimPcs => y.of = i,
           \A b \in Actors \ {a} : actor[b].pc \in ClaimPcs => actor[b].of # i,
           DOMAIN invocations' = DOMAIN invocations,
           \A j \in DOMAIN invocations \ {i} : invocations'[j] = invocations[j],
           y.pc \in ClaimPcs => invocations'[i].status \in {"EXECUTING", "OUTCOME_UNKNOWN"},
           y.pc \in {"execute", "unrecorded"} => invocations'[i].done = 0,
           y.pc = "record" /\ y.choice = "SUCCEEDED" => invocations'[i].done = 1,
           y.pc = "record" /\ y.choice = "EXPIRED" => invocations'[i].done = 0,
           invocations'[i].done <= 1,
           invocations'[i].status \in Untouched => invocations'[i].done = 0,
           invocations'[i].kind = "write" /\ invocations'[i].status = "SUCCEEDED" => invocations'[i].done = 1
    PROVE  Claimed'
<1>1. \A b \in Actors : actor'[b] = IF b = a THEN y ELSE actor[b]
  BY DEF Become, Typed
<1>2. ASSUME NEW b \in Actors, NEW c \in Actors, actor'[b].pc \in ClaimPcs,
             actor'[c].pc \in ClaimPcs, actor'[b].of = actor'[c].of
      PROVE  b = c
  BY <1>1, <1>2 DEF Claimed
<1>3. ASSUME NEW b \in Actors, actor'[b].pc \in ClaimPcs
      PROVE  /\ invocations'[actor'[b].of].status \in {"EXECUTING", "OUTCOME_UNKNOWN"}
             /\ actor'[b].pc \in {"execute", "unrecorded"} => invocations'[actor'[b].of].done = 0
             /\ actor'[b].pc = "record" /\ actor'[b].choice = "SUCCEEDED" =>
                  invocations'[actor'[b].of].done = 1
             /\ actor'[b].pc = "record" /\ actor'[b].choice = "EXPIRED" =>
                  invocations'[actor'[b].of].done = 0
  <2>1. CASE b = a
    BY <1>1, <1>3, <2>1
  <2>2. CASE b # a
    <3>1. actor'[b] = actor[b] /\ actor[b].pc \in ClaimPcs
      BY <1>1, <1>3, <2>2
    <3>2. Holds(b, actor[b], invocations) /\ actor[b].pc \in OfRow
      BY <3>1, ActorFacts DEF ClaimPcs, OfRow, OfWrite
    <3>3. actor[b].of \in DOMAIN invocations \ {i}
      BY <2>2, <3>1, <3>2 DEF Holds
    <3> QED BY <3>1, <3>3 DEF Claimed
  <2> QED BY <2>1, <2>2
<1>4. ASSUME NEW j \in DOMAIN invocations'
      PROVE  /\ invocations'[j].done <= 1
             /\ invocations'[j].status \in Untouched => invocations'[j].done = 0
             /\ invocations'[j].kind = "write" /\ invocations'[j].status = "SUCCEEDED" =>
                  invocations'[j].done = 1
  BY <1>4 DEF Claimed
<1> QED BY <1>2, <1>3, <1>4 DEF Claimed

\* The rest of the invariant, when the loop and the messages stay as they are.
LEMMA ClaimsKeep ==
    ASSUME WriteInv, Typed', Claimed', LoopOn, StepOn, SameRows, DoneKept, UNCHANGED <<runs, history>>
    PROVE  WriteInv'
<1>1. Grow(invocations, invocations') /\ NewRowsFit
  BY DEF SameRows, NewRowsFit
<1> QED BY <1>1, RunsKept, HistoryKept, AloneFrame, KeyedFrame, AnsweredFrame DEF WriteInv

\* The row of an approval that is recorded, or closed.
LEMMA CloseOne ==
    ASSUME Typed, NEW rows, NEW i \in DOMAIN invocations, rows \in {{i}, {}},
           NEW st \in Closed \cup {"EXECUTING"}, Close(rows, st)
    PROVE  /\ SameRows /\ \A j \in DOMAIN invocations \ {i} : invocations'[j] = invocations[j]
           /\ invocations'[i].done = invocations[i].done /\ invocations'[i].kind = invocations[i].kind
           /\ invocations'[i].status = IF rows = {i} THEN st ELSE invocations[i].status
<1>1. DOMAIN invocations' = DOMAIN invocations /\ Grow(invocations, invocations')
  BY CloseTyped
<1>2. invocations[i] \in RowRecord
  BY Lengths
<1>3. \A j \in DOMAIN invocations :
         invocations'[j] = IF j \in rows THEN [invocations[j] EXCEPT !.status = st] ELSE invocations[j]
  BY DEF Close
<1> QED BY <1>1, <1>2, <1>3 DEF SameRows, RowRecord

\* An approval, by the loop or by a decision: the row waited, so nobody has it.
LEMMA ApproveKeeps ==
    ASSUME WriteInv, Typed', NEW a \in Actors, actor[a].of \in DOMAIN invocations,
           Pending(actor[a].of), Approve(a), UNCHANGED <<runs, history>>,
           actor[a].op = "drive" => actor[a].pc = "approve"
    PROVE  WriteInv'
<1> DEFINE i == actor[a].of
<1>1. Typed /\ actor[a] \in ActorRecord /\ actor[a].resolved \in Nat
  BY ActorFacts DEF WriteInv, ActorRecord
<1>2. Close({i}, "EXECUTING")
  BY DEF Approve
<1>3. /\ SameRows /\ \A j \in DOMAIN invocations \ {i} : invocations'[j] = invocations[j]
      /\ invocations'[i].done = invocations[i].done /\ invocations'[i].kind = invocations[i].kind
      /\ invocations'[i].status = "EXECUTING"
  BY <1>1, <1>2, CloseOne
<1>4. invocations[i].status = "AWAITING_APPROVAL" /\ invocations[i].done = 0
  <2>1. invocations[i].status = "AWAITING_APPROVAL"
    BY DEF Pending
  <2> QED BY <2>1 DEF WriteInv, Claimed, Untouched, Waiting
<1>5. DoneKept
  BY <1>3, <1>4 DEF DoneKept
<1>6. \A b \in Actors \ {a} : actor[b].pc \in ClaimPcs => actor[b].of # i
  BY <1>4 DEF WriteInv, Claimed
<1>7. PICK pc \in {"execute", "unrecorded"} : Become(a, [actor[a] EXCEPT !.pc = pc])
  BY GoToBecomes DEF Approve
<1> DEFINE y == [actor[a] EXCEPT !.pc = pc]
<1>8. /\ y.pc = pc /\ y.of = i /\ y.op = actor[a].op /\ y.run = actor[a].run /\ y.step = actor[a].step
      /\ y.calls = actor[a].calls /\ y.resolved = actor[a].resolved /\ Become(a, y)
  BY <1>1, <1>7 DEF ActorRecord
<1> HIDE DEF y
<1>9. actor[a].resolved <= y.resolved
  BY <1>1, <1>8
<1>10. LoopOn /\ StepOn
  BY <1>1, <1>8, <1>9, OneActor DEF InLoopOf, InStep, LoopPcs, InStepPcs
<1>11. Claimed'
  <2>1. invocations'[i].done <= 1
    BY <1>3, <1>4
  <2>2. y.pc # "record" /\ "EXECUTING" \notin Untouched
    BY <1>8 DEF Untouched, Waiting
  <2> QED BY <1>1, <1>3, <1>4, <1>6, <1>8, <2>1, <2>2, ClaimMoves DEF SameRows, WriteInv
<1> QED BY <1>3, <1>5, <1>10, <1>11, ClaimsKeep

\* Where an actor has a row: it is the only one, and the row waits for its outcome.
LEMMA HasRow ==
    ASSUME WriteInv, NEW a \in Actors, actor[a].pc \in ClaimPcs
    PROVE  /\ actor[a].of \in DOMAIN invocations /\ actor[a].run = invocations[actor[a].of].run
           /\ \A b \in Actors \ {a} : actor[b].pc \in ClaimPcs => actor[b].of # actor[a].of
           /\ invocations[actor[a].of].status \in {"EXECUTING", "OUTCOME_UNKNOWN"}
           /\ invocations[actor[a].of] \in RowRecord
<1>1. Typed /\ Holds(a, actor[a], invocations) /\ actor[a].pc \in OfRow
  BY ActorFacts DEF WriteInv, ClaimPcs, OfRow, OfWrite
<1>2. actor[a].of \in DOMAIN invocations /\ actor[a].run = invocations[actor[a].of].run
  BY <1>1 DEF Holds
<1> QED BY <1>1, <1>2, Lengths DEF WriteInv, Claimed

LEMMA CloseUnrecordedKeeps ==
    ASSUME WriteInv, Typed', NEW a \in Actors, CloseUnrecorded(a)
    PROVE  WriteInv'
<1> DEFINE i == actor[a].of
           rows == {i} \cap RowsAt(actor[a].run, {"EXECUTING"})
<1>1. /\ Typed /\ actor[a].pc = "unrecorded" /\ Close(rows, "FAILED") /\ UNCHANGED <<runs, history>>
      /\ actor[a].pc \in ClaimPcs
  BY DEF WriteInv, CloseUnrecorded, At, ClaimPcs
<1>2. /\ i \in DOMAIN invocations /\ \A b \in Actors \ {a} : actor[b].pc \in ClaimPcs => actor[b].of # i
      /\ invocations[i].status \in {"EXECUTING", "OUTCOME_UNKNOWN"}
  BY <1>1, HasRow
<1>3. rows \in {{i}, {}}
  OBVIOUS
<1>4. /\ SameRows /\ \A j \in DOMAIN invocations \ {i} : invocations'[j] = invocations[j]
      /\ invocations'[i].done = invocations[i].done
      /\ invocations'[i].status \in {"FAILED", "EXECUTING", "OUTCOME_UNKNOWN"}
  BY <1>1, <1>2, <1>3, CloseOne DEF Closed
<1>5. DoneKept
  BY <1>2, <1>4 DEF DoneKept
<1>6. PICK y : Become(a, y) /\ Out(y)
  BY OutFresh, OutIdle DEF CloseUnrecorded, GoOn, Done
<1>7. LoopOn /\ StepOn /\ y.pc \notin ClaimPcs
  BY <1>1, <1>6, OutOn DEF Out
<1>8. Claimed'
  <2>1. invocations[i].done <= 1
    BY <1>2 DEF WriteInv, Claimed
  <2>2. invocations'[i].status \notin Untouched \cup {"SUCCEEDED"}
    BY <1>4 DEF Untouched, Waiting
  <2>3. y.pc \notin {"execute", "unrecorded", "record"}
    BY <1>7 DEF ClaimPcs
  <2> QED BY <1>1, <1>2, <1>4, <1>6, <1>7, <2>1, <2>2, <2>3, ClaimMoves DEF SameRows, WriteInv
<1> QED BY <1>1, <1>4, <1>5, <1>7, <1>8, ClaimsKeep

LEMMA RecordKeeps ==
    ASSUME WriteInv, Typed', NEW a \in Actors, Record(a)
    PROVE  WriteInv'
<1> DEFINE i == actor[a].of
           rows == {i} \cap RowsAt(actor[a].run, {"EXECUTING"})
<1>1. /\ Typed /\ actor[a].pc = "record" /\ Close(rows, actor[a].choice) /\ UNCHANGED <<runs, history>>
      /\ actor[a].pc \in ClaimPcs /\ actor[a] \in ActorRecord /\ actor[a].resolved \in Nat
  BY ActorFacts DEF WriteInv, Record, At, ClaimPcs, ActorRecord
<1>2. /\ i \in DOMAIN invocations /\ \A b \in Actors \ {a} : actor[b].pc \in ClaimPcs => actor[b].of # i
      /\ invocations[i].status \in {"EXECUTING", "OUTCOME_UNKNOWN"}
  BY <1>1, HasRow
<1>3. actor[a].choice \in {"SUCCEEDED", "FAILED", "EXPIRED"}
  <2>1. Holds(a, actor[a], invocations)
    BY <1>1, ActorFacts
  <2> QED BY <1>1, <2>1 DEF Holds, Recorded
<1>4. rows \in {{i}, {}}
  OBVIOUS
<1>5. /\ SameRows /\ \A j \in DOMAIN invocations \ {i} : invocations'[j] = invocations[j]
      /\ invocations'[i].done = invocations[i].done
      /\ invocations'[i].status \in {actor[a].choice, "EXECUTING", "OUTCOME_UNKNOWN"}
  <2>1. actor[a].choice \in Closed \cup {"EXECUTING"}
    BY <1>3 DEF Closed
  <2>2. Typed /\ i \in DOMAIN invocations /\ Close(rows, actor[a].choice)
    BY <1>1, <1>2
  <2> HIDE DEF rows
  <2> QED BY <1>2, <1>4, <2>1, <2>2, CloseOne
<1>6. DoneKept
  BY <1>2, <1>5 DEF DoneKept
<1>7. PICK y : /\ Become(a, y) /\ y.pc \notin ClaimPcs \cup {"model"}
               /\ InLoopOf(y) => InLoopOf(actor[a]) /\ y.run = actor[a].run
               /\ InStep(y) =>
                   /\ InStep(actor[a]) /\ y.run = actor[a].run /\ y.step = actor[a].step
                   /\ y.calls = actor[a].calls /\ actor[a].resolved <= y.resolved
  <2>1. CASE actor[a].op = "drive" /\ Return(a, actor[a].waits)
    <3> DEFINE y == [actor[a] EXCEPT !.pc = "resolve", !.waits = actor[a].waits, !.of = 0, !.choice = "none"]
    <3>1. /\ y.pc = "resolve" /\ y.op = actor[a].op /\ y.run = actor[a].run /\ y.step = actor[a].step
          /\ y.calls = actor[a].calls /\ y.resolved = actor[a].resolved
      BY <1>1 DEF ActorRecord
    <3>2. Become(a, y)
      BY <2>1 DEF Return
    <3> HIDE DEF y
    <3>3. actor[a].resolved <= y.resolved
      BY <1>1, <3>1
    <3>4. InLoopOf(actor[a]) /\ InStep(actor[a])
      BY <1>1, <2>1 DEF InLoopOf, InStep, LoopPcs, InStepPcs
    <3>5. y.pc \notin ClaimPcs \cup {"model"}
      BY <3>1 DEF ClaimPcs
    <3> QED BY <3>1, <3>2, <3>3, <3>4, <3>5
  <2>2. CASE GoOn(a, "count")
    <3>1. Out(Fresh(actor[a], "count")) /\ Become(a, Fresh(actor[a], "count"))
      BY <2>2, OutFresh DEF GoOn
    <3>2. ASSUME NEW y, Out(y)
          PROVE  y.pc \notin ClaimPcs \cup {"model"} /\ ~ InLoopOf(y) /\ ~ InStep(y)
      BY <3>2 DEF Out, InLoopOf, InStep, LoopPcs
    <3> QED BY <3>1, <3>2
  <2> QED BY <2>1, <2>2 DEF Record
<1>8. LoopOn /\ StepOn
  BY <1>1, <1>7, OneActor
<1>9. Claimed'
  <2>1. /\ invocations[i].done <= 1 /\ (actor[a].choice = "SUCCEEDED" => invocations[i].done = 1)
        /\ actor[a].choice = "EXPIRED" => invocations[i].done = 0
    BY <1>1, <1>2 DEF WriteInv, Claimed
  <2>2. invocations'[i].status \in Untouched => actor[a].choice = "EXPIRED"
    BY <1>3, <1>5 DEF Untouched, Waiting
  <2>3. y.pc \notin {"execute", "unrecorded", "record"} /\ y.pc \notin ClaimPcs
    BY <1>7 DEF ClaimPcs
  <2>4. invocations'[i].status = "SUCCEEDED" => invocations'[i].done = 1
    BY <1>5, <2>1
  <2> QED BY <1>1, <1>2, <1>5, <1>7, <2>1, <2>2, <2>3, <2>4, ClaimMoves DEF SameRows, WriteInv
<1> QED BY <1>1, <1>5, <1>6, <1>8, <1>9, ClaimsKeep

LEMMA ExecuteKeeps ==
    ASSUME WriteInv, Typed', NEW a \in Actors, Execute(a)
    PROVE  WriteInv'
<1> DEFINE i == actor[a].of
<1>1. /\ Typed /\ actor[a].pc = "execute" /\ UNCHANGED <<runs, history>>
      /\ actor[a].pc \in ClaimPcs /\ actor[a] \in ActorRecord /\ actor[a].resolved \in Nat
  BY ActorFacts DEF WriteInv, Execute, At, ClaimPcs, ActorRecord
<1>2. /\ i \in DOMAIN invocations /\ \A b \in Actors \ {a} : actor[b].pc \in ClaimPcs => actor[b].of # i
      /\ invocations[i].status \in {"EXECUTING", "OUTCOME_UNKNOWN"} /\ invocations[i].done = 0
      /\ \A j \in DOMAIN invocations : invocations[j] \in RowRecord
  BY <1>1, HasRow, Lengths DEF WriteInv, Claimed
<1>3. PICK choice \in Recorded :
        /\ Become(a, [actor[a] EXCEPT !.pc = "record", !.choice = choice])
        /\ \/ choice = "SUCCEEDED" /\ invocations' = [invocations EXCEPT ![i].done = @ + 1]
           \/ choice # "SUCCEEDED" /\ UNCHANGED invocations
  BY DEF Execute, Recorded
<1>4. /\ SameRows /\ \A j \in DOMAIN invocations \ {i} : invocations'[j] = invocations[j]
      /\ invocations'[i].status = invocations[i].status
      /\ invocations'[i].done \in {0, 1} /\ (choice = "SUCCEEDED" => invocations'[i].done = 1)
      /\ choice = "EXPIRED" => invocations'[i].done = 0
  <2>1. CASE UNCHANGED invocations /\ choice # "SUCCEEDED"
    BY <1>2, <2>1, SameGrow DEF SameRows
  <2>2. CASE choice = "SUCCEEDED" /\ invocations' = [invocations EXCEPT ![i].done = @ + 1]
    <3>1. /\ DOMAIN invocations' = DOMAIN invocations
          /\ \A j \in DOMAIN invocations \ {i} : invocations'[j] = invocations[j]
      BY <2>2
    <3>2. /\ invocations'[i].status = invocations[i].status /\ invocations'[i].done = 1
          /\ invocations'[i].run = invocations[i].run /\ invocations'[i].step = invocations[i].step
          /\ invocations'[i].call = invocations[i].call /\ invocations'[i].kind = invocations[i].kind
      BY <1>2, <2>2 DEF RowRecord
    <3> QED BY <2>2, <3>1, <3>2 DEF SameRows, Grow
  <2> QED BY <1>3, <2>1, <2>2
<1>5. DoneKept
  BY <1>2, <1>4 DEF DoneKept
<1> DEFINE y == [actor[a] EXCEPT !.pc = "record", !.choice = choice]
<1>6. /\ y.pc = "record" /\ y.choice = choice /\ y.of = i /\ y.op = actor[a].op /\ y.run = actor[a].run
      /\ y.step = actor[a].step /\ y.calls = actor[a].calls /\ y.resolved = actor[a].resolved
      /\ Become(a, y)
  BY <1>1, <1>3 DEF ActorRecord
<1> HIDE DEF y
<1>7. actor[a].resolved <= y.resolved
  BY <1>1, <1>6
<1>8. LoopOn /\ StepOn
  BY <1>1, <1>6, <1>7, OneActor DEF InLoopOf, InStep, LoopPcs, InStepPcs
<1>9. Claimed'
  <2>1. invocations'[i].done <= 1
    BY <1>4
  <2>2. invocations'[i].status \notin Untouched \cup {"SUCCEEDED"}
    BY <1>2, <1>4 DEF Untouched, Waiting
  <2> QED BY <1>1, <1>2, <1>4, <1>6, <2>1, <2>2, ClaimMoves DEF SameRows, WriteInv
<1> QED BY <1>1, <1>4, <1>5, <1>8, <1>9, ClaimsKeep

\* The loop decides on its own proposal.
LEMMA AutoApproveKeeps ==
    ASSUME WriteInv, Typed', NEW s \in Slots, AutoApprove(s)
    PROVE  WriteInv'
<1> DEFINE i == actor[s].of
<1>1. /\ Typed /\ s \in Actors /\ actor[s] \in ActorRecord /\ Holds(s, actor[s], invocations)
      /\ actor[s].op = "drive" /\ actor[s].pc = "approve" /\ UNCHANGED <<runs, history>>
  BY SlotIn DEF WriteInv, AutoApprove, At
<1>2. i \in DOMAIN invocations
  BY <1>1 DEF Holds, OfRow, OfWrite
<1>3. ASSUME NEW waits, Return(s, waits)
      PROVE  LoopOn /\ StepOn /\ ClaimsOn
  <2> DEFINE y == [actor[s] EXCEPT !.pc = "resolve", !.waits = waits, !.of = 0, !.choice = "none"]
  <2>1. /\ y.pc = "resolve" /\ y.run = actor[s].run /\ y.step = actor[s].step
        /\ y.calls = actor[s].calls /\ y.resolved = actor[s].resolved
    BY <1>1 DEF ActorRecord
  <2>2. Become(s, y)
    BY <1>3 DEF Return
  <2> HIDE DEF y
  <2>3. actor[s].resolved <= y.resolved
    BY <1>1, <2>1, SlotIn
  <2> QED BY <1>1, <2>1, <2>2, <2>3, InStepOn DEF InStepPcs, ClaimPcs
<1>4. CASE Pending(i) /\ Approve(s)
  BY <1>1, <1>2, <1>4, ApproveKeeps
<1>5. CASE Return(s, "AWAITING_APPROVAL") /\ UNCHANGED invocations
  BY <1>1, <1>3, <1>5, RunsKept, RowsKept, HistoryKept, SteadyKeeps DEF Steady, Tables
<1>6. CASE Return(s, actor[s].waits) /\ Close({i} \cap RowsAt(actor[s].run, {"AWAITING_APPROVAL"}), "EXPIRED")
  <2>1. \A j \in DOMAIN invocations : j \in {i} \cap RowsAt(actor[s].run, {"AWAITING_APPROVAL"}) =>
            MayBecome(invocations[j], "EXPIRED")
    BY DEF RowsAt, MayBecome, Waiting
  <2>2. SameRows /\ RowsOn
    BY <1>1, <1>6, <2>1, RowsClosed DEF Closed
  <2> QED BY <1>1, <1>3, <1>6, <2>2, RunsKept, HistoryKept, SteadyKeeps DEF Steady, Tables
<1> QED BY <1>4, <1>5, <1>6 DEF AutoApprove

LEMMA ClaimDecisionKeeps ==
    ASSUME WriteInv, Typed', NEW c \in Clients, ClaimDecision(c)
    PROVE  WriteInv'
<1> DEFINE i == actor[c].of
<1>1. /\ Typed /\ c \in Actors /\ Holds(c, actor[c], invocations)
      /\ actor[c].op = "decide" /\ actor[c].pc = "claim" /\ UNCHANGED <<runs, history>>
  BY SlotsAct, ActorFacts DEF WriteInv, ClaimDecision, At
<1>2. i \in DOMAIN invocations
  BY <1>1 DEF Holds, OfRow, OfWrite
<1>3. CASE Pending(i) /\ Approve(c)
  BY <1>1, <1>2, <1>3, ApproveKeeps
<1>4. ASSUME NEW st \in {"REJECTED", "EXPIRED"}, Close({i}, st), GoOn(c, "count") \/ Lapsed(c),
             invocations[i].status = "AWAITING_APPROVAL"
      PROVE  WriteInv'
  <2>1. \A j \in DOMAIN invocations : j \in {i} => MayBecome(invocations[j], st)
    BY <1>4 DEF MayBecome, Waiting
  <2>2. PICK y : Become(c, y) /\ Out(y)
    BY <1>4, OutFresh, OutFinalizing DEF GoOn, Lapsed
  <2>3. st \in Closed \cup {"EXECUTING"} /\ Close({i}, st)
    BY <1>4 DEF Closed
  <2> QED BY <1>1, <2>1, <2>2, <2>3, ClosingOut, SteadyKeeps
<1>5. CASE UNCHANGED invocations /\ (GoOn(c, "count") \/ Lapsed(c) \/ Done(c))
  <2>1. PICK y : Become(c, y) /\ Out(y)
    BY <1>5, OutFresh, OutFinalizing, OutIdle DEF GoOn, Lapsed, Done
  <2> QED BY <1>1, <1>5, <2>1, QuietOut, SteadyKeeps
<1> QED BY <1>3, <1>4, <1>5 DEF ClaimDecision, Pending
-----------------------------------------------------------------------------
(***************************************************************************)
(* The invariant holds, and what it says.                                   *)
(***************************************************************************)
LEMMA WriteInvNext ==
    ASSUME WriteInv, [Next]_vars
    PROVE  WriteInv'
<1>1. Typed /\ Typed'
  BY NextTyped DEF WriteInv
<1>2. ASSUME NEW s \in Slots, LoopStep(s)
      PROVE  WriteInv'
  BY <1>1, <1>2, ClaimKeeps, LoopSteady, SteadyKeeps, ModelKeeps, OpeningKeeps, AutoApproveKeeps,
     AppendKeeps, PauseKeeps DEF LoopStep
<1>3. ASSUME NEW a \in Actors, SharedStep(a)
      PROVE  WriteInv'
  BY <1>1, <1>3, CloseUnrecordedKeeps, ExecuteKeeps, RecordKeeps, SharedSteady, TellSteady, ThrowSteady,
     SteadyKeeps DEF SharedStep
<1>4. ASSUME NEW c \in Clients, RequestStep(c)
      PROVE  WriteInv'
  BY <1>1, <1>4, SubmitSteady, RequestSteady, SteadyKeeps, ClaimDecisionKeeps DEF RequestStep
<1>5. CASE SweepStep
  BY <1>1, <1>5, SweepSteady, SteadyKeeps
<1>6. CASE Lapse \/ Disallow \/ Crash \/ UNCHANGED vars
  BY <1>1, <1>6, OtherSteady, SteadyKeeps
<1> QED BY <1>2, <1>3, <1>4, <1>5, <1>6 DEF Next

LEMMA WriteInvInit == Init => WriteInv
<1> SUFFICES ASSUME Init PROVE WriteInv
  OBVIOUS
<1>1. Typed
  BY TypedInit
<1>2. \A a \in Actors : actor[a] = Idle
  BY DEF Init
<1>3. invocations = <<>> /\ history = <<>> /\ DOMAIN <<>> = {}
  BY DEF Init
<1>4. ~ InLoopOf(Idle) /\ ~ InStep(Idle) /\ Idle.pc # "model" /\ Idle.pc \notin ClaimPcs
  BY OutIdle DEF Out, InLoopOf, InStep, LoopPcs
<1>5. Alone
  BY <1>2, <1>4 DEF Alone
<1>6. Keyed /\ Claimed
  BY <1>2, <1>3, <1>4 DEF Keyed, Claimed
<1>7. Answered
  BY <1>3 DEF Answered, ToldRight
<1> QED BY <1>1, <1>5, <1>6, <1>7 DEF WriteInv

LEMMA AlwaysWriteInv == Spec => []WriteInv
<1>1. Init => WriteInv
  BY WriteInvInit
<1>2. WriteInv /\ [Next]_vars => WriteInv'
  BY WriteInvNext
<1> QED BY <1>1, <1>2, PTL DEF Spec

LEMMA WritesAreHonest == WriteInv => WritesHonest
<1> SUFFICES ASSUME WriteInv, NEW i \in DOMAIN invocations
             PROVE  /\ invocations[i].done <= 1
                    /\ invocations[i].status \in Waiting \cup {"REJECTED", "EXPIRED", "CANCELLED"} =>
                         invocations[i].done = 0
                    /\ invocations[i].kind = "write" =>
                         \A h \in DOMAIN history :
                             AnswerFor(i, h) /\ history[h].told[invocations[i].call] = "done" =>
                                 invocations[i].done = 1
  BY DEF WritesHonest
<1>1. /\ invocations[i].done <= 1
      /\ invocations[i].status \in Waiting \cup {"REJECTED", "EXPIRED", "CANCELLED"} =>
           invocations[i].done = 0
  BY DEF WriteInv, Claimed, Untouched
<1>2. ASSUME invocations[i].kind = "write", NEW h \in DOMAIN history, AnswerFor(i, h),
             history[h].told[invocations[i].call] = "done"
      PROVE  invocations[i].done = 1
  <2>1. /\ history[h].kind = "tool" /\ OfCalls(history[h])
        /\ OfStep(invocations[i], history[h].run, history[h].step)
    BY <1>2 DEF AnswerFor, OfCalls, OfStep
  <2>2. invocations[i].call \in DOMAIN history[h].told
    BY <2>1 DEF WriteInv, Answered, ToldRight
  <2>3. SaysDone(invocations, history[h].run, history[h].step, invocations[i].call)
    BY <1>2, <2>1, <2>2 DEF WriteInv, Answered, ToldRight
  <2>4. PICK j \in DOMAIN invocations :
          /\ OfStep(invocations[j], history[h].run, history[h].step)
          /\ invocations[j].call = invocations[i].call /\ invocations[j].status = "SUCCEEDED"
    BY <2>3 DEF SaysDone
  <2>5. j = i
    BY <2>1, <2>4 DEF WriteInv, Keyed, SameKey, OfStep
  <2> QED BY <1>2, <2>4, <2>5 DEF WriteInv, Claimed
<1> QED BY <1>1, <1>2
-----------------------------------------------------------------------------
(***************************************************************************)
(* A closed row keeps its outcome, in every step.                           *)
(***************************************************************************)
LEMMA SteadyCloses ==
    ASSUME RowsOn
    PROVE  ClosedForGood
BY DEF RowsOn, ClosedForGood, MayBecome, Closed, Waiting

LEMMA RowsUntouched ==
    ASSUME UNCHANGED invocations
    PROVE  ClosedForGood
BY DEF ClosedForGood

\* Rows that close were open.
LEMMA OpenOnesClose ==
    ASSUME NEW rows, NEW st, Close(rows, st),
           \A i \in DOMAIN invocations : i \in rows => invocations[i].status \notin Closed
    PROVE  ClosedForGood
BY DEF Close, ClosedForGood

LEMMA ApproveCloses ==
    ASSUME NEW a, Pending(actor[a].of), Approve(a)
    PROVE  ClosedForGood
<1>1. invocations[actor[a].of].status \notin Closed
  BY DEF Pending, Closed
<1> QED BY <1>1, OpenOnesClose DEF Approve

LEMMA LoopCloses ==
    ASSUME Typed, NEW s \in Slots, LoopStep(s)
    PROVE  ClosedForGood
<1>1. CASE Claim(s) \/ ModelSpeaks(s) \/ ModelCalls(s) \/ AppendResults(s) \/ Pause(s)
  BY <1>1, RowsUntouched DEF Claim, ModelSpeaks, ModelCalls, AppendResults, Pause
<1>2. CASE \/ AnswerResume(s) \/ Guard(s) \/ ModelFails(s) \/ Boundary(s) \/ AnswerCall(s)
           \/ FailUnexpectedly(s)
  BY <1>2, LoopSteady, SteadyCloses DEF Steady, Tables
<1>3. CASE Propose(s) \/ RequestInput(s)
  <2>1. PICK kind \in {"write", "form"}, status \in Waiting : OpenRow(s, kind, status)
    BY <1>3 DEF Propose, RequestInput, Waiting
  <2>2. DOMAIN invocations = 1 .. Len(invocations) /\ Len(invocations) \in Nat
    BY Lengths
  <2>3. \A i \in DOMAIN invocations : invocations'[i] = invocations[i]
    <3>1. invocations \in Seq(RowRecord)
      BY DEF Typed
    <3> HIDE DEF Typed
    <3> QED BY <2>1, <2>2, <3>1, AppendProperties DEF OpenRow
  <2> QED BY <2>3 DEF ClosedForGood
<1>4. CASE AutoApprove(s)
  <2>1. \A rows : \A i \in DOMAIN invocations :
          i \in rows \cap RowsAt(actor[s].run, {"AWAITING_APPROVAL"}) => invocations[i].status \notin Closed
    BY DEF RowsAt, Closed
  <2> QED BY <1>4, <2>1, ApproveCloses, RowsUntouched, OpenOnesClose DEF AutoApprove
<1> QED BY <1>1, <1>2, <1>3, <1>4 DEF LoopStep

LEMMA SharedCloses ==
    ASSUME Typed, NEW a \in Actors, SharedStep(a)
    PROVE  ClosedForGood
<1>1. CASE CloseUnrecorded(a) \/ Record(a)
  <2>1. \A rows : \A i \in DOMAIN invocations :
          i \in rows \cap RowsAt(actor[a].run, {"EXECUTING"}) => invocations[i].status \notin Closed
    BY DEF RowsAt, Closed
  <2> QED BY <1>1, <2>1, OpenOnesClose DEF CloseUnrecorded, Record
<1>2. CASE Execute(a)
  <2>1. \A i \in DOMAIN invocations : invocations[i] \in RowRecord
    BY Lengths
  <2> QED BY <1>2, <2>1 DEF Execute, ClosedForGood, RowRecord
<1>3. CASE \/ CountUndecided(a) \/ LookAtRun(a) \/ Requeue(a) \/ Enqueue(a)
           \/ Finalize(a) \/ CloseCalls(a)
  BY <1>3, SharedSteady, SteadyCloses DEF Steady, Tables
<1>4. CASE Tell(a)
  BY <1>4, RowsUntouched DEF Tell
<1>5. CASE Throw(a)
  BY <1>5, ThrowSteady, SteadyCloses DEF Steady, Tables
<1> QED BY <1>1, <1>2, <1>3, <1>4, <1>5 DEF SharedStep

LEMMA RequestCloses ==
    ASSUME Typed, NEW c \in Clients, RequestStep(c)
    PROVE  ClosedForGood
<1>1. CASE ClaimDecision(c)
  <2>1. ASSUME NEW st, Close({actor[c].of}, st), invocations[actor[c].of].status = "AWAITING_APPROVAL"
        PROVE  ClosedForGood
    BY <2>1, OpenOnesClose DEF Closed
  <2> QED BY <1>1, <2>1, ApproveCloses, RowsUntouched DEF ClaimDecision, Pending
<1>2. CASE ~ ClaimDecision(c)
  BY <1>2, SubmitSteady, RequestSteady, SteadyCloses DEF RequestStep, Steady, Tables
<1> QED BY <1>1, <1>2

LEMMA StepCloses ==
    ASSUME Typed, [Next]_vars
    PROVE  ClosedForGood
<1>1. CASE SweepStep
  BY <1>1, SweepSteady, SteadyCloses DEF Steady, Tables
<1>2. CASE Lapse \/ Disallow \/ Crash \/ UNCHANGED vars
  BY <1>2, OtherSteady, SteadyCloses DEF Steady, Tables
<1> QED BY <1>1, <1>2, LoopCloses, SharedCloses, RequestCloses DEF Next

\* However a decision, the automatic approval, the lapse of a card, a cancel, a
\* crash and a database call that fails cross, a write is executed at most once
\* and never after it was closed, and the model is told that it was done only of
\* one that was (autoApprove, decide, executeApproved, finalize and the sweeper,
\* through their compare-and-sets on the row).
THEOREM AssistantWritesOnce == Spec => WritesOnce
<1>1. WriteInv => WritesHonest
  BY WritesAreHonest
<1>2. WriteInv /\ [Next]_vars => [ClosedForGood]_vars
  BY StepCloses DEF WriteInv
<1>3. Spec => []WritesHonest
  BY <1>1, AlwaysWriteInv, PTL
<1>4. Spec => [][ClosedForGood]_vars
  BY <1>2, AlwaysWriteInv, PTL DEF Spec
<1> QED BY <1>3, <1>4 DEF WritesOnce
-----------------------------------------------------------------------------
(***************************************************************************)
(* Who drives, and what is left open, as long as no database call fails.     *)
(*                                                                         *)
(* OneDriver says of a slot in a loop that its run is RUNNING: what could    *)
(* take it out of that status is a finalize that may end a RUNNING run, and  *)
(* none is under way while a slot is in the loop (Ends).  Another slot would *)
(* drive the same run (Alone), or another run that is active (OneActive).    *)
(* EveryCallAnswered needs to know who may append to the history next: only  *)
(* the driver, whose own step is the one that is open (Turn).               *)
(***************************************************************************)
\* Nobody is where only a database call that failed brings an actor.
Undisturbed == \A a \in Actors : actor[a].pc \notin {"unexpected", "unrecorded"}

Driven == \A a \in Actors : InLoopOf(actor[a]) => runs[actor[a].run].status = "RUNNING"

OneActive ==
    \A q, r \in Runs : runs[q].status \in Active /\ runs[r].status \in Active => q = r

\* About to end a run that is driven.
EndsDriven(x) == x.pc = "finalize" /\ "RUNNING" \in x.from

Ends ==
    \A a \in Actors : EndsDriven(actor[a]) =>
        /\ runs[actor[a].run].status \in Going
        /\ \A b \in Actors : InLoopOf(actor[b]) => actor[b].run # actor[a].run

BetweenSteps == {"guard", "model"}

\* The step that is open, if one is, is the step of whoever is in a loop.
Turn ==
    \A a \in Actors : StepOpen /\ InLoopOf(actor[a]) =>
        /\ actor[a].pc \notin BetweenSteps
        /\ InStep(actor[a]) =>
             /\ history[Len(history)].run = actor[a].run
             /\ history[Len(history)].step = actor[a].step

Drives == Undisturbed /\ Driven /\ OneActive /\ Ends

TurnInv == Drives /\ Turn /\ EveryCallAnswered

\* What a step makes of an actor that enters no loop and ends no run it has not driven.
Calm(x, y) ==
    /\ y.pc \notin {"unexpected", "unrecorded"}
    /\ InLoopOf(y) => InLoopOf(x) /\ y.run = x.run
    /\ EndsDriven(y) => InLoopOf(x) /\ y.run = x.run

\* It is at the step it was at.
SameStep(x, y) ==
    /\ InLoopOf(y) /\ y.pc \in BetweenSteps => InLoopOf(x) /\ x.pc \in BetweenSteps
    /\ InStep(y) => InStep(x) /\ y.run = x.run /\ y.step = x.step

LEMMA InRun ==
    ASSUME Typed, NEW a \in Actors, InLoopOf(actor[a]) \/ actor[a].pc = "finalize"
    PROVE  actor[a].run \in Runs
<1>1. Holds(a, actor[a], invocations)
  BY ActorFacts
<1> QED BY <1>1 DEF Holds, InLoopOf, LoopPcs, InStepPcs

LEMMA CalmDrives ==
    ASSUME Typed, Alone, Drives, NEW a \in Actors, NEW y, Become(a, y), Calm(actor[a], y),
           \A r \in Runs : runs'[r].status = runs[r].status
    PROVE  Drives'
<1>1. \A b \in Actors : actor'[b] = IF b = a THEN y ELSE actor[b]
  BY DEF Become, Typed
<1>2. Undisturbed'
  BY <1>1 DEF Drives, Undisturbed, Calm
<1>3. \A b \in Actors : InLoopOf(actor'[b]) => InLoopOf(actor[b]) /\ actor'[b].run = actor[b].run
  BY <1>1 DEF Calm
<1>4. Driven'
  BY <1>3, InRun DEF Drives, Driven
<1>5. OneActive'
  BY DEF Drives, OneActive
<1>6. Ends'
  <2>1. SUFFICES ASSUME NEW b \in Actors, EndsDriven(actor'[b])
                 PROVE  /\ runs'[actor'[b].run].status \in Going
                        /\ \A c \in Actors : InLoopOf(actor'[c]) => actor'[c].run # actor'[b].run
    BY DEF Ends
  <2>2. CASE b # a
    <3>1. actor'[b] = actor[b] /\ EndsDriven(actor[b]) /\ actor[b].run \in Runs
      BY <1>1, <2>1, <2>2, InRun DEF EndsDriven
    <3> QED BY <1>3, <3>1 DEF Drives, Ends
  <2>3. CASE b = a
    <3>1. InLoopOf(actor[a]) /\ actor'[a].run = actor[a].run /\ actor[a].run \in Runs
      BY <1>1, <2>1, <2>3, InRun DEF Calm
    <3>2. runs'[actor[a].run].status = "RUNNING"
      BY <3>1 DEF Drives, Driven
    <3>3. ~ InLoopOf(actor'[a])
      BY <2>1, <2>3 DEF EndsDriven, InLoopOf, LoopPcs, InStepPcs
    <3>4. \A c \in Actors : InLoopOf(actor'[c]) => actor'[c].run # actor[a].run
      BY <1>3, <3>1, <3>3 DEF Alone
    <3> QED BY <2>3, <3>1, <3>2, <3>4 DEF Going
  <2> QED BY <2>2, <2>3
<1> QED BY <1>2, <1>4, <1>5, <1>6 DEF Drives

\* The history stays as it is.
LEMMA SameTurn ==
    ASSUME Typed, Turn, EveryCallAnswered, NEW a \in Actors, NEW y, Become(a, y),
           SameStep(actor[a], y), InLoopOf(y) => InLoopOf(actor[a]) \/ y.pc = "answer",
           UNCHANGED history
    PROVE  Turn' /\ EveryCallAnswered'
<1>1. \A b \in Actors : actor'[b] = IF b = a THEN y ELSE actor[b]
  BY DEF Become, Typed
<1>2. Turn'
  <2>1. SUFFICES ASSUME NEW b \in Actors, StepOpen', InLoopOf(actor'[b])
                 PROVE  /\ actor'[b].pc \notin BetweenSteps
                        /\ InStep(actor'[b]) =>
                             /\ history'[Len(history')].run = actor'[b].run
                             /\ history'[Len(history')].step = actor'[b].step
    BY DEF Turn
  <2>2. StepOpen /\ history' = history
    BY <2>1 DEF StepOpen
  <2>3. CASE b # a
    BY <1>1, <2>1, <2>2, <2>3 DEF Turn
  <2>4. CASE b = a
    <3>1. actor'[b] = y
      BY <1>1, <2>4
    <3>2. y.pc \notin BetweenSteps
      BY <2>1, <2>2, <3>1 DEF SameStep, Turn
    <3>3. InStep(y) => history[Len(history)].run = y.run /\ history[Len(history)].step = y.step
      <4>1. SUFFICES ASSUME InStep(y)
                     PROVE  history[Len(history)].run = y.run /\ history[Len(history)].step = y.step
        OBVIOUS
      <4>2. InStep(actor[a]) /\ InLoopOf(actor[a]) /\ y.run = actor[a].run /\ y.step = actor[a].step
        BY <4>1 DEF SameStep, InStep, InLoopOf, LoopPcs
      <4> QED BY <2>2, <4>2 DEF Turn
    <3> QED BY <2>2, <3>1, <3>2, <3>3
  <2> QED BY <2>3, <2>4
<1>3. EveryCallAnswered'
  BY DEF EveryCallAnswered
<1> QED BY <1>2, <1>3

\* A step that changes neither the history nor the status of a run.
LEMMA CalmKeeps ==
    ASSUME WriteInv, TurnInv, NEW a \in Actors, NEW y, Become(a, y),
           Calm(actor[a], y), SameStep(actor[a], y),
           \A r \in Runs : runs'[r].status = runs[r].status, UNCHANGED history
    PROVE  TurnInv'
<1>1. Drives'
  BY CalmDrives DEF WriteInv, TurnInv, Drives
<1>2. Turn' /\ EveryCallAnswered'
  BY SameTurn DEF WriteInv, TurnInv, Calm
<1> QED BY <1>1, <1>2 DEF TurnInv, Drives

LEMMA CalmIdle == \A x : Calm(x, Idle) /\ SameStep(x, Idle)
<1>1. Idle.pc = "idle"
  BY DEF Idle
<1> QED BY <1>1 DEF Calm, SameStep, InLoopOf, InStep, LoopPcs, InStepPcs, EndsDriven

LEMMA CalmFresh ==
    ASSUME NEW x, NEW z, NEW pc \in {"count", "enqueue"}
    PROVE  Calm(x, Fresh(z, pc)) /\ SameStep(x, Fresh(z, pc))
<1>1. Fresh(z, pc).pc = pc
  BY DEF Fresh, Idle
<1> QED BY <1>1 DEF Calm, SameStep, InLoopOf, InStep, LoopPcs, InStepPcs, EndsDriven

\* A run is to be ended, by its driver, or from a status in which none drives it.
LEMMA CalmFinalizing ==
    ASSUME NEW x, NEW z, NEW to, NEW from, NEW fallback,
           "RUNNING" \in from => InLoopOf(x) /\ z.run = x.run
    PROVE  Calm(x, Finalizing(z, to, from, fallback)) /\ SameStep(x, Finalizing(z, to, from, fallback))
<1> DEFINE y == Finalizing(z, to, from, fallback)
<1>1. y.pc = "finalize" /\ y.run = z.run /\ y.from = from
  BY DEF Finalizing, Fresh, Idle
<1> HIDE DEF y
<1>2. Calm(x, y)
  BY <1>1 DEF Calm, InLoopOf, LoopPcs, InStepPcs, EndsDriven
<1>3. SameStep(x, y)
  BY <1>1 DEF SameStep, InLoopOf, InStep, LoopPcs, InStepPcs
<1> QED BY <1>2, <1>3 DEF y

\* Another state outside every loop.
Elsewhere == {"look", "requeue", "close", "tell", "claim", "expire form", "close form", "enqueue"}

LEMMA CalmElsewhere ==
    ASSUME NEW x, NEW y, y.pc \in Elsewhere
    PROVE  Calm(x, y) /\ SameStep(x, y)
BY DEF Elsewhere, Calm, SameStep, InLoopOf, InStep, LoopPcs, InStepPcs, EndsDriven

\* A slot that goes on with its step.
LEMMA CalmInStep ==
    ASSUME Typed, NEW s \in Slots, actor[s].pc \in InStepPcs, NEW y, y.pc \in InStepPcs,
           y.run = actor[s].run, y.step = actor[s].step
    PROVE  Calm(actor[s], y) /\ SameStep(actor[s], y)
<1>1. InLoopOf(actor[s]) /\ InStep(actor[s])
  BY SlotIn DEF LoopPcs
<1>2. y.pc \notin BetweenSteps \cup {"unexpected", "unrecorded", "finalize"}
  BY DEF InStepPcs, BetweenSteps
<1> QED BY <1>1, <1>2 DEF Calm, SameStep, EndsDriven

LEMMA SameStatus ==
    ASSUME UNCHANGED runs
    PROVE  \A r \in Runs : runs'[r].status = runs[r].status
OBVIOUS

LEMMA LoopCalm ==
    ASSUME "throw" \notin FaultKinds, WriteInv, TurnInv, NEW s \in Slots,
           \/ Guard(s) \/ ModelFails(s) \/ Boundary(s) \/ AnswerCall(s)
           \/ Propose(s) \/ RequestInput(s) \/ AutoApprove(s) \/ FailUnexpectedly(s)
    PROVE  TurnInv'
<1>0. Typed /\ s \in Actors /\ actor[s] \in ActorRecord
  BY SlotIn DEF WriteInv
<1>1. CASE Guard(s)
  <2>1. UNCHANGED <<runs, history>> /\ actor[s].pc = "guard" /\ InLoopOf(actor[s])
    BY <1>0, <1>1, SlotIn DEF Guard, tables, At, LoopPcs
  <2>2. CASE Done(s)
    BY <1>0, <2>1, <2>2, CalmIdle, CalmKeeps DEF Done
  <2>3. ASSUME NEW to, Become(s, Finalizing(actor[s], to, {"RUNNING"}, "not done"))
        PROVE  TurnInv'
    BY <1>0, <2>1, <2>3, CalmFinalizing, CalmKeeps
  <2>4. CASE Become(s, [actor[s] EXCEPT !.pc = "model", !.step = runs[actor[s].run].steps])
    <3> DEFINE y == [actor[s] EXCEPT !.pc = "model", !.step = runs[actor[s].run].steps]
    <3>1. y.pc = "model" /\ y.run = actor[s].run /\ Become(s, y)
      BY <1>0, <2>4 DEF ActorRecord
    <3> HIDE DEF y
    <3>2. Calm(actor[s], y) /\ SameStep(actor[s], y)
      BY <2>1, <3>1 DEF Calm, SameStep, InLoopOf, InStep, InStepPcs, BetweenSteps, EndsDriven
    <3> QED BY <1>0, <2>1, <3>1, <3>2, CalmKeeps
  <2> QED BY <1>1, <2>2, <2>3, <2>4 DEF Guard
<1>2. CASE ModelFails(s)
  <2>1. UNCHANGED <<runs, history>> /\ InLoopOf(actor[s])
    BY <1>0, <1>2, SlotIn DEF ModelFails, tables, At, LoopPcs
  <2>2. PICK to : Become(s, Finalizing(actor[s], to, {"RUNNING"}, "not done"))
    BY <1>2 DEF ModelFails
  <2> QED BY <1>0, <2>1, <2>2, CalmFinalizing, CalmKeeps
<1>3. CASE Boundary(s)
  <2>1. UNCHANGED <<runs, history>> /\ actor[s].pc = "boundary" /\ InLoopOf(actor[s])
    BY <1>0, <1>3, SlotIn DEF Boundary, tables, At, LoopPcs, InStepPcs
  <2>2. CASE Done(s)
    BY <1>0, <2>1, <2>2, CalmIdle, CalmKeeps DEF Done
  <2>3. CASE Become(s, Finalizing(actor[s], "CANCELLED", {"RUNNING"}, "not done"))
    BY <1>0, <2>1, <2>3, CalmFinalizing, CalmKeeps
  <2>4. CASE GoTo(s, "resolve")
    <3> DEFINE y == [actor[s] EXCEPT !.pc = "resolve"]
    <3>1. y.pc = "resolve" /\ y.run = actor[s].run /\ y.step = actor[s].step /\ Become(s, y)
      BY <1>0, <2>4, GoToBecomes DEF ActorRecord
    <3> HIDE DEF y
    <3>2. Calm(actor[s], y) /\ SameStep(actor[s], y)
      BY <1>0, <2>1, <3>1, CalmInStep DEF InStepPcs
    <3> QED BY <1>0, <2>1, <3>1, <3>2, CalmKeeps
  <2> QED BY <1>3, <2>2, <2>3, <2>4 DEF Boundary
<1>4. CASE AnswerCall(s) \/ Propose(s) \/ RequestInput(s)
  <2>1. UNCHANGED <<runs, history>> /\ actor[s].pc = "resolve"
    BY <1>4 DEF AnswerCall, Propose, RequestInput, tables, Resolving, At
  <2>2. PICK y : Become(s, y) /\ y.pc \in InStepPcs /\ y.run = actor[s].run /\ y.step = actor[s].step
    <3>1. CASE AnswerCall(s)
      <4> DEFINE y == [actor[s] EXCEPT !.resolved = @ + 1]
      <4>1. y.pc = actor[s].pc /\ y.run = actor[s].run /\ y.step = actor[s].step /\ Become(s, y)
        BY <1>0, <3>1 DEF ActorRecord, AnswerCall
      <4> HIDE DEF y
      <4> QED BY <2>1, <4>1 DEF InStepPcs
    <3>2. ASSUME NEW waits, Resolved(s, waits)
          PROVE  \E y : Become(s, y) /\ y.pc \in InStepPcs /\ y.run = actor[s].run /\ y.step = actor[s].step
      <4> DEFINE y == [actor[s] EXCEPT !.resolved = @ + 1, !.waits = waits]
      <4>1. y.pc = actor[s].pc /\ y.run = actor[s].run /\ y.step = actor[s].step /\ Become(s, y)
        BY <1>0, <3>2 DEF ActorRecord, Resolved
      <4> HIDE DEF y
      <4> QED BY <2>1, <4>1 DEF InStepPcs
    <3>3. CASE Deciding(s)
      <4> DEFINE y == [actor[s] EXCEPT !.resolved = @ + 1, !.pc = "approve", !.of = Len(invocations) + 1]
      <4>1. y.pc = "approve" /\ y.run = actor[s].run /\ y.step = actor[s].step /\ Become(s, y)
        BY <1>0, <3>3 DEF ActorRecord, Deciding
      <4> HIDE DEF y
      <4> QED BY <4>1 DEF InStepPcs
    <3> QED BY <1>4, <3>1, <3>2, <3>3 DEF Propose, RequestInput
  <2>3. actor[s].pc \in InStepPcs
    BY <2>1 DEF InStepPcs
  <2> QED BY <1>0, <2>1, <2>2, <2>3, CalmInStep, CalmKeeps
<1>5. CASE AutoApprove(s)
  <2>1. UNCHANGED <<runs, history>> /\ actor[s].pc \in InStepPcs
    BY <1>5 DEF AutoApprove, At, InStepPcs
  <2>2. PICK y : Become(s, y) /\ y.pc \in InStepPcs /\ y.run = actor[s].run /\ y.step = actor[s].step
    <3>1. CASE Approve(s)
      <4> DEFINE y == [actor[s] EXCEPT !.pc = "execute"]
      <4>1. Become(s, y)
        BY <3>1, GoToBecomes DEF Approve, Fault
      <4>2. y.pc = "execute" /\ y.run = actor[s].run /\ y.step = actor[s].step
        BY <1>0 DEF ActorRecord
      <4> HIDE DEF y
      <4> QED BY <4>1, <4>2 DEF InStepPcs
    <3>2. ASSUME NEW waits, Return(s, waits)
          PROVE  \E y : Become(s, y) /\ y.pc \in InStepPcs /\ y.run = actor[s].run /\ y.step = actor[s].step
      <4> DEFINE y == [actor[s] EXCEPT !.pc = "resolve", !.waits = waits, !.of = 0, !.choice = "none"]
      <4>1. y.pc = "resolve" /\ y.run = actor[s].run /\ y.step = actor[s].step /\ Become(s, y)
        BY <1>0, <3>2 DEF ActorRecord, Return
      <4> HIDE DEF y
      <4> QED BY <4>1 DEF InStepPcs
    <3> QED BY <1>5, <3>1, <3>2 DEF AutoApprove
  <2> QED BY <1>0, <2>1, <2>2, CalmInStep, CalmKeeps
<1>6. CASE FailUnexpectedly(s)
  BY <1>0, <1>6 DEF FailUnexpectedly, At, TurnInv, Drives, Undisturbed
<1> QED BY <1>1, <1>2, <1>3, <1>4, <1>5, <1>6

LEMMA SharedCalm ==
    ASSUME "throw" \notin FaultKinds, WriteInv, TurnInv, NEW a \in Actors,
           \/ CloseUnrecorded(a) \/ Execute(a) \/ Record(a) \/ CountUndecided(a) \/ LookAtRun(a)
           \/ Enqueue(a) \/ CloseCalls(a) \/ Throw(a)
    PROVE  TurnInv'
<1>0. Typed /\ actor[a] \in ActorRecord /\ Holds(a, actor[a], invocations)
  BY ActorFacts DEF WriteInv
<1>1. CASE CloseUnrecorded(a) \/ Throw(a)
  BY <1>1 DEF CloseUnrecorded, At, TurnInv, Drives, Undisturbed, Throw, Fault
<1>2. CASE Execute(a)
  <2>1. UNCHANGED <<runs, history>> /\ actor[a].pc = "execute"
    BY <1>2 DEF Execute, At
  <2>2. PICK choice \in Recorded :
          Become(a, [actor[a] EXCEPT !.pc = "record", !.choice = choice])
    BY <1>2 DEF Execute, Recorded
  <2> DEFINE y == [actor[a] EXCEPT !.pc = "record", !.choice = choice]
  <2>3. y.pc = "record" /\ y.op = actor[a].op /\ y.run = actor[a].run /\ y.step = actor[a].step /\ Become(a, y)
    BY <1>0, <2>2 DEF ActorRecord
  <2> HIDE DEF y
  <2>4. Calm(actor[a], y) /\ SameStep(actor[a], y)
    BY <2>1, <2>3 DEF Calm, SameStep, InLoopOf, InStep, LoopPcs, InStepPcs, BetweenSteps, EndsDriven
  <2> QED BY <2>1, <2>3, <2>4, CalmKeeps
<1>3. CASE Record(a)
  <2>1. UNCHANGED <<runs, history>> /\ actor[a].pc = "record"
    BY <1>3 DEF Record, At
  <2>2. CASE actor[a].op = "drive" /\ Return(a, actor[a].waits)
    <3> DEFINE y == [actor[a] EXCEPT !.pc = "resolve", !.waits = actor[a].waits, !.of = 0, !.choice = "none"]
    <3>1. y.pc = "resolve" /\ y.run = actor[a].run /\ y.step = actor[a].step /\ Become(a, y)
      BY <1>0, <2>2 DEF ActorRecord, Return
    <3> HIDE DEF y
    <3>2. Calm(actor[a], y) /\ SameStep(actor[a], y)
      BY <2>1, <2>2, <3>1 DEF Calm, SameStep, InLoopOf, InStep, LoopPcs, InStepPcs, BetweenSteps, EndsDriven
    <3> QED BY <2>1, <3>1, <3>2, CalmKeeps
  <2>3. CASE GoOn(a, "count")
    BY <2>1, <2>3, CalmFresh, CalmKeeps DEF GoOn
  <2> QED BY <1>3, <2>2, <2>3 DEF Record
<1>4. CASE CountUndecided(a)
  <2>1. UNCHANGED <<runs, history>>
    BY <1>4 DEF CountUndecided, tables
  <2>2. CASE Done(a)
    BY <2>1, <2>2, CalmIdle, CalmKeeps DEF Done
  <2>3. CASE GoTo(a, "look")
    <3> DEFINE y == [actor[a] EXCEPT !.pc = "look"]
    <3>1. Become(a, y) /\ y.pc \in Elsewhere
      BY <1>0, <2>3, GoToBecomes DEF ActorRecord, Elsewhere
    <3> HIDE DEF y
    <3> QED BY <2>1, <3>1, CalmElsewhere, CalmKeeps
  <2> QED BY <1>4, <2>2, <2>3 DEF CountUndecided
<1>5. CASE LookAtRun(a)
  <2>1. UNCHANGED <<runs, history>>
    BY <1>5 DEF LookAtRun, tables
  <2>2. CASE Done(a)
    BY <2>1, <2>2, CalmIdle, CalmKeeps DEF Done
  <2>3. ASSUME NEW status, Become(a, [actor[a] EXCEPT !.pc = "requeue", !.seen = status])
        PROVE  TurnInv'
    <3> DEFINE y == [actor[a] EXCEPT !.pc = "requeue", !.seen = status]
    <3>1. Become(a, y) /\ y.pc \in Elsewhere
      BY <1>0, <2>3 DEF ActorRecord, Elsewhere
    <3> HIDE DEF y
    <3> QED BY <2>1, <3>1, CalmElsewhere, CalmKeeps
  <2> QED BY <1>5, <2>2, <2>3 DEF LookAtRun
<1>6. CASE Enqueue(a)
  BY <1>6, CalmIdle, CalmKeeps DEF Enqueue, tables, Done
<1>7. CASE CloseCalls(a)
  <2>1. UNCHANGED <<runs, history>>
    BY <1>7 DEF CloseCalls
  <2> DEFINE y == [actor[a] EXCEPT !.pc = "tell"]
  <2>2. Become(a, y) /\ y.pc \in Elsewhere
    BY <1>0, <1>7, GoToBecomes DEF ActorRecord, Elsewhere, CloseCalls
  <2> HIDE DEF y
  <2> QED BY <2>1, <2>2, CalmElsewhere, CalmKeeps
<1> QED BY <1>1, <1>2, <1>3, <1>4, <1>5, <1>6, <1>7

LEMMA RequestCalm ==
    ASSUME "throw" \notin FaultKinds, WriteInv, TurnInv, NEW c \in Clients,
           \/ Cancel(c) \/ Decide(c) \/ ClaimDecision(c) \/ AnswerForm(c) \/ ExpireForm(c) \/ CloseForm(c)
    PROVE  TurnInv'
<1>0. Typed /\ c \in Actors /\ actor[c] \in ActorRecord /\ Holds(c, actor[c], invocations)
  BY ActorFacts, SlotsAct DEF WriteInv
<1>1. CASE Cancel(c)
  <2>1. PICK r \in Runs :
          /\ Become(c, Finalizing([Idle EXCEPT !.op = "cancel", !.run = r],
                                  "CANCELLED", {"QUEUED"} \cup Waiting, "not done"))
          /\ runs' = [runs EXCEPT ![r].cancel = TRUE] /\ UNCHANGED history
    BY <1>1 DEF Cancel, Begin
  <2>2. \A q \in Runs : runs[q] \in RunRecord
    BY <1>0 DEF Typed
  <2>3. \A q \in Runs : runs'[q].status = runs[q].status
    BY <1>0, <2>1, <2>2 DEF Typed, RunRecord
  <2>4. "RUNNING" \notin {"QUEUED"} \cup Waiting
    BY DEF Waiting
  <2> QED BY <1>0, <2>1, <2>3, <2>4, CalmFinalizing, CalmKeeps
<1>2. CASE Decide(c)
  <2>1. UNCHANGED <<runs, history>>
    BY <1>2 DEF Decide, tables
  <2>2. PICK i, r, choice : Become(c, [Idle EXCEPT !.op = "decide", !.pc = "claim", !.of = i,
                                                   !.run = r, !.choice = choice])
    BY <1>2 DEF Decide, Begin
  <2> DEFINE y == [Idle EXCEPT !.op = "decide", !.pc = "claim", !.of = i, !.run = r, !.choice = choice]
  <2>3. Become(c, y) /\ y.pc \in Elsewhere
    BY <2>2 DEF Idle, Elsewhere
  <2> HIDE DEF y
  <2> QED BY <1>0, <2>1, <2>3, CalmElsewhere, CalmKeeps
<1>3. CASE ClaimDecision(c)
  <2>1. UNCHANGED <<runs, history>> /\ actor[c].op = "decide"
    BY <1>3 DEF ClaimDecision
  <2>2. CASE Approve(c)
    <3> DEFINE y == [actor[c] EXCEPT !.pc = "execute"]
    <3>1. Become(c, y)
      BY <2>2, GoToBecomes DEF Approve, Fault
    <3>2. y.pc = "execute" /\ y.op = "decide"
      BY <1>0, <2>1 DEF ActorRecord
    <3> HIDE DEF y
    <3>3. Calm(actor[c], y) /\ SameStep(actor[c], y)
      BY <3>2 DEF Calm, SameStep, InLoopOf, InStep, EndsDriven
    <3> QED BY <1>0, <2>1, <3>1, <3>3, CalmKeeps
  <2>3. CASE GoOn(c, "count")
    BY <1>0, <2>1, <2>3, CalmFresh, CalmKeeps DEF GoOn
  <2>4. CASE Lapsed(c)
    BY <1>0, <2>1, <2>4, CalmFinalizing, CalmKeeps DEF Lapsed
  <2>5. CASE Done(c)
    BY <1>0, <2>1, <2>5, CalmIdle, CalmKeeps DEF Done
  <2> QED BY <1>3, <2>2, <2>3, <2>4, <2>5 DEF ClaimDecision
<1>4. CASE AnswerForm(c)
  <2>1. UNCHANGED <<runs, history>>
    BY <1>4 DEF AnswerForm, tables
  <2>2. PICK i \in DOMAIN invocations :
          Become(c, [Idle EXCEPT !.op = "answer", !.of = i, !.run = invocations[i].run,
                       !.pc = IF invocations[i].due THEN "expire form" ELSE "close form"])
    BY <1>4 DEF AnswerForm, Begin
  <2> DEFINE y == [Idle EXCEPT !.op = "answer", !.of = i, !.run = invocations[i].run,
                       !.pc = IF invocations[i].due THEN "expire form" ELSE "close form"]
  <2>3. y.pc \in Elsewhere
    BY DEF Idle, Elsewhere
  <2>4. Become(c, y)
    BY <2>2
  <2> HIDE DEF y
  <2> QED BY <1>0, <2>1, <2>3, <2>4, CalmElsewhere, CalmKeeps
<1>5. CASE ExpireForm(c)
  BY <1>0, <1>5, CalmFinalizing, CalmKeeps DEF ExpireForm
<1>6. CASE CloseForm(c)
  <2>1. UNCHANGED <<runs, history>> /\ (GoOn(c, "count") \/ Done(c))
    BY <1>6 DEF CloseForm
  <2> QED BY <1>0, <2>1, CalmFresh, CalmIdle, CalmKeeps DEF GoOn, Done
<1> QED BY <1>1, <1>2, <1>3, <1>4, <1>5, <1>6

\* Nobody moves.
LEMMA NobodyMoves ==
    ASSUME TurnInv, UNCHANGED <<runs, history, actor>>
    PROVE  TurnInv'
<1>1. Drives'
  BY DEF TurnInv, Drives, Undisturbed, Driven, OneActive, Ends
<1>2. Turn'
  BY DEF TurnInv, Turn, StepOpen
<1>3. EveryCallAnswered'
  BY DEF TurnInv, EveryCallAnswered
<1> QED BY <1>1, <1>2, <1>3 DEF TurnInv

LEMMA CrashTurn ==
    ASSUME TurnInv, Crash
    PROVE  TurnInv'
<1>1. UNCHANGED <<runs, history>> /\ \A a \in Actors : actor'[a] = Idle
  BY DEF Crash, tables
<1>2. Idle.pc = "idle" /\ ~ InLoopOf(Idle) /\ ~ EndsDriven(Idle)
  BY DEF Idle, InLoopOf, LoopPcs, InStepPcs, EndsDriven
<1>3. Drives'
  BY <1>1, <1>2 DEF TurnInv, Drives, Undisturbed, Driven, OneActive, Ends
<1>4. Turn'
  BY <1>1, <1>2 DEF Turn
<1>5. EveryCallAnswered'
  BY <1>1 DEF TurnInv, EveryCallAnswered
<1> QED BY <1>3, <1>4, <1>5 DEF TurnInv

\* What the pass of the sweeper becomes.
ToEnd(y, r, from) == y.pc = "finalize" /\ y.run = r /\ y.from = from

LEMMA PassEnds ==
    ASSUME NEW r, NEW to, NEW from, NEW fallback,
           Pass(Finalizing([Idle EXCEPT !.run = r], to, from, fallback))
    PROVE  \E y : Become(Sweeper, y) /\ ToEnd(y, r, from)
<1> DEFINE y == [Finalizing([Idle EXCEPT !.run = r], to, from, fallback) EXCEPT !.op = "sweep"]
<1>1. y.pc = "finalize" /\ y.run = r /\ y.from = from /\ Become(Sweeper, y)
  BY DEF Finalizing, Fresh, Idle, Pass
<1> QED BY <1>1 DEF ToEnd

LEMMA PassGoes ==
    ASSUME NEW r, NEW pc \in {"count", "enqueue"}, Pass([Idle EXCEPT !.run = r, !.pc = pc])
    PROVE  \E y : Become(Sweeper, y) /\ y.pc = pc
<1> DEFINE y == [[Idle EXCEPT !.run = r, !.pc = pc] EXCEPT !.op = "sweep"]
<1>1. y.pc = pc /\ Become(Sweeper, y)
  BY DEF Idle, Pass
<1> QED BY <1>1

\* The sweeper ends a run that nobody drives, and goes on outside every loop.
LEMMA PassCalm ==
    ASSUME NEW x, NEW y, \/ y.pc \in {"count", "enqueue"}
                         \/ y.pc = "finalize" /\ "RUNNING" \notin y.from
    PROVE  Calm(x, y) /\ SameStep(x, y)
BY DEF Calm, SameStep, InLoopOf, InStep, LoopPcs, InStepPcs, EndsDriven

LEMMA StaleTurn ==
    ASSUME WriteInv, TurnInv, SweepStale
    PROVE  TurnInv'
<1>1. PICK r \in Runs :
        /\ Stale(r) /\ UNCHANGED <<runs, history>>
        /\ Pass(Finalizing([Idle EXCEPT !.run = r], "FINISHED", {"RUNNING"}, "unknown"))
  BY DEF SweepStale
<1>0. PICK y : Become(Sweeper, y) /\ ToEnd(y, r, {"RUNNING"})
  BY <1>1, PassEnds
<1>2. Become(Sweeper, y) /\ y.pc = "finalize" /\ y.run = r /\ y.from = {"RUNNING"}
  BY <1>0 DEF ToEnd
<1>3. Typed /\ Sweeper \in Actors /\ \A b \in Actors : actor'[b] = IF b = Sweeper THEN y ELSE actor[b]
  BY <1>2, SlotsAct DEF WriteInv, Become, Typed
<1>4. ~ InLoopOf(y) /\ ~ InStep(y)
  BY <1>2 DEF InLoopOf, InStep, LoopPcs, InStepPcs
<1>5. \A b \in Actors : InLoopOf(actor[b]) => actor[b].run # r
  <2>1. \A b \in Actors : InLoopOf(actor[b]) => b \in Slots /\ actor[b].op = "drive"
    BY <1>3, ActorFacts DEF Holds, InLoopOf
  <2> QED BY <1>1, <2>1 DEF Stale, InFlight, Driving
<1>6. runs[r].status = "RUNNING" /\ runs' = runs /\ history' = history
  BY <1>1 DEF Stale
<1>7. Drives'
  <2>1. Undisturbed' /\ Driven' /\ OneActive'
    BY <1>2, <1>3, <1>4, <1>6 DEF TurnInv, Drives, Undisturbed, Driven, OneActive
  <2>2. Ends'
    BY <1>2, <1>3, <1>4, <1>5, <1>6 DEF TurnInv, Drives, Ends, Going
  <2> QED BY <2>1, <2>2 DEF Drives
<1>8. Turn' /\ EveryCallAnswered'
  BY <1>2, <1>3, <1>4, <1>6, SameTurn DEF TurnInv, SameStep
<1> QED BY <1>7, <1>8 DEF TurnInv

LEMMA SweepTurn ==
    ASSUME WriteInv, TurnInv, SweepStep
    PROVE  TurnInv'
<1>0. Typed /\ Sweeper \in Actors /\ "RUNNING" \notin Waiting
  BY SlotsAct DEF WriteInv, Waiting
<1>1. CASE SweepExpired
  <2>1. PICK r \in Runs, waiting \in Waiting :
          /\ Pass(Finalizing([Idle EXCEPT !.run = r], "EXPIRED", {waiting}, "not done"))
          /\ UNCHANGED <<runs, history>>
    BY <1>1 DEF SweepExpired
  <2>2. PICK y : Become(Sweeper, y) /\ ToEnd(y, r, {waiting})
    BY <2>1, PassEnds
  <2>3. Calm(actor[Sweeper], y) /\ SameStep(actor[Sweeper], y)
    BY <1>0, <2>2, PassCalm DEF ToEnd
  <2> QED BY <1>0, <2>1, <2>2, <2>3, CalmKeeps
<1>2. CASE SweepInterrupted
  BY <1>2, NobodyMoves DEF SweepInterrupted
<1>3. CASE SweepAwaiting
  <2>1. UNCHANGED <<runs, history>>
    BY <1>3 DEF SweepAwaiting, tables
  <2>2. PICK r \in Runs :
          \/ Pass([Idle EXCEPT !.run = r, !.pc = "count"])
          \/ Pass(Finalizing([Idle EXCEPT !.run = r], "CANCELLED", Waiting, "not done"))
    BY <1>3 DEF SweepAwaiting
  <2>3. PICK y : Become(Sweeper, y) /\ (y.pc = "count" \/ ToEnd(y, r, Waiting))
    BY <2>2, PassEnds, PassGoes
  <2>4. Calm(actor[Sweeper], y) /\ SameStep(actor[Sweeper], y)
    BY <1>0, <2>3, PassCalm DEF ToEnd
  <2> QED BY <1>0, <2>1, <2>3, <2>4, CalmKeeps
<1>4. CASE SweepQueued
  <2>1. UNCHANGED <<runs, history>>
    BY <1>4 DEF SweepQueued, tables
  <2>2. PICK r \in Runs : Pass([Idle EXCEPT !.run = r, !.pc = "enqueue"])
    BY <1>4 DEF SweepQueued
  <2>3. PICK y : Become(Sweeper, y) /\ y.pc = "enqueue"
    BY <2>2, PassGoes
  <2>4. Calm(actor[Sweeper], y) /\ SameStep(actor[Sweeper], y)
    BY <2>3, PassCalm
  <2> QED BY <1>0, <2>1, <2>3, <2>4, CalmKeeps
<1> QED BY <1>1, <1>2, <1>3, <1>4, StaleTurn DEF SweepStep
-----------------------------------------------------------------------------
(***************************************************************************)
(* A run takes another status.                                              *)
(***************************************************************************)
LEMMA StatusDrives ==
    ASSUME Typed, Alone, Drives, NEW a \in Actors, NEW y, Become(a, y),
           y.pc \notin {"unexpected", "unrecorded"}, ~ EndsDriven(y),
           NEW r \in Runs, NEW status, SetStatus(r, status),
           InLoopOf(y) => y.run = r /\ status = "RUNNING",
           \A b \in Actors \ {a} : InLoopOf(actor[b]) => actor[b].run # r,
           \/ \A b \in Actors \ {a} : EndsDriven(actor[b]) => actor[b].run # r
           \/ status \in Going /\ ~ InLoopOf(y),
           status \in Active => runs[r].status \in Active \/ NothingActive
    PROVE  Drives'
<1>1. \A b \in Actors : actor'[b] = IF b = a THEN y ELSE actor[b]
  BY DEF Become, Typed
<1>2. \A q \in Runs : runs'[q].status = IF q = r THEN status ELSE runs[q].status
  <2>1. \A q \in Runs : runs[q] \in RunRecord
    BY DEF Typed
  <2> QED BY <2>1 DEF SetStatus, Typed, RunRecord
<1>3. Undisturbed'
  BY <1>1 DEF Drives, Undisturbed
<1>4. Driven'
  <2>1. SUFFICES ASSUME NEW b \in Actors, InLoopOf(actor'[b])
                 PROVE  runs'[actor'[b].run].status = "RUNNING"
    BY DEF Driven
  <2>2. CASE b = a
    BY <1>1, <1>2, <2>1, <2>2
  <2>3. CASE b # a
    <3>1. actor'[b] = actor[b] /\ InLoopOf(actor[b]) /\ actor[b].run \in Runs \ {r}
      BY <1>1, <2>1, <2>3, InRun
    <3> QED BY <1>2, <3>1 DEF Drives, Driven
  <2> QED BY <2>2, <2>3
<1>5. OneActive'
  BY <1>2 DEF Drives, OneActive, NothingActive
<1>6. Ends'
  <2>1. SUFFICES ASSUME NEW b \in Actors, EndsDriven(actor'[b])
                 PROVE  /\ runs'[actor'[b].run].status \in Going
                        /\ \A c \in Actors : InLoopOf(actor'[c]) => actor'[c].run # actor'[b].run
    BY DEF Ends
  <2>2. b # a /\ actor'[b] = actor[b] /\ EndsDriven(actor[b]) /\ actor[b].run \in Runs
    BY <1>1, <2>1, InRun DEF EndsDriven
  <2>3. runs'[actor[b].run].status \in Going
    BY <1>2, <2>2 DEF Drives, Ends, Going
  <2>4. ASSUME NEW c \in Actors, InLoopOf(actor'[c]) PROVE actor'[c].run # actor[b].run
    <3>1. CASE c = a
      BY <1>1, <2>2, <2>4, <3>1
    <3>2. CASE c # a
      BY <1>1, <2>2, <2>4, <3>2 DEF Drives, Ends
    <3> QED BY <3>1, <3>2
  <2> QED BY <2>2, <2>3, <2>4
<1> QED BY <1>3, <1>4, <1>5, <1>6 DEF Drives

\* A slot takes a run that waits: nobody drives it, and nobody is to end it.
LEMMA ClaimTurn ==
    ASSUME WriteInv, TurnInv, NEW s \in Slots, Claim(s)
    PROVE  TurnInv'
<1>1. PICK r \in Runs :
        /\ UNCHANGED history
        /\ \/ UNCHANGED <<runs, actor>>
           \/ /\ runs[r].status = "QUEUED" /\ SetStatus(r, "RUNNING")
              /\ Become(s, [Idle EXCEPT !.op = "drive", !.pc = "answer", !.run = r])
  BY DEF Claim
<1>2. Typed /\ Alone /\ s \in Actors
  BY SlotsAct DEF WriteInv
<1>3. CASE UNCHANGED <<runs, actor>>
  BY <1>1, <1>3, NobodyMoves
<1>4. CASE /\ runs[r].status = "QUEUED" /\ SetStatus(r, "RUNNING")
           /\ Become(s, [Idle EXCEPT !.op = "drive", !.pc = "answer", !.run = r])
  <2> DEFINE y == [Idle EXCEPT !.op = "drive", !.pc = "answer", !.run = r]
  <2>1. y.pc = "answer" /\ y.run = r /\ Become(s, y)
    BY <1>4 DEF Idle
  <2> HIDE DEF y
  <2>2. \A b \in Actors : InLoopOf(actor[b]) => actor[b].run # r
    BY <1>4 DEF TurnInv, Drives, Driven
  <2>3. \A b \in Actors : EndsDriven(actor[b]) => actor[b].run # r
    BY <1>4 DEF TurnInv, Drives, Ends, Going, Terminal
  <2>4. ~ EndsDriven(y)
    BY <2>1 DEF EndsDriven
  <2>5. runs[r].status \in Active
    BY <1>4 DEF Active
  <2>6. Drives'
    BY <1>2, <1>4, <2>1, <2>2, <2>3, <2>4, <2>5, StatusDrives DEF TurnInv
  <2>7. SameStep(actor[s], y)
    BY <2>1 DEF SameStep, BetweenSteps, InStep, InStepPcs
  <2>8. Turn' /\ EveryCallAnswered'
    BY <1>1, <1>2, <2>1, <2>7, SameTurn DEF TurnInv
  <2> QED BY <2>6, <2>8 DEF TurnInv
<1> QED BY <1>1, <1>3, <1>4

LEMMA RequeueTurn ==
    ASSUME WriteInv, TurnInv, NEW a \in Actors, Requeue(a)
    PROVE  TurnInv'
<1> DEFINE r == actor[a].run
<1>1. Typed /\ Alone /\ Holds(a, actor[a], invocations) /\ actor[a].pc = "requeue" /\ UNCHANGED history
  BY ActorFacts DEF WriteInv, Requeue, At
<1>2. CASE UNCHANGED runs /\ Done(a)
  BY <1>1, <1>2, CalmIdle, CalmKeeps DEF Done
<1>3. CASE runs[r].status = actor[a].seen /\ SetStatus(r, "QUEUED") /\ GoOn(a, "enqueue")
  <2> DEFINE y == Fresh(actor[a], "enqueue")
  <2>1. y.pc = "enqueue" /\ Become(a, y)
    BY <1>3 DEF Fresh, Idle, GoOn
  <2> HIDE DEF y
  <2>2. runs[r].status \in Waiting /\ r \in Runs
    BY <1>1, <1>3 DEF Holds
  <2>3. \A b \in Actors : InLoopOf(actor[b]) => actor[b].run # r
    BY <2>2 DEF TurnInv, Drives, Driven, Waiting
  <2>4. \A b \in Actors : EndsDriven(actor[b]) => actor[b].run # r
    BY <2>2 DEF TurnInv, Drives, Ends, Going, Terminal, Waiting
  <2>5. ~ EndsDriven(y) /\ ~ InLoopOf(y) /\ SameStep(actor[a], y) /\ y.pc \notin {"unexpected", "unrecorded"}
    BY <2>1 DEF EndsDriven, InLoopOf, LoopPcs, InStepPcs, SameStep, InStep
  <2>6. runs[r].status \in Active
    BY <2>2 DEF Active
  <2>7. Drives'
    BY <1>1, <1>3, <2>1, <2>2, <2>3, <2>4, <2>5, <2>6, StatusDrives DEF TurnInv
  <2>8. Turn' /\ EveryCallAnswered'
    BY <1>1, <2>1, <2>5, SameTurn DEF TurnInv
  <2> QED BY <2>7, <2>8 DEF TurnInv
<1> QED BY <1>2, <1>3 DEF Requeue

\* Whoever ends a run that is RUNNING is sure that nobody drives it.
LEMMA FinalizeTurn ==
    ASSUME WriteInv, TurnInv, NEW a \in Actors, Finalize(a)
    PROVE  TurnInv'
<1> DEFINE r == actor[a].run
<1>1. Typed /\ Alone /\ Holds(a, actor[a], invocations) /\ actor[a].pc = "finalize" /\ UNCHANGED history
  BY ActorFacts DEF WriteInv, Finalize, At
<1>2. CASE UNCHANGED runs /\ Done(a)
  BY <1>1, <1>2, CalmIdle, CalmKeeps DEF Done
<1>3. CASE /\ runs[r].status \in actor[a].from /\ SetStatus(r, actor[a].to)
           /\ Become(a, [Fresh(actor[a], "close") EXCEPT !.fallback = actor[a].fallback])
  <2> DEFINE y == [Fresh(actor[a], "close") EXCEPT !.fallback = actor[a].fallback]
  <2>1. y.pc = "close" /\ Become(a, y)
    BY <1>3 DEF Fresh, Idle
  <2> HIDE DEF y
  <2>2. actor[a].to \in Terminal /\ r \in Runs
    BY <1>1 DEF Holds, LegalEnd, Terminal
  <2>3. \A b \in Actors : InLoopOf(actor[b]) => actor[b].run # r
    <3>1. SUFFICES ASSUME NEW b \in Actors, InLoopOf(actor[b]), actor[b].run = r PROVE FALSE
      OBVIOUS
    <3>2. runs[r].status = "RUNNING"
      BY <3>1 DEF TurnInv, Drives, Driven
    <3>3. EndsDriven(actor[a])
      BY <1>1, <1>3, <3>2 DEF EndsDriven
    <3> QED BY <3>1, <3>3 DEF TurnInv, Drives, Ends
  <2>4. ~ EndsDriven(y) /\ ~ InLoopOf(y) /\ SameStep(actor[a], y) /\ y.pc \notin {"unexpected", "unrecorded"}
    BY <2>1 DEF EndsDriven, InLoopOf, LoopPcs, InStepPcs, SameStep, InStep
  <2>5. actor[a].to \in Going /\ actor[a].to \notin Active
    BY <2>2 DEF Going, Terminal, Active, Waiting
  <2>6. Drives'
    BY <1>1, <1>3, <2>1, <2>2, <2>3, <2>4, <2>5, StatusDrives DEF TurnInv
  <2>7. Turn' /\ EveryCallAnswered'
    BY <1>1, <2>1, <2>4, SameTurn DEF TurnInv
  <2> QED BY <2>6, <2>7 DEF TurnInv
<1> QED BY <1>2, <1>3 DEF Finalize
-----------------------------------------------------------------------------
(***************************************************************************)
(* The history grows.                                                       *)
(***************************************************************************)
AnswersStep(m, open) == m.kind = "tool" /\ m.run = open.run /\ m.step = open.step

LastOpen(messages) == messages # <<>> /\ messages[Len(messages)].kind = "step"

Followed(messages) ==
    \A h \in DOMAIN messages : messages[h].kind = "step" /\ h < Len(messages) =>
        AnswersStep(messages[h + 1], messages[h])

LEMMA HistoryFollowed ==
    /\ EveryCallAnswered <=> Followed(history)
    /\ StepOpen <=> LastOpen(history)
BY DEF EveryCallAnswered, Followed, AnswersStep, StepOpen, LastOpen

LEMMA FollowedAppend ==
    ASSUME NEW s \in Seq(MessageRecord), NEW m \in MessageRecord, Followed(s),
           LastOpen(s) => AnswersStep(m, s[Len(s)])
    PROVE  /\ Followed(Append(s, m)) /\ Append(s, m)[Len(Append(s, m))] = m
           /\ LastOpen(Append(s, m)) <=> m.kind = "step"
<1> DEFINE t == Append(s, m)
<1>1. /\ t \in Seq(MessageRecord) /\ Len(t) = Len(s) + 1
      /\ DOMAIN t = DOMAIN s \cup {Len(s) + 1}
      /\ \A i \in DOMAIN s : t[i] = s[i]
      /\ t[Len(s) + 1] = m
  BY Appended
<1>2. Len(s) \in Nat /\ DOMAIN s = 1 .. Len(s)
  BY LenProperties
<1> HIDE DEF t
<1>3. t # <<>>
  BY <1>1, <1>2, EmptySeq
<1>4. Followed(t)
  <2>1. SUFFICES ASSUME NEW h \in DOMAIN t, t[h].kind = "step", h < Len(t)
                 PROVE  AnswersStep(t[h + 1], t[h])
    BY DEF Followed
  <2>2. h \in 1 .. Len(s)
    BY <1>1, <1>2, <2>1
  <2>3. t[h] = s[h]
    BY <1>1, <1>2, <2>2
  <2>4. CASE h = Len(s)
    <3>1. s # <<>>
      BY <1>2, <2>2, EmptySeq
    <3>2. LastOpen(s)
      BY <2>1, <2>3, <2>4, <3>1 DEF LastOpen
    <3> QED BY <1>1, <2>3, <2>4, <3>2
  <2>5. CASE h # Len(s)
    <3>1. h < Len(s) /\ h + 1 \in 1 .. Len(s)
      BY <1>2, <2>2, <2>5
    <3> QED BY <1>1, <1>2, <2>1, <2>2, <2>3, <3>1 DEF Followed
  <2> QED BY <2>4, <2>5
<1>5. t[Len(t)] = m
  BY <1>1
<1>6. LastOpen(t) <=> m.kind = "step"
  BY <1>3, <1>5 DEF LastOpen
<1> QED BY <1>4, <1>5, <1>6 DEF t

\* The answer to the open step, whoever gives it, leaves none open.
LEMMA FollowedAnswer ==
    ASSUME Typed, EveryCallAnswered, NEW fallback \in {"not done", "unknown"}, NEW messages,
           messages = IF StepOpen
                      THEN LET open == history[Len(history)] IN
                           Append(history, Message("tool", open.run, open.step, open.calls,
                                                   OutcomesOf(open, fallback)))
                      ELSE history
    PROVE  Followed(messages) /\ ~ LastOpen(messages)
<1>1. Followed(history) /\ (StepOpen <=> LastOpen(history)) /\ history \in Seq(MessageRecord)
  BY HistoryFollowed DEF Typed
<1>2. CASE StepOpen
  <2> DEFINE open == history[Len(history)]
             answer == Message("tool", open.run, open.step, open.calls, OutcomesOf(open, fallback))
  <2>1. open \in MessageRecord
    BY <1>2, OpenStepTyped
  <2>2. OutcomesOf(open, fallback) \in Seq(Told)
    BY <2>1, OutcomesTyped
  <2>3. answer.kind = "tool" /\ answer.run = open.run /\ answer.step = open.step
    BY DEF Message
  <2>4. answer \in MessageRecord
    BY <2>1, <2>2, MessageTyped DEF MessageRecord
  <2>5. messages = Append(history, answer)
    BY <1>2
  <2>6. AnswersStep(answer, history[Len(history)])
    BY <2>3 DEF AnswersStep
  <2> HIDE DEF answer
  <2> QED BY <1>1, <2>3, <2>4, <2>5, <2>6, FollowedAppend
<1>3. CASE ~ StepOpen
  BY <1>1, <1>3
<1> QED BY <1>2, <1>3

\* Two actors in a loop are one: their runs are RUNNING, so they are one run.
LEMMA OneLoop ==
    ASSUME WriteInv, TurnInv, NEW a \in Actors, NEW b \in Actors,
           InLoopOf(actor[a]), InLoopOf(actor[b])
    PROVE  a = b
<1>1. actor[a].run \in Runs /\ actor[b].run \in Runs
  BY InRun DEF WriteInv
<1>2. runs[actor[a].run].status = "RUNNING" /\ runs[actor[b].run].status = "RUNNING"
  BY DEF TurnInv, Drives, Driven
<1>3. actor[a].run = actor[b].run
  BY <1>1, <1>2 DEF TurnInv, Drives, OneActive, Active
<1> QED BY <1>3 DEF WriteInv, Alone

\* The history changed: no step is open, or the one of the driver is.
LEMMA TurnAfter ==
    ASSUME WriteInv, TurnInv, NEW a \in Actors, NEW y, Become(a, y), Followed(history'),
           \/ ~ LastOpen(history')
           \/ /\ InLoopOf(actor[a])
              /\ InLoopOf(y) =>
                   /\ y.pc \notin BetweenSteps
                   /\ InStep(y) => history'[Len(history')].run = y.run
                                     /\ history'[Len(history')].step = y.step
    PROVE  Turn' /\ EveryCallAnswered'
<1>1. \A b \in Actors : actor'[b] = IF b = a THEN y ELSE actor[b]
  BY DEF Become, Typed, WriteInv
<1>2. EveryCallAnswered'
  BY DEF EveryCallAnswered, Followed, AnswersStep
<1>3. Turn'
  <2>1. StepOpen' <=> LastOpen(history')
    BY DEF StepOpen, LastOpen
  <2>2. SUFFICES ASSUME NEW b \in Actors, LastOpen(history'), InLoopOf(actor'[b])
                 PROVE  /\ actor'[b].pc \notin BetweenSteps
                        /\ InStep(actor'[b]) =>
                             /\ history'[Len(history')].run = actor'[b].run
                             /\ history'[Len(history')].step = actor'[b].step
    BY <2>1 DEF Turn
  <2>3. b = a
    BY <1>1, <2>2, OneLoop
  <2> QED BY <1>1, <2>2, <2>3
<1> QED BY <1>2, <1>3

\* A message is added, by an actor that is calm; the statuses are as they were.
LEMMA AnswerResumeTurn ==
    ASSUME WriteInv, TurnInv, NEW s \in Slots, AnswerResume(s)
    PROVE  TurnInv'
<1>1. Typed /\ s \in Actors /\ actor[s] \in ActorRecord /\ UNCHANGED runs
  BY SlotIn DEF WriteInv, AnswerResume
<1>2. InLoopOf(actor[s]) /\ actor[s].pc = "answer"
  BY DEF AnswerResume, At, InLoopOf, LoopPcs
<1> DEFINE y == [actor[s] EXCEPT !.pc = "guard"]
<1>3. y.pc = "guard" /\ y.run = actor[s].run /\ Become(s, y)
  BY <1>1, GoToBecomes DEF ActorRecord, AnswerResume
<1> HIDE DEF y
<1>4. Calm(actor[s], y)
  BY <1>2, <1>3 DEF Calm, EndsDriven
<1>5. Followed(history') /\ ~ LastOpen(history')
  BY <1>1, FollowedAnswer DEF AnswerResume, AnswerOpenStep, TurnInv
<1>6. Drives'
  BY <1>1, <1>3, <1>4, CalmDrives DEF WriteInv, TurnInv
<1>7. Turn' /\ EveryCallAnswered'
  BY <1>1, <1>3, <1>5, TurnAfter
<1> QED BY <1>6, <1>7 DEF TurnInv

LEMMA TellTurn ==
    ASSUME WriteInv, TurnInv, NEW a \in Actors, Tell(a)
    PROVE  TurnInv'
<1>1. actor[a] \in ActorRecord /\ Holds(a, actor[a], invocations) /\ actor[a].pc = "tell"
  BY ActorFacts DEF Tell, At, WriteInv
<1>2. actor[a].fallback \in {"not done", "unknown"}
  BY <1>1 DEF Holds, ActorRecord, Ending
<1>3. Become(a, Idle) /\ UNCHANGED runs /\ Calm(actor[a], Idle)
  BY CalmIdle DEF Tell, Done
<1>4. Followed(history') /\ ~ LastOpen(history')
  BY <1>2, FollowedAnswer DEF Tell, AnswerOpenStep, TurnInv, WriteInv
<1>5. Drives'
  BY <1>3, CalmDrives DEF WriteInv, TurnInv
<1>6. Turn' /\ EveryCallAnswered'
  BY <1>3, <1>4, TurnAfter
<1> QED BY <1>5, <1>6 DEF TurnInv

\* The model has answered: no step was open, and its calls, if any, are its own.
LEMMA PersistTurn ==
    ASSUME WriteInv, TurnInv, NEW s \in Slots, actor[s].pc = "model",
           NEW kind \in {"text", "step"}, NEW calls \in Seq(CallKinds), Persist(s, kind, calls),
           NEW y, Become(s, y), Calm(actor[s], y),
           InLoopOf(y) /\ kind = "step" =>
               y.pc \notin BetweenSteps /\ y.run = actor[s].run /\ y.step = actor[s].step
    PROVE  TurnInv'
<1> DEFINE r == actor[s].run
           m == Message(kind, r, actor[s].step, calls, <<>>)
<1>1. Typed /\ Alone /\ s \in Actors /\ InLoopOf(actor[s]) /\ r \in Runs /\ actor[s] \in ActorRecord
  BY SlotIn DEF WriteInv, LoopPcs
<1>2. m.kind = kind /\ m.run = r /\ m.step = actor[s].step
  BY DEF Message
<1>3. m \in MessageRecord
  <2>1. actor[s].step \in Nat /\ <<>> \in Seq(Told)
    BY <1>1, EmptySeq DEF ActorRecord
  <2> QED BY <1>1, <2>1, MessageTyped
<1>4. history' = Append(history, m) /\ runs' = [runs EXCEPT ![r].steps = @ + 1]
  BY DEF Persist
<1>5. history \in Seq(MessageRecord)
  BY <1>1 DEF Typed
<1> HIDE DEF m
<1>6. Followed(history) /\ ~ LastOpen(history)
  BY <1>1, HistoryFollowed DEF TurnInv, Turn, BetweenSteps
<1>7. Followed(history') /\ history'[Len(history')] = m /\ (LastOpen(history') <=> m.kind = "step")
  BY <1>3, <1>4, <1>5, <1>6, FollowedAppend
<1>8. \A q \in Runs : runs'[q].status = runs[q].status
  BY <1>1, <1>4, PersistRuns
<1>9. Drives'
  BY <1>1, <1>8, CalmDrives DEF TurnInv
<1>10. Turn' /\ EveryCallAnswered'
  <2>1. CASE kind = "text"
    BY <1>1, <1>2, <1>7, <2>1, TurnAfter
  <2>2. CASE kind = "step"
    BY <1>1, <1>2, <1>7, <2>2, TurnAfter
  <2> QED BY <2>1, <2>2
<1> QED BY <1>9, <1>10 DEF TurnInv

LEMMA ModelTurn ==
    ASSUME WriteInv, TurnInv, NEW s \in Slots, ModelSpeaks(s) \/ ModelCalls(s)
    PROVE  TurnInv'
<1>1. Typed /\ s \in Actors /\ actor[s] \in ActorRecord /\ actor[s].pc = "model" /\ InLoopOf(actor[s])
  BY SlotIn DEF WriteInv, ModelSpeaks, ModelCalls, At, LoopPcs
<1> DEFINE ended == Finalizing(actor[s], "FINISHED", {"RUNNING"}, "not done")
<1>2. Calm(actor[s], ended) /\ ~ InLoopOf(ended)
  BY <1>1, CalmFinalizing, OutFinalizing DEF Out, InLoopOf
<1>3. \A calls \in CallSets : calls \in Seq(CallKinds)
  BY AssistantAssumption DEF CallKinds
<1> HIDE DEF ended
<1>4. CASE ModelSpeaks(s)
  <2>1. Persist(s, "text", <<>>) /\ (Become(s, ended) \/ Become(s, Fresh(actor[s], "guard")))
    BY <1>4 DEF ModelSpeaks, GoOn, ended
  <2>2. <<>> \in Seq(CallKinds)
    BY EmptySeq
  <2>3. CASE Become(s, ended)
    BY <1>1, <1>2, <2>1, <2>2, <2>3, PersistTurn
  <2>4. CASE Become(s, Fresh(actor[s], "guard"))
    <3> DEFINE y == Fresh(actor[s], "guard")
    <3>1. y.pc = "guard" /\ y.run = actor[s].run /\ Become(s, y)
      BY <2>4 DEF Fresh, Idle
    <3> HIDE DEF y
    <3>2. Calm(actor[s], y)
      BY <1>1, <3>1 DEF Calm, EndsDriven
    <3> QED BY <1>1, <2>1, <2>2, <3>1, <3>2, PersistTurn
  <2> QED BY <2>1, <2>3, <2>4
<1>5. CASE ModelCalls(s)
  <2>1. PICK calls \in CallSets :
          /\ Persist(s, "step", calls)
          /\ \/ Become(s, ended)
             \/ Become(s, [actor[s] EXCEPT !.pc = "boundary", !.calls = calls,
                                           !.resolved = 0, !.waits = "none"])
    BY <1>5 DEF ModelCalls, ended
  <2>2. CASE Become(s, ended)
    BY <1>1, <1>2, <1>3, <2>1, <2>2, PersistTurn
  <2>3. CASE Become(s, [actor[s] EXCEPT !.pc = "boundary", !.calls = calls,
                                        !.resolved = 0, !.waits = "none"])
    <3> DEFINE y == [actor[s] EXCEPT !.pc = "boundary", !.calls = calls, !.resolved = 0, !.waits = "none"]
    <3>1. y.pc = "boundary" /\ y.run = actor[s].run /\ y.step = actor[s].step
      BY <1>1 DEF ActorRecord
    <3>2. Become(s, y)
      BY <2>3
    <3> HIDE DEF y
    <3>3. Calm(actor[s], y) /\ y.pc \notin BetweenSteps
      BY <1>1, <3>1 DEF Calm, EndsDriven, BetweenSteps
    <3> QED BY <1>1, <1>3, <2>1, <3>1, <3>2, <3>3, PersistTurn
  <2> QED BY <2>1, <2>2, <2>3
<1> QED BY <1>4, <1>5

\* The results of the step: of the one that is open, if one is.
LEMMA AppendTurn ==
    ASSUME WriteInv, TurnInv, NEW s \in Slots, AppendResults(s)
    PROVE  TurnInv'
<1> DEFINE r == actor[s].run
           of == [Message("step", r, actor[s].step, actor[s].calls, <<>>) EXCEPT !.linked = TRUE]
           m == Message("tool", r, actor[s].step, actor[s].calls, OutcomesOf(of, "not done"))
           y == Fresh(actor[s], "guard")
<1>1. /\ Typed /\ Alone /\ s \in Actors /\ actor[s].pc = "resolve" /\ Become(s, y)
      /\ UNCHANGED runs /\ history' = Append(history, m)
  BY SlotsAct DEF WriteInv, AppendResults, AllResolved, At, GoOn
<1>2. InLoopOf(actor[s]) /\ InStep(actor[s]) /\ r \in Runs /\ actor[s] \in ActorRecord
  BY <1>1, SlotIn DEF LoopPcs, InStepPcs
<1>3. m.kind = "tool" /\ m.run = r /\ m.step = actor[s].step
  BY DEF Message
<1>4. actor[s].step \in Nat /\ actor[s].calls \in Seq(CallKinds) /\ <<>> \in Seq(Told)
  BY <1>2, EmptySeq DEF ActorRecord
<1>5. of \in MessageRecord
  <2>1. Message("step", r, actor[s].step, actor[s].calls, <<>>) \in MessageRecord
    BY <1>2, <1>4, MessageTyped
  <2> QED BY <2>1 DEF MessageRecord
<1>6. m \in MessageRecord
  <2>1. OutcomesOf(of, "not done") \in Seq(Told)
    BY <1>1, <1>5, OutcomesTyped
  <2> QED BY <1>2, <1>4, <2>1, MessageTyped
<1>7. y.pc = "guard" /\ y.run = r
  BY DEF Fresh, Idle
<1>8. history \in Seq(MessageRecord)
  BY <1>1 DEF Typed
<1> HIDE DEF m, of, y
<1>9. Calm(actor[s], y)
  BY <1>2, <1>7 DEF Calm, EndsDriven
<1>10. Followed(history) /\ (LastOpen(history) => AnswersStep(m, history[Len(history)]))
  BY <1>1, <1>2, <1>3, HistoryFollowed DEF TurnInv, Turn, AnswersStep
<1>11. Followed(history') /\ ~ LastOpen(history')
  BY <1>1, <1>3, <1>6, <1>8, <1>10, FollowedAppend
<1>12. Drives'
  BY <1>1, <1>9, CalmDrives DEF TurnInv
<1>13. Turn' /\ EveryCallAnswered'
  BY <1>1, <1>11, TurnAfter
<1> QED BY <1>12, <1>13 DEF TurnInv

\* A message that is linked answers, and is answered, as before.
LEMMA LinkFollowed ==
    ASSUME Typed, Typed', NEW links, Followed(history),
           history' = [h \in DOMAIN history |->
                         IF h \in links THEN [history[h] EXCEPT !.linked = TRUE] ELSE history[h]]
    PROVE  Followed(history')
<1>1. \A h \in DOMAIN history : history[h] \in MessageRecord
  BY Lengths
<1>2. \A h \in DOMAIN history :
        /\ history'[h].kind = history[h].kind /\ history'[h].run = history[h].run
        /\ history'[h].step = history[h].step
  BY <1>1 DEF MessageRecord
<1>3. DOMAIN history' = DOMAIN history
  OBVIOUS
<1>4. Len(history) \in Nat /\ DOMAIN history = 1 .. Len(history)
  BY Lengths
<1>5. Len(history') \in Nat /\ DOMAIN history' = 1 .. Len(history')
  BY LenProperties DEF Typed
<1>6. Len(history') = Len(history)
  BY <1>3, <1>4, <1>5
<1>7. SUFFICES ASSUME NEW h \in DOMAIN history', history'[h].kind = "step", h < Len(history')
               PROVE  AnswersStep(history'[h + 1], history'[h])
  BY DEF Followed
<1>8. h \in DOMAIN history /\ h + 1 \in DOMAIN history /\ h < Len(history)
  BY <1>3, <1>4, <1>6, <1>7
<1>9. AnswersStep(history[h + 1], history[h])
  BY <1>2, <1>7, <1>8 DEF Followed
<1> QED BY <1>2, <1>8, <1>9 DEF AnswersStep

\* The driver leaves its run, which waits or is to be ended.
LEMMA PauseTurn ==
    ASSUME WriteInv, TurnInv, Typed', NEW s \in Slots, Pause(s)
    PROVE  TurnInv'
<1> DEFINE r == actor[s].run
           links == {h \in DOMAIN history : history[h].kind = "step" /\ history[h].run = r
                                              /\ history[h].step = actor[s].step}
<1>1. Typed /\ Alone /\ s \in Actors /\ actor[s].pc = "resolve" /\ actor[s] \in ActorRecord
  BY SlotIn DEF WriteInv, Pause, AllResolved, At
<1>2. InLoopOf(actor[s]) /\ r \in Runs
  BY <1>1, SlotIn DEF LoopPcs, InStepPcs
<1>3. history' = [h \in DOMAIN history |->
                     IF h \in links THEN [history[h] EXCEPT !.linked = TRUE] ELSE history[h]]
  BY DEF Pause
<1>4. Followed(history')
  BY <1>1, <1>3, HistoryFollowed, LinkFollowed DEF TurnInv
<1>5. \A b \in Actors \ {s} : ~ InLoopOf(actor[b])
  BY <1>1, <1>2, OneLoop
<1>6. PICK y : Become(s, y) /\ ~ InLoopOf(y) /\ Drives'
  <2>1. CASE runs[r].status = "RUNNING" /\ SetStatus(r, actor[s].waits) /\ GoOn(s, "count")
    <3> DEFINE y == Fresh(actor[s], "count")
    <3>1. y.pc = "count" /\ Become(s, y)
      BY <2>1 DEF Fresh, Idle, GoOn
    <3> HIDE DEF y
    <3>2. ~ InLoopOf(y) /\ ~ EndsDriven(y) /\ y.pc \notin {"unexpected", "unrecorded"}
      BY <3>1 DEF InLoopOf, LoopPcs, InStepPcs, EndsDriven
    <3>3. \A b \in Actors \ {s} : EndsDriven(actor[b]) => actor[b].run # r
      BY <1>1, <1>2 DEF TurnInv, Drives, Ends
    <3>4. runs[r].status \in Active
      BY <2>1 DEF Active
    <3>5. Drives'
      BY <1>1, <1>2, <1>5, <2>1, <3>1, <3>2, <3>3, <3>4, StatusDrives DEF TurnInv
    <3> QED BY <3>1, <3>2, <3>5
  <2>2. CASE UNCHANGED runs /\ Become(s, Finalizing(actor[s], "CANCELLED", {"RUNNING"}, "not done"))
    <3> DEFINE y == Finalizing(actor[s], "CANCELLED", {"RUNNING"}, "not done")
    <3>1. Calm(actor[s], y) /\ ~ InLoopOf(y)
      BY <1>2, CalmFinalizing, OutFinalizing DEF Out, InLoopOf
    <3>2. Become(s, y)
      BY <2>2
    <3> HIDE DEF y
    <3>3. Drives'
      BY <1>1, <2>2, <3>1, <3>2, CalmDrives DEF TurnInv
    <3> QED BY <3>1, <3>2, <3>3
  <2>3. CASE UNCHANGED runs /\ Done(s)
    <3>1. Calm(actor[s], Idle) /\ ~ InLoopOf(Idle) /\ Become(s, Idle)
      BY <2>3, CalmIdle, OutIdle DEF Out, InLoopOf, Done
    <3>2. Drives'
      BY <1>1, <2>3, <3>1, CalmDrives DEF TurnInv
    <3> QED BY <3>1, <3>2
  <2> QED BY <2>1, <2>2, <2>3 DEF Pause, MayPause
<1>7. Turn' /\ EveryCallAnswered'
  BY <1>1, <1>2, <1>4, <1>6, TurnAfter
<1> QED BY <1>6, <1>7 DEF TurnInv

\* A new run, while none is active: what was left open is answered first.
LEMMA SubmitTurn ==
    ASSUME WriteInv, TurnInv, NEW c \in Clients, Submit(c)
    PROVE  TurnInv'
<1> DEFINE r == Next1
           user == Message("user", r, 0, <<>>, <<>>)
           y == [Idle EXCEPT !.op = "submit", !.pc = "enqueue", !.run = r]
<1>1. Typed /\ Alone /\ c \in Actors
  BY SlotsAct DEF WriteInv
<1>2. r \in Runs /\ runs[r].status = "NONE" /\ NothingActive /\ SetStatus(r, "QUEUED")
  BY NextRun DEF Submit, Unborn
<1>3. y.pc = "enqueue" /\ Become(c, y)
  BY DEF Idle, Submit, Begin
<1>4. user \in MessageRecord /\ user.kind = "user"
  BY <1>2, MessageTyped, EmptySeq DEF Message
<1>5. history' = Append(Repaired, user)
  BY DEF Submit
<1>6. Repaired \in Seq(MessageRecord)
  BY <1>1, RepairTyped
<1>7. Followed(Repaired) /\ ~ LastOpen(Repaired)
  BY <1>1, FollowedAnswer DEF Repaired, TurnInv
<1> HIDE DEF y, user
<1>8. Followed(history') /\ ~ LastOpen(history')
  BY <1>4, <1>5, <1>6, <1>7, FollowedAppend
<1>9. \A b \in Actors : ~ InLoopOf(actor[b])
  <2>1. \A b \in Actors : InLoopOf(actor[b]) => actor[b].run \in Runs
    BY <1>1, InRun
  <2> QED BY <1>2, <2>1 DEF TurnInv, Drives, Driven, NothingActive, Active
<1>10. \A b \in Actors : EndsDriven(actor[b]) => actor[b].run # r
  BY <1>2 DEF TurnInv, Drives, Ends, Going, Terminal
<1>11. ~ InLoopOf(y) /\ ~ EndsDriven(y) /\ y.pc \notin {"unexpected", "unrecorded"}
  BY <1>3 DEF InLoopOf, LoopPcs, InStepPcs, EndsDriven
<1>12. Drives'
  BY <1>1, <1>2, <1>3, <1>9, <1>10, <1>11, StatusDrives DEF TurnInv
<1>13. Turn' /\ EveryCallAnswered'
  BY <1>1, <1>3, <1>8, TurnAfter
<1> QED BY <1>12, <1>13 DEF TurnInv
-----------------------------------------------------------------------------
LEMMA TurnInvNext ==
    ASSUME "throw" \notin FaultKinds, WriteInv, WriteInv', TurnInv, [Next]_vars
    PROVE  TurnInv'
<1>1. ASSUME NEW s \in Slots, LoopStep(s)
      PROVE  TurnInv'
  BY <1>1, LoopCalm, ClaimTurn, AnswerResumeTurn, ModelTurn, AppendTurn, PauseTurn DEF LoopStep, WriteInv
<1>2. ASSUME NEW a \in Actors, SharedStep(a)
      PROVE  TurnInv'
  BY <1>2, SharedCalm, RequeueTurn, FinalizeTurn, TellTurn DEF SharedStep
<1>3. ASSUME NEW c \in Clients, RequestStep(c)
      PROVE  TurnInv'
  BY <1>3, RequestCalm, SubmitTurn DEF RequestStep
<1>4. CASE Lapse \/ Disallow \/ UNCHANGED vars
  BY <1>4, NobodyMoves DEF Lapse, Disallow, vars, tables
<1> QED BY <1>1, <1>2, <1>3, <1>4, SweepTurn, CrashTurn DEF Next

LEMMA TurnInvInit == Init => TurnInv
<1> SUFFICES ASSUME Init PROVE TurnInv
  OBVIOUS
<1>1. /\ \A a \in Actors : actor[a].pc = "idle"
      /\ \A r \in Runs : runs[r].status = "NONE"
      /\ history = <<>>
  BY DEF Init, Idle
<1>2. Drives
  BY <1>1 DEF Drives, Undisturbed, Driven, OneActive, Ends, InLoopOf, LoopPcs, InStepPcs, EndsDriven,
              Active, Waiting
<1>3. Turn
  BY <1>1 DEF Turn, StepOpen
<1>4. EveryCallAnswered
  BY <1>1 DEF EveryCallAnswered
<1> QED BY <1>2, <1>3, <1>4 DEF TurnInv

LEMMA DriversAreOne ==
    ASSUME WriteInv, TurnInv
    PROVE  OneDriver
<1>1. ASSUME NEW s \in Slots, InLoop(s)
      PROVE  InLoopOf(actor[s]) /\ s \in Actors
  <2>1. s \in Actors /\ (actor[s].pc \in LoopPcs => InLoopOf(actor[s]))
    BY SlotIn DEF WriteInv
  <2>2. actor[s].pc # "unrecorded"
    BY <2>1 DEF TurnInv, Drives, Undisturbed
  <2> QED BY <1>1, <2>1, <2>2 DEF InLoop, LoopPcs, InStepPcs
<1> QED BY <1>1, OneLoop DEF OneDriver, TurnInv, Drives, Driven

LEMMA AlwaysTurnInv ==
    ASSUME "throw" \notin FaultKinds
    PROVE  Spec => [](WriteInv /\ TurnInv)
<1>1. WriteInv /\ WriteInv' /\ TurnInv /\ [Next]_vars => TurnInv'
  BY TurnInvNext
<1> QED BY <1>1, TurnInvInit, AlwaysWriteInv, PTL DEF Spec

\* As long as no database call fails, a run is driven by one slot at a time, and
\* no other run of the conversation with it, whatever jobs are delivered again,
\* swept, cancelled or resumed meanwhile, and across crashes (advance's claim,
\* submit's lock, and every finalize's compare-and-set on the status).
THEOREM AssistantOneDriver ==
    ASSUME "throw" \notin FaultKinds
    PROVE  Spec => []OneDriver
<1>1. WriteInv /\ TurnInv => OneDriver
  BY DriversAreOne
<1> QED BY <1>1, AlwaysTurnInv, PTL

\* As long as no database call fails, every step that called tools is followed
\* by the message that answers it, whether its run ended, was resumed, was swept
\* after a crash or was followed by another (answerOpenStep and its callers).
THEOREM AssistantCallsAnswered ==
    ASSUME "throw" \notin FaultKinds
    PROVE  Spec => []EveryCallAnswered
<1>1. TurnInv => EveryCallAnswered
  BY DEF TurnInv
<1> QED BY <1>1, AlwaysTurnInv, PTL
=============================================================================
