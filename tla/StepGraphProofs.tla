-------------------------- MODULE StepGraphProofs --------------------------
(***************************************************************************)
(* The cycle check decides acyclicity, and no walk of a version it lets     *)
(* through visits a step twice, for every set of step arrays.               *)
(*                                                                         *)
(* The search: the gray steps are the frames of the stack, each frame one  *)
(* edge above the next, so an edge back to a gray step closes a cycle; an   *)
(* edge a frame is done with leads to a black step, so a step turns black   *)
(* after all it leads to, and no set of black steps leads back into itself. *)
(* The walk: the path follows edges only, so two visits of one step would   *)
(* enclose a set of steps each of which has an edge back into the set.      *)
(***************************************************************************)
EXTENDS StepGraphs, SequenceTheorems, TLAPS

Steps == DOMAIN steps

\* The check and the walk read the version with the same operators.
LEMMA CheckReads ==
    /\ \A g : Check!KeysOf(g) = KeysOf(g)
    /\ \A g, key : Check!IndexOf(g, key) = IndexOf(g, key)
    /\ \A g, i : Check!OnSuccess(g, i) = OnSuccess(g, i)
    /\ \A g, i : Check!OnFailure(g, i) = OnFailure(g, i)
    /\ \A g : Check!Acyclic(g) <=> Acyclic(g)
<1>1. \A g : Check!KeysOf(g) = KeysOf(g)
  BY DEF Check!KeysOf, KeysOf
<1>2. \A g, key : Check!IndexOf(g, key) = IndexOf(g, key)
  BY DEF Check!IndexOf, IndexOf
<1>3. \A g, i : Check!OnSuccess(g, i) = OnSuccess(g, i)
  BY DEF Check!OnSuccess, OnSuccess, Check!Unset, Unset, Check!EndSuccess, EndSuccess
<1>4. \A g, i : Check!OnFailure(g, i) = OnFailure(g, i)
  BY <1>3 DEF Check!OnFailure, OnFailure, Check!Unset, Unset, Check!EscalateToManual,
              EscalateToManual, Check!StopFail, StopFail
<1>5. \A g, i : Check!Adjacent(g, i) = Adjacent(g, i)
  BY <1>3, <1>4 DEF Check!Adjacent, Adjacent
<1>6. \A g : Check!Acyclic(g) <=> Acyclic(g)
  BY <1>5 DEF Check!Acyclic, Acyclic
<1> QED BY <1>1, <1>2, <1>3, <1>4, <1>6

\* The edge to a key: the one step that has it, or none.
LEMMA EdgeToIs ==
    ASSUME UniqueKeys(steps), NEW target
    PROVE  LET e == Check!EdgeTo(target) IN
           /\ e \in Seq(Steps)
           /\ \A j \in Steps : (\E n \in 1 .. Len(e) : e[n] = j) <=> steps[j].key = target
<1>1. CASE target \in KeysOf(steps)
  <2> DEFINE i == IndexOf(steps, target)
  <2>1. i \in Steps /\ steps[i].key = target
    BY <1>1 DEF IndexOf, KeysOf, Steps
  <2>2. Check!EdgeTo(target) = <<i>>
    BY <1>1, CheckReads DEF Check!EdgeTo
  <2>3. \A j \in Steps : steps[j].key = target <=> j = i
    BY <2>1 DEF UniqueKeys, Steps
  <2> HIDE DEF i
  <2>4. <<i>> \in Seq(Steps) /\ Len(<<i>>) = 1 /\ <<i>>[1] = i
    BY <2>1
  <2>5. \A j \in Steps : (\E n \in 1 .. 1 : <<i>>[n] = j) <=> j = i
    BY <2>4
  <2> QED BY <2>2, <2>3, <2>4, <2>5
<1>2. CASE target \notin KeysOf(steps)
  <2>1. Check!EdgeTo(target) = <<>>
    BY <1>2, CheckReads DEF Check!EdgeTo
  <2>2. \A j \in Steps : steps[j].key # target
    BY <1>2 DEF KeysOf, Steps
  <2>3. <<>> \in Seq(Steps) /\ Len(<<>>) = 0
    OBVIOUS
  <2>4. ~ \E n \in 1 .. Len(<<>>) : TRUE
    BY <2>3
  <2> QED BY <2>1, <2>2, <2>3, <2>4
<1> QED BY <1>1, <1>2

\* What the search looks at is what the version can follow.
LEMMA EdgesAre ==
    ASSUME UniqueKeys(steps), NEW i \in Steps
    PROVE  LET e == Check!Edges(i) IN
           /\ e \in Seq(Steps) /\ Len(e) \in Nat
           /\ \A n \in 1 .. Len(e) : e[n] \in Adjacent(steps, i)
           /\ \A j \in Adjacent(steps, i) : \E n \in 1 .. Len(e) : e[n] = j
<1> DEFINE s == Check!EdgeTo(OnSuccess(steps, i))
           f == Check!EdgeTo(OnFailure(steps, i))
           e == s \o f
<1>1. /\ s \in Seq(Steps)
      /\ \A j \in Steps : (\E n \in 1 .. Len(s) : s[n] = j) <=> steps[j].key = OnSuccess(steps, i)
  BY EdgeToIs
<1>2. /\ f \in Seq(Steps)
      /\ \A j \in Steps : (\E n \in 1 .. Len(f) : f[n] = j) <=> steps[j].key = OnFailure(steps, i)
  BY EdgeToIs
<1>3. \A j : j \in Adjacent(steps, i) <=>
               j \in Steps /\ (steps[j].key = OnSuccess(steps, i) \/ steps[j].key = OnFailure(steps, i))
  BY DEF Adjacent, Steps
<1>4. Check!Edges(i) = e
  BY CheckReads DEF Check!Edges
<1> HIDE DEF s, f
<1>5. /\ e \in Seq(Steps) /\ Len(e) = Len(s) + Len(f) /\ Len(s) \in Nat /\ Len(f) \in Nat
      /\ \A n \in 1 .. Len(s) : e[n] = s[n]
      /\ \A n \in 1 .. Len(f) : e[Len(s) + n] = f[n]
  <2>1. Len(s) \in Nat /\ Len(f) \in Nat
    BY <1>1, <1>2, LenProperties
  <2>2. /\ e \in Seq(Steps) /\ Len(e) = Len(s) + Len(f)
        /\ \A n \in 1 .. Len(s) + Len(f) : e[n] = IF n <= Len(s) THEN s[n] ELSE f[n - Len(s)]
    BY <1>1, <1>2, ConcatProperties
  <2>3. ASSUME NEW n \in 1 .. Len(f) PROVE e[Len(s) + n] = f[n]
    <3>1. Len(s) + n \in 1 .. Len(s) + Len(f) /\ ~ (Len(s) + n <= Len(s)) /\ (Len(s) + n) - Len(s) = n
      BY <2>1
    <3> HIDE DEF e
    <3> QED BY <2>2, <3>1
  <2> HIDE DEF e
  <2> QED BY <2>1, <2>2, <2>3
<1>6. ASSUME NEW n \in 1 .. Len(e) PROVE e[n] \in Adjacent(steps, i)
  <2>1. e[n] \in Steps
    BY <1>5, ElementOfSeq
  <2>2. CASE n \in 1 .. Len(s)
    BY <2>1, <2>2, <1>1, <1>3, <1>5
  <2>3. CASE n \notin 1 .. Len(s)
    <3>1. n - Len(s) \in 1 .. Len(f) /\ Len(s) + (n - Len(s)) = n
      BY <2>3, <1>5
    <3>2. e[n] = f[n - Len(s)]
      BY <3>1, <1>5
    <3> QED BY <2>1, <3>1, <3>2, <1>2, <1>3
  <2> QED BY <2>2, <2>3
<1>7. ASSUME NEW j \in Adjacent(steps, i) PROVE \E n \in 1 .. Len(e) : e[n] = j
  <2>1. CASE steps[j].key = OnSuccess(steps, i)
    <3>1. PICK n \in 1 .. Len(s) : s[n] = j
      BY <2>1, <1>1, <1>3
    <3> QED BY <3>1, <1>5
  <2>2. CASE steps[j].key = OnFailure(steps, i)
    <3>1. PICK n \in 1 .. Len(f) : f[n] = j
      BY <2>2, <1>2, <1>3
    <3>2. Len(s) + n \in 1 .. Len(e) /\ e[Len(s) + n] = j
      BY <3>1, <1>5
    <3> QED BY <3>2
  <2> QED BY <2>1, <2>2, <1>3
<1> QED BY <1>4, <1>5, <1>6, <1>7
-----------------------------------------------------------------------------
Colors == {"white", "gray", "black"}
Frames == [node : Steps, next : Nat \ {0}]

\* The types of the search.
SearchTypeOK ==
    /\ steps \in Seq(StepRecords) /\ steps # <<>> /\ UniqueKeys(steps) /\ TargetsKnown(steps)
    /\ start \in 1 .. Len(steps) + 1
    /\ stack \in Seq(Frames)
    /\ color \in [Steps -> Colors]
    /\ hasCycle \in BOOLEAN

\* The gray steps are the ones on the stack, each there once and reached by an
\* edge of the one below it.
StackIsPath ==
    /\ \A i \in Steps : color[i] = "gray" <=> \E n \in 1 .. Len(stack) : stack[n].node = i
    /\ \A m, n \in 1 .. Len(stack) : stack[m].node = stack[n].node => m = n
    /\ \A n \in 1 .. Len(stack) - 1 : stack[n + 1].node \in Adjacent(steps, stack[n].node)

\* The edges of a frame that were looked at lead to black steps, but for the
\* one that the search has followed.
LookedAt ==
    \A n \in 1 .. Len(stack) : \A k \in 1 .. Len(Check!Edges(stack[n].node)) :
        k < stack[n].next =>
            \/ color[Check!Edges(stack[n].node)[k]] = "black"
            \/ n < Len(stack) /\ Check!Edges(stack[n].node)[k] = stack[n + 1].node

Black(i) == color[i] = "black"

\* Black steps lead to black steps only, and not back to themselves.
BlackDone ==
    /\ \A i \in Steps : Black(i) => \A j \in Adjacent(steps, i) : Black(j)
    /\ \A S \in SUBSET Steps :
         S # {} /\ (\A i \in S : Black(i)) => \E i \in S : Adjacent(steps, i) \cap S = {}

Passed == \A i \in 1 .. start - 1 : Black(i)

SearchInv ==
    /\ SearchTypeOK
    /\ hasCycle => ~ Acyclic(steps)
    /\ ~ hasCycle => StackIsPath /\ LookedAt /\ BlackDone /\ Passed
-----------------------------------------------------------------------------
LEMMA AdjacentSteps == \A i : Adjacent(steps, i) \subseteq Steps
BY DEF Adjacent, Steps

LEMMA StackFacts ==
    ASSUME SearchTypeOK
    PROVE  /\ Len(stack) \in Nat /\ Len(steps) \in Nat /\ Steps = 1 .. Len(steps)
           /\ \A n \in 1 .. Len(stack) :
                stack[n] \in Frames /\ stack[n].node \in Steps /\ stack[n].next \in Nat \ {0}
           /\ stack # <<>> => Len(stack) \in 1 .. Len(stack)
           /\ stack = <<>> => Len(stack) = 0
<1>1. stack \in Seq(Frames) /\ steps \in Seq(StepRecords)
  BY DEF SearchTypeOK
<1>2. Len(stack) \in Nat /\ Len(steps) \in Nat /\ Steps = 1 .. Len(steps)
  BY <1>1, LenProperties DEF Steps
<1>3. \A n \in 1 .. Len(stack) : stack[n] \in Frames
  BY <1>1, ElementOfSeq
<1>4. stack # <<>> => Len(stack) # 0
  BY <1>1, EmptySeq
<1>5. stack = <<>> => Len(stack) = 0
  OBVIOUS
<1> QED BY <1>2, <1>3, <1>4, <1>5 DEF Frames

\* One more frame on top.
LEMMA Pushed ==
    ASSUME NEW s \in Seq(Frames), NEW i \in Steps
    PROVE  LET t == Append(s, [node |-> i, next |-> 1]) IN
           /\ t \in Seq(Frames) /\ Len(t) = Len(s) + 1
           /\ \A n \in 1 .. Len(s) : t[n] = s[n]
           /\ t[Len(s) + 1].node = i /\ t[Len(s) + 1].next = 1
<1> DEFINE f == [node |-> i, next |-> 1]
<1>1. f \in Frames /\ f.node = i /\ f.next = 1
  BY DEF Frames
<1> HIDE DEF f
<1> QED BY <1>1, AppendProperties DEF f

\* The top frame counts the edge it looks at.
LEMMA AdvancedIs ==
    ASSUME SearchTypeOK, stack # <<>>
    PROVE  LET t == Check!Advanced IN
           /\ t \in Seq(Frames) /\ Len(t) = Len(stack)
           /\ \A n \in 1 .. Len(stack) : t[n].node = stack[n].node
           /\ \A n \in 1 .. Len(stack) : n # Len(stack) => t[n].next = stack[n].next
           /\ t[Len(stack)].next = stack[Len(stack)].next + 1
<1> DEFINE L == Len(stack)
           f == [stack[L] EXCEPT !.next = @ + 1]
           t == [stack EXCEPT ![L] = f]
<1>1. /\ L \in 1 .. L /\ L \in Nat /\ stack \in [1 .. L -> Frames]
      /\ stack[L] \in Frames /\ stack[L].next \in Nat \ {0}
  BY StackFacts, LenProperties DEF SearchTypeOK
<1>2. Check!Advanced = t
  BY DEF Check!Advanced
<1>3. f \in Frames /\ f.node = stack[L].node /\ f.next = stack[L].next + 1
  BY <1>1 DEF Frames
<1> HIDE DEF f, L
<1>4. t \in [1 .. L -> Frames] /\ t[L] = f /\ \A n \in 1 .. L : n # L => t[n] = stack[n]
  BY <1>1, <1>3
<1>5. t \in Seq(Frames) /\ Len(t) = L
  BY <1>1, <1>4, SeqDef
<1> HIDE DEF t
<1> QED BY <1>2, <1>3, <1>4, <1>5 DEF L
-----------------------------------------------------------------------------
\* A white step without a frame is opened.
LEMMA OpenKeeps ==
    ASSUME SearchInv, Check!Open PROVE SearchInv'
<1> DEFINE top == [node |-> start, next |-> 1]
<1>1. /\ ~ hasCycle /\ start \in Steps /\ stack = <<>> /\ color[start] = "white"
      /\ stack' = Append(stack, top) /\ color' = [color EXCEPT ![start] = "gray"]
      /\ steps' = steps /\ start' = start /\ hasCycle' = hasCycle
  BY StackFacts DEF Check!Open, Check!Push, Check!Searching, SearchInv, SearchTypeOK
<1>2. SearchTypeOK /\ StackIsPath /\ LookedAt /\ BlackDone /\ Passed
  BY <1>1 DEF SearchInv
<1>3. /\ stack' \in Seq(Frames) /\ Len(stack) = 0 /\ Len(stack') = 1
      /\ stack'[1].node = start /\ stack'[1].next = 1
  <2>1. stack \in Seq(Frames) /\ Len(stack) = 0
    BY <1>1, <1>2, StackFacts DEF SearchTypeOK
  <2>2. /\ stack' \in Seq(Frames) /\ Len(stack') = Len(stack) + 1
        /\ stack'[Len(stack) + 1].node = start /\ stack'[Len(stack) + 1].next = 1
    BY <1>1, <2>1, Pushed
  <2> QED BY <2>1, <2>2
<1>4. /\ color' \in [Steps -> Colors] /\ color'[start] = "gray"
      /\ \A i \in Steps : i # start => color'[i] = color[i]
      /\ \A i \in Steps : Black(i)' <=> Black(i)
  BY <1>1, <1>2 DEF SearchTypeOK, Colors, Black
<1>5. Steps' = Steps /\ Frames' = Frames /\ \A i : Check!Edges(i)' = Check!Edges(i)
  BY <1>1 DEF Steps, Frames, Check!Edges, Check!EdgeTo
<1>6. SearchTypeOK'
  BY <1>1, <1>2, <1>3, <1>4, <1>5 DEF SearchTypeOK
<1>7. StackIsPath'
  <2>1. \A i \in Steps : color[i] # "gray"
    BY <1>2, <1>3 DEF StackIsPath
  <2>2. 1 .. Len(stack') = {1} /\ 1 .. Len(stack') - 1 = {}
    BY <1>3
  <2> QED BY <1>1, <1>3, <1>4, <1>5, <2>1, <2>2 DEF StackIsPath
<1>8. LookedAt'
  BY <1>3 DEF LookedAt
<1>9. BlackDone'
  BY <1>1, <1>2, <1>4, <1>5, AdjacentSteps DEF BlackDone
<1>10. Passed'
  BY <1>1, <1>2, <1>4, StackFacts DEF Passed, SearchTypeOK
<1> QED BY <1>1, <1>6, <1>7, <1>8, <1>9, <1>10 DEF SearchInv

\* A step that is done already is passed over.
LEMMA SkipKeeps ==
    ASSUME SearchInv, Check!Skip PROVE SearchInv'
<1>1. /\ ~ hasCycle /\ start \in 1 .. Len(steps) /\ stack = <<>> /\ color[start] # "white"
      /\ start' = start + 1 /\ UNCHANGED <<steps, stack, color, hasCycle>>
  BY StackFacts DEF Check!Skip, Check!Searching, SearchInv, SearchTypeOK
<1>2. SearchTypeOK /\ StackIsPath /\ LookedAt /\ BlackDone /\ Passed
  BY <1>1 DEF SearchInv
<1>3. Black(start)
  <2>1. start \in Steps /\ Len(stack) = 0
    BY <1>1, <1>2, StackFacts
  <2>2. color[start] # "gray"
    BY <1>2, <2>1 DEF StackIsPath
  <2> QED BY <1>1, <1>2, <2>1, <2>2 DEF SearchTypeOK, Colors, Black
<1>4. SearchTypeOK'
  BY <1>1, <1>2, StackFacts DEF SearchTypeOK, Steps, Frames
<1>5. StackIsPath' /\ LookedAt' /\ BlackDone'
  BY <1>1, <1>2 DEF StackIsPath, LookedAt, BlackDone, Black, Steps, Check!Edges, Check!EdgeTo
<1>6. Passed'
  BY <1>1, <1>2, <1>3 DEF Passed, Black
<1> QED BY <1>1, <1>4, <1>5, <1>6 DEF SearchInv
-----------------------------------------------------------------------------
\* The edge the top frame looks at.
LEMMA ChildIs ==
    ASSUME SearchInv, Check!Searching, Check!HasEdge
    PROVE  LET L == Len(stack)
               e == Check!Edges(stack[L].node) IN
           /\ ~ hasCycle /\ SearchTypeOK /\ StackIsPath /\ LookedAt /\ BlackDone /\ Passed
           /\ stack # <<>> /\ L \in 1 .. L /\ L \in Nat /\ stack[L].node \in Steps
           /\ stack[L].next \in 1 .. Len(e) /\ Check!Child = e[stack[L].next]
           /\ Check!Child \in Steps /\ Check!Child \in Adjacent(steps, stack[L].node)
<1> DEFINE L == Len(stack)
           e == Check!Edges(stack[L].node)
<1>1. ~ hasCycle /\ SearchTypeOK /\ StackIsPath /\ LookedAt /\ BlackDone /\ Passed
  BY DEF SearchInv, Check!Searching
<1>2. stack # <<>> /\ stack[L].next <= Len(e) /\ Check!Child = e[stack[L].next]
  BY DEF Check!HasEdge, Check!Top, Check!Child
<1>3. L \in 1 .. L /\ L \in Nat /\ stack[L].node \in Steps /\ stack[L].next \in Nat \ {0}
  BY <1>1, <1>2, StackFacts
<1>4. /\ Len(e) \in Nat /\ \A n \in 1 .. Len(e) : e[n] \in Adjacent(steps, stack[L].node)
  BY <1>1, <1>3, EdgesAre DEF SearchTypeOK
<1> HIDE DEF e
<1>5. stack[L].next \in 1 .. Len(e)
  BY <1>2, <1>3, <1>4
<1>6. Check!Child \in Adjacent(steps, stack[L].node)
  BY <1>2, <1>4, <1>5
<1> QED BY <1>1, <1>2, <1>3, <1>5, <1>6, AdjacentSteps DEF e

\* An edge back to a gray step closes a cycle: the steps on the stack from
\* there on.
LEMMA BackKeeps ==
    ASSUME SearchInv, Check!Back PROVE SearchInv'
<1> DEFINE L == Len(stack)
<1>1. Check!Searching /\ Check!HasEdge /\ color[Check!Child] = "gray"
      /\ hasCycle' = TRUE /\ stack' = Check!Advanced /\ UNCHANGED <<steps, start, color>>
  BY DEF Check!Back
<1>2. /\ SearchTypeOK /\ StackIsPath /\ stack # <<>> /\ L \in Nat
      /\ Check!Child \in Steps /\ Check!Child \in Adjacent(steps, stack[L].node)
  BY <1>1, ChildIs
<1>3. PICK m \in 1 .. L : stack[m].node = Check!Child
  BY <1>1, <1>2 DEF StackIsPath
<1> DEFINE S == {stack[k].node : k \in m .. L}
<1>4. S \in SUBSET Steps /\ stack[m].node \in S
  BY <1>2, <1>3, StackFacts
<1>5. ASSUME NEW k \in m .. L PROVE Adjacent(steps, stack[k].node) \cap S # {}
  <2>1. CASE k = L
    BY <2>1, <1>2, <1>3, <1>4
  <2>2. CASE k # L
    <3>1. k \in 1 .. L - 1 /\ k + 1 \in m .. L
      BY <2>2, <1>2, <1>3
    <3>2. stack[k + 1].node \in Adjacent(steps, stack[k].node) /\ stack[k + 1].node \in S
      BY <3>1, <1>2 DEF StackIsPath
    <3> QED BY <3>2
  <2> QED BY <2>1, <2>2
<1>6. ~ Acyclic(steps)
  <2>1. \A i \in S : Adjacent(steps, i) \cap S # {}
    BY <1>5
  <2> HIDE DEF S
  <2> QED BY <1>4, <2>1 DEF Acyclic, Steps
<1>7. SearchTypeOK'
  <2>1. stack' \in Seq(Frames)
    BY <1>1, <1>2, AdvancedIs
  <2>2. Steps' = Steps /\ Frames' = Frames
    BY <1>1 DEF Steps, Frames
  <2> QED BY <1>1, <1>2, <2>1, <2>2 DEF SearchTypeOK
<1> QED BY <1>1, <1>6, <1>7 DEF SearchInv

\* A white step is opened above the step that leads to it.
LEMMA DownKeeps ==
    ASSUME SearchInv, Check!Down PROVE SearchInv'
<1> DEFINE L == Len(stack)
           i == Check!Child
           a == Check!Advanced
           e(n) == Check!Edges(stack[n].node)
<1>1. /\ Check!Searching /\ Check!HasEdge /\ color[i] = "white"
      /\ stack' = Append(a, [node |-> i, next |-> 1])
      /\ color' = [color EXCEPT ![i] = "gray"] /\ UNCHANGED <<steps, start, hasCycle>>
  BY DEF Check!Down
<1>2. /\ ~ hasCycle /\ SearchTypeOK /\ StackIsPath /\ LookedAt /\ BlackDone /\ Passed
      /\ stack # <<>> /\ L \in 1 .. L /\ L \in Nat
      /\ stack[L].next \in 1 .. Len(e(L)) /\ i = e(L)[stack[L].next]
      /\ i \in Steps /\ i \in Adjacent(steps, stack[L].node)
  BY <1>1, ChildIs
<1> HIDE DEF i
<1>3. /\ a \in Seq(Frames) /\ Len(a) = L
      /\ \A n \in 1 .. L : a[n].node = stack[n].node
      /\ \A n \in 1 .. L : n # L => a[n].next = stack[n].next
      /\ a[L].next = stack[L].next + 1
  BY <1>2, AdvancedIs
<1> HIDE DEF a
<1>4. /\ stack' \in Seq(Frames) /\ Len(stack') = L + 1
      /\ \A n \in 1 .. L : stack'[n] = a[n]
      /\ stack'[L + 1].node = i /\ stack'[L + 1].next = 1
  BY <1>1, <1>2, <1>3, Pushed
<1>5. /\ color' \in [Steps -> Colors] /\ color'[i] = "gray"
      /\ \A j \in Steps : j # i => color'[j] = color[j]
      /\ \A j \in Steps : Black(j)' <=> Black(j)
  BY <1>1, <1>2 DEF SearchTypeOK, Colors, Black
<1>6. Steps' = Steps /\ Frames' = Frames /\ \A j : Check!Edges(j)' = Check!Edges(j)
  BY <1>1 DEF Steps, Frames, Check!Edges, Check!EdgeTo
<1>7. SearchTypeOK'
  BY <1>1, <1>2, <1>4, <1>5, <1>6 DEF SearchTypeOK
<1>8. \A n \in 1 .. L : stack'[n].node = stack[n].node
  BY <1>3, <1>4
<1>9. \A n \in 1 .. L : stack[n].node # i
  BY <1>1, <1>2 DEF StackIsPath
<1>10. StackIsPath'
  <2>1. ASSUME NEW j \in Steps
        PROVE  color'[j] = "gray" <=> \E n \in 1 .. Len(stack') : stack'[n].node = j
    <3>1. (\E n \in 1 .. Len(stack') : stack'[n].node = j)
            <=> j = i \/ \E n \in 1 .. L : stack[n].node = j
      <4>1. \A n : n \in 1 .. Len(stack') <=> n \in 1 .. L \/ n = L + 1
        BY <1>2, <1>4
      <4>2. stack'[L + 1].node = i
        BY <1>4
      <4> HIDE DEF L
      <4> QED BY <4>1, <4>2, <1>8
    <3> QED BY <3>1, <1>2, <1>5 DEF StackIsPath
  <2>2. ASSUME NEW m \in 1 .. Len(stack'), NEW n \in 1 .. Len(stack'),
               stack'[m].node = stack'[n].node
        PROVE  m = n
    <3>1. (m \in 1 .. L \/ m = L + 1) /\ (n \in 1 .. L \/ n = L + 1)
      BY <1>2, <1>4
    <3> QED BY <2>2, <3>1, <1>2, <1>4, <1>8, <1>9 DEF StackIsPath
  <2>3. ASSUME NEW n \in 1 .. Len(stack') - 1
        PROVE  stack'[n + 1].node \in Adjacent(steps, stack'[n].node)
    <3>1. n \in 1 .. L /\ (n = L \/ (n \in 1 .. L - 1 /\ n + 1 \in 1 .. L))
      BY <1>2, <1>4
    <3> QED BY <3>1, <1>2, <1>4, <1>8 DEF StackIsPath
  <2> QED BY <1>1, <1>6, <2>1, <2>2, <2>3 DEF StackIsPath
<1>11. LookedAt'
  <2> SUFFICES ASSUME NEW n \in 1 .. Len(stack'),
                      NEW k \in 1 .. Len(Check!Edges(stack'[n].node)), k < stack'[n].next
               PROVE  LET j == Check!Edges(stack'[n].node)[k] IN
                      color'[j] = "black" \/ (n < Len(stack') /\ j = stack'[n + 1].node)
    BY <1>6 DEF LookedAt
  <2>1. n # L + 1
    BY <1>4
  <2>2. n \in 1 .. L /\ n < Len(stack') /\ stack'[n].node = stack[n].node
    BY <2>1, <1>2, <1>4, <1>8
  <2> DEFINE j == e(n)[k]
  <2>3. j \in Steps
    <3>1. stack[n].node \in Steps
      BY <2>2, <1>2, StackFacts
    <3>2. j \in Adjacent(steps, stack[n].node)
      BY <2>2, <3>1, <1>2, EdgesAre DEF SearchTypeOK
    <3> QED BY <3>2, AdjacentSteps
  <2>4. CASE k < stack[n].next
    <3>1. color[j] = "black" \/ (n < L /\ j = stack[n + 1].node)
      BY <2>2, <2>4, <1>2 DEF LookedAt
    <3>2. color[j] = "black" => color'[j] = "black"
      BY <2>3, <1>5 DEF Black
    <3>3. n < L => n + 1 \in 1 .. L
      BY <2>2, <1>2
    <3> HIDE DEF j
    <3>4. color'[j] = "black" \/ (n < L /\ j = stack'[n + 1].node)
      BY <3>1, <3>2, <3>3, <1>8
    <3> QED BY <3>4, <2>2 DEF j
  <2>5. CASE ~ (k < stack[n].next)
    <3>1. n = L
      BY <2>2, <2>5, <1>3, <1>4
    <3>2. k = stack[L].next
      <4>1. stack'[L].next = stack[L].next + 1 /\ stack[L].next \in Nat
        BY <1>2, <1>3, <1>4, StackFacts
      <4>2. k \in Nat
        OBVIOUS
      <4> QED BY <2>5, <3>1, <4>1, <4>2
    <3> QED BY <2>2, <3>1, <3>2, <1>2, <1>4
  <2> QED BY <2>4, <2>5
<1>12. BlackDone'
  BY <1>1, <1>2, <1>5, <1>6, AdjacentSteps DEF BlackDone
<1>13. Passed'
  BY <1>1, <1>2, <1>5, StackFacts DEF Passed, SearchTypeOK
<1> QED BY <1>1, <1>2, <1>7, <1>10, <1>11, <1>12, <1>13 DEF SearchInv

\* An edge to a black step is done with.
LEMMA AcrossKeeps ==
    ASSUME SearchInv, Check!Across PROVE SearchInv'
<1> DEFINE L == Len(stack)
           i == Check!Child
           e(n) == Check!Edges(stack[n].node)
<1>1. /\ Check!Searching /\ Check!HasEdge /\ color[i] = "black"
      /\ stack' = Check!Advanced /\ UNCHANGED <<steps, start, color, hasCycle>>
  BY DEF Check!Across
<1>2. /\ ~ hasCycle /\ SearchTypeOK /\ StackIsPath /\ LookedAt /\ BlackDone /\ Passed
      /\ stack # <<>> /\ L \in 1 .. L /\ L \in Nat
      /\ stack[L].next \in 1 .. Len(e(L)) /\ i = e(L)[stack[L].next]
  BY <1>1, ChildIs
<1> HIDE DEF i
<1>3. /\ stack' \in Seq(Frames) /\ Len(stack') = L
      /\ \A n \in 1 .. L : stack'[n].node = stack[n].node
      /\ \A n \in 1 .. L : n # L => stack'[n].next = stack[n].next
      /\ stack'[L].next = stack[L].next + 1
  BY <1>1, <1>2, AdvancedIs
<1>4. Steps' = Steps /\ Frames' = Frames /\ \A j : Check!Edges(j)' = Check!Edges(j)
  BY <1>1 DEF Steps, Frames, Check!Edges, Check!EdgeTo
<1>5. SearchTypeOK'
  BY <1>1, <1>2, <1>3, <1>4 DEF SearchTypeOK
<1>6. StackIsPath'
  <2>1. \A j \in Steps : (\E n \in 1 .. L : stack'[n].node = j)
                             <=> \E n \in 1 .. L : stack[n].node = j
    BY <1>3
  <2>2. \A n \in 1 .. L - 1 : n \in 1 .. L /\ n + 1 \in 1 .. L
    BY <1>2
  <2>3. \A n \in 1 .. L - 1 : stack'[n + 1].node \in Adjacent(steps, stack'[n].node)
    BY <1>2, <1>3, <2>2 DEF StackIsPath
  <2>4. \A m, n \in 1 .. L : stack'[m].node = stack'[n].node => m = n
    BY <1>2, <1>3 DEF StackIsPath
  <2>5. \A j \in Steps : color[j] = "gray" <=> \E n \in 1 .. L : stack'[n].node = j
    BY <1>2, <2>1 DEF StackIsPath
  <2>6. Len(stack') = L /\ Steps' = Steps /\ color' = color /\ steps' = steps
    BY <1>1, <1>3, <1>4
  <2> HIDE DEF L
  <2> QED BY <2>3, <2>4, <2>5, <2>6 DEF StackIsPath
<1>7. LookedAt'
  <2> SUFFICES ASSUME NEW n \in 1 .. L, NEW k \in 1 .. Len(e(n)), k < stack'[n].next
               PROVE  color[e(n)[k]] = "black" \/ (n < L /\ e(n)[k] = stack'[n + 1].node)
    BY <1>1, <1>3, <1>4 DEF LookedAt
  <2>1. CASE k < stack[n].next
    <3>1. color[e(n)[k]] = "black" \/ (n < L /\ e(n)[k] = stack[n + 1].node)
      BY <2>1, <1>2 DEF LookedAt
    <3>2. n < L => n + 1 \in 1 .. L
      BY <1>2
    <3> QED BY <3>1, <3>2, <1>3
  <2>2. CASE ~ (k < stack[n].next)
    <3>1. n = L
      BY <2>2, <1>3
    <3>2. k = stack[L].next
      <4>1. stack'[L].next = stack[L].next + 1 /\ stack[L].next \in Nat
        BY <1>2, <1>3, StackFacts
      <4>2. k \in Nat
        OBVIOUS
      <4> QED BY <2>2, <3>1, <4>1, <4>2
    <3> QED BY <3>1, <3>2, <1>1, <1>2
  <2> QED BY <2>1, <2>2
<1>8. BlackDone' /\ Passed'
  BY <1>1, <1>2 DEF BlackDone, Passed, Black, Steps
<1> QED BY <1>1, <1>2, <1>5, <1>6, <1>7, <1>8 DEF SearchInv

\* A step whose edges all lead to black steps turns black: what it leads to was
\* closed before it, so no cycle of black steps goes through it.
LEMMA CloseKeeps ==
    ASSUME SearchInv, Check!Close PROVE SearchInv'
<1> DEFINE L == Len(stack)
           v == stack[L].node
           e(n) == Check!Edges(stack[n].node)
<1>1. /\ Check!Searching /\ stack # <<>> /\ ~ (stack[L].next <= Len(e(L)))
      /\ color' = [color EXCEPT ![v] = "black"] /\ stack' = SubSeq(stack, 1, L - 1)
      /\ UNCHANGED <<steps, start, hasCycle>>
  BY DEF Check!Close, Check!PopBlack, Check!HasEdge, Check!Top
<1>2. ~ hasCycle /\ SearchTypeOK /\ StackIsPath /\ LookedAt /\ BlackDone /\ Passed
  BY <1>1 DEF SearchInv, Check!Searching
<1>3. /\ L \in 1 .. L /\ L \in Nat /\ v \in Steps /\ stack[L].next \in Nat \ {0}
      /\ \A n \in 1 .. L : stack[n] \in Frames /\ stack[n].node \in Steps
  BY <1>1, <1>2, StackFacts
<1>4. /\ Len(e(L)) \in Nat
      /\ \A j \in Adjacent(steps, v) : \E k \in 1 .. Len(e(L)) : e(L)[k] = j
  BY <1>2, <1>3, EdgesAre DEF SearchTypeOK
<1>5. \A j \in Adjacent(steps, v) : Black(j)
  <2> SUFFICES ASSUME NEW j \in Adjacent(steps, v) PROVE color[j] = "black"
    BY DEF Black
  <2>1. PICK k \in 1 .. Len(e(L)) : e(L)[k] = j
    BY <1>4
  <2>2. k < stack[L].next
    <3>1. Len(e(L)) \in Nat /\ stack[L].next \in Nat /\ k \in Nat /\ k <= Len(e(L))
      BY <1>3, <1>4
    <3> QED BY <3>1, <1>1
  <2> QED BY <2>1, <2>2, <1>2, <1>3 DEF LookedAt
<1>6. color[v] = "gray"
  BY <1>2, <1>3 DEF StackIsPath
<1> DEFINE M == L - 1
<1>7. stack' \in Seq(Frames) /\ Len(stack') = M /\ \A n \in 1 .. M : stack'[n] = stack[n]
  <2>1. M \in Int /\ \A n \in 1 .. M : stack[n] \in Frames
    BY <1>3
  <2>2. /\ SubSeq(stack, 1, M) \in Seq(Frames)
        /\ Len(SubSeq(stack, 1, M)) = IF 1 <= M THEN M - 1 + 1 ELSE 0
        /\ \A n \in 1 .. M - 1 + 1 : SubSeq(stack, 1, M)[n] = stack[1 + n - 1]
    <3> HIDE DEF M
    <3> QED BY <2>1, SubSeqProperties
  <2>3. /\ (IF 1 <= M THEN M - 1 + 1 ELSE 0) = M
        /\ \A n \in 1 .. M : n \in 1 .. M - 1 + 1 /\ 1 + n - 1 = n
    <3>1. M \in Nat
      BY <1>3
    <3> HIDE DEF M
    <3> QED BY <3>1
  <2> HIDE DEF M
  <2>4. \A n \in 1 .. M : SubSeq(stack, 1, M)[n] = stack[n]
    BY <2>2, <2>3
  <2>5. stack' = SubSeq(stack, 1, M)
    BY <1>1 DEF M
  <2> QED BY <2>2, <2>3, <2>4, <2>5
<1>8. /\ color' \in [Steps -> Colors] /\ color'[v] = "black"
      /\ \A j \in Steps : j # v => color'[j] = color[j]
      /\ \A j \in Steps : Black(j)' <=> Black(j) \/ j = v
  BY <1>1, <1>2, <1>3 DEF SearchTypeOK, Colors, Black
<1>9. Steps' = Steps /\ Frames' = Frames /\ \A j : Check!Edges(j)' = Check!Edges(j)
  BY <1>1 DEF Steps, Frames, Check!Edges, Check!EdgeTo
<1>10. SearchTypeOK'
  BY <1>1, <1>2, <1>7, <1>8, <1>9 DEF SearchTypeOK
<1>11. \A n \in 1 .. M : n \in 1 .. L /\ n # L /\ stack[n].node # v
  BY <1>2, <1>3 DEF StackIsPath
<1>12. StackIsPath'
  <2>1. ASSUME NEW j \in Steps
        PROVE  color'[j] = "gray" <=> \E n \in 1 .. M : stack[n].node = j
    <3>1. (\E n \in 1 .. M : stack[n].node = j)
            <=> j # v /\ \E n \in 1 .. L : stack[n].node = j
      <4>1. \A n \in 1 .. L : n = L \/ n \in 1 .. M
        BY <1>3
      <4> QED BY <4>1, <1>11
    <3> QED BY <3>1, <1>2, <1>8 DEF StackIsPath
  <2>2. \A n \in 1 .. M - 1 : n \in 1 .. M /\ n + 1 \in 1 .. M /\ n \in 1 .. L - 1
    BY <1>3
  <2>3. \A n \in 1 .. M - 1 : stack'[n + 1].node \in Adjacent(steps, stack'[n].node)
    BY <2>2, <1>2, <1>7 DEF StackIsPath
  <2>4. \A m, n \in 1 .. M : stack'[m].node = stack'[n].node => m = n
    BY <1>2, <1>7, <1>11 DEF StackIsPath
  <2>5. \A j \in Steps : color'[j] = "gray" <=> \E n \in 1 .. M : stack'[n].node = j
    BY <2>1, <1>7
  <2> HIDE DEF M
  <2> QED BY <1>1, <1>7, <1>9, <2>3, <2>4, <2>5 DEF StackIsPath
<1>13. LookedAt'
  <2>0. SUFFICES ASSUME NEW n \in 1 .. M, NEW k \in 1 .. Len(e(n)), k < stack[n].next
                 PROVE  color'[e(n)[k]] = "black" \/ (n < M /\ e(n)[k] = stack'[n + 1].node)
    <3>1. /\ Len(stack') = M
          /\ \A n \in 1 .. M : stack'[n].node = stack[n].node /\ stack'[n].next = stack[n].next
      BY <1>7
    <3> HIDE DEF M
    <3> QED BY <3>1, <1>9 DEF LookedAt
  <2>1. color[e(n)[k]] = "black" \/ (n < L /\ e(n)[k] = stack[n + 1].node)
    BY <2>0, <1>2, <1>11 DEF LookedAt
  <2>2. CASE color[e(n)[k]] = "black"
    <3>1. e(n)[k] \in Steps
      <4>1. stack[n].node \in Steps
        BY <1>3, <1>11
      <4>2. e(n)[k] \in Adjacent(steps, stack[n].node)
        BY <4>1, <1>2, EdgesAre DEF SearchTypeOK
      <4> QED BY <4>2, AdjacentSteps
    <3> HIDE DEF e
    <3> QED BY <2>2, <3>1, <1>8 DEF Black
  <2>3. CASE n + 1 = L /\ e(n)[k] = stack[n + 1].node
    BY <2>3, <1>8
  <2>4. CASE n + 1 # L /\ e(n)[k] = stack[n + 1].node
    <3>1. n < M /\ n + 1 \in 1 .. M
      BY <2>4, <1>3
    <3> QED BY <2>4, <3>1, <1>7
  <2> QED BY <2>1, <2>2, <2>3, <2>4
<1>14. BlackDone'
  <2>1. ASSUME NEW S \in SUBSET Steps, S # {}, \A i \in S : Black(i) \/ i = v,
               \A i \in S : Adjacent(steps, i) \cap S # {}
        PROVE  FALSE
    <3> DEFINE T == S \ {v}
    <3>1. \A i \in T : Adjacent(steps, i) \cap T # {}
      <4>1. \A i \in T : Black(i)
        BY <2>1
      <4>2. \A i \in T : v \notin Adjacent(steps, i)
        BY <4>1, <1>2, <1>6 DEF BlackDone, Black
      <4> QED BY <2>1, <4>2
    <3>2. T # {}
      <4>1. v \notin Adjacent(steps, v)
        BY <1>5, <1>6 DEF Black
      <4> QED BY <2>1, <4>1
    <3>3. T \in SUBSET Steps /\ \A i \in T : Black(i)
      BY <2>1
    <3> HIDE DEF T
    <3> QED BY <3>1, <3>2, <3>3, <1>2 DEF BlackDone
  <2>2. \A i \in Steps : Black(i)' => \A j \in Adjacent(steps, i) : Black(j)'
    BY <1>2, <1>5, <1>8, AdjacentSteps DEF BlackDone
  <2>3. \A S \in SUBSET Steps :
          S # {} /\ (\A i \in S : Black(i)') => \E i \in S : Adjacent(steps, i) \cap S = {}
    BY <2>1, <1>8
  <2> QED BY <1>1, <1>9, <2>2, <2>3 DEF BlackDone
<1>15. Passed'
  BY <1>1, <1>2, <1>8, StackFacts DEF Passed, SearchTypeOK
<1> QED BY <1>1, <1>2, <1>10, <1>12, <1>13, <1>14, <1>15 DEF SearchInv

LEMMA CheckKeeps ==
    ASSUME SearchInv, Check!Next PROVE SearchInv'
BY OpenKeeps, SkipKeeps, BackKeeps, DownKeeps, AcrossKeeps, CloseKeeps DEF Check!Next

\* When every step is black, no set of steps leads back into itself.
LEMMA VerdictOf ==
    ASSUME SearchInv, ~ Check!Searching PROVE hasCycle <=> ~ Acyclic(steps)
<1>1. CASE hasCycle
  BY <1>1 DEF SearchInv
<1>2. CASE ~ hasCycle
  <2>1. SearchTypeOK /\ BlackDone /\ Passed /\ ~ (start <= Len(steps))
    BY <1>2 DEF SearchInv, Check!Searching
  <2>2. \A i \in Steps : Black(i)
    <3>1. start - 1 = Len(steps)
      BY <2>1, StackFacts DEF SearchTypeOK
    <3> QED BY <2>1, <3>1, StackFacts DEF Passed
  <2> QED BY <1>2, <2>1, <2>2 DEF BlackDone, Acyclic, Steps
<1> QED BY <1>1, <1>2
-----------------------------------------------------------------------------
(***************************************************************************)
(* The walk of a published version.                                         *)
(***************************************************************************)

\* The walk reads the version with the same operators, too.
LEMMA WalkReads ==
    /\ \A g : Walk!KeysOf(g) = KeysOf(g)
    /\ \A g, key : Walk!IndexOf(g, key) = IndexOf(g, key)
    /\ \A g, i : Walk!OnSuccess(g, i) = OnSuccess(g, i)
    /\ \A g, i : Walk!OnFailure(g, i) = OnFailure(g, i)
    /\ Walk!StopFail = StopFail
<1>1. \A g : Walk!KeysOf(g) = KeysOf(g)
  BY DEF Walk!KeysOf, KeysOf
<1>2. \A g, key : Walk!IndexOf(g, key) = IndexOf(g, key)
  BY DEF Walk!IndexOf, IndexOf
<1>3. \A g, i : Walk!OnSuccess(g, i) = OnSuccess(g, i)
  BY DEF Walk!OnSuccess, OnSuccess, Walk!Unset, Unset, Walk!EndSuccess, EndSuccess
<1>4. \A g, i : Walk!OnFailure(g, i) = OnFailure(g, i)
  BY <1>3 DEF Walk!OnFailure, OnFailure, Walk!Unset, Unset, Walk!EscalateToManual,
              EscalateToManual, Walk!StopFail, StopFail
<1>5. Walk!StopFail = StopFail
  BY DEF Walk!StopFail, StopFail
<1> QED BY <1>1, <1>2, <1>3, <1>4, <1>5

\* Where a step of the walk ends up.
LEMMA FollowIs ==
    ASSUME NEW target, Walk!Follow(target)
    PROVE  \/ target \in KeysOf(steps) /\ cursor' = IndexOf(steps, target) /\ at' = "step"
           \/ target \notin KeysOf(steps) /\ at' \in {"paused", "failed", "ended"}
<1>1. CASE target \in KeysOf(steps)
  BY <1>1, WalkReads DEF Walk!Follow
<1>2. CASE target \notin KeysOf(steps)
  BY <1>2, WalkReads DEF Walk!Follow
<1> QED BY <1>1, <1>2

\* Every visit but the last is followed by a visit one edge further.
Chained == \A n \in 1 .. Len(path) - 1 : path[n + 1] \in Adjacent(steps, path[n])

\* The step about to be executed is one edge below the last one executed.
CursorFollows == at = "step" /\ path # <<>> => cursor \in Adjacent(steps, path[Len(path)])

WalkInv ==
    /\ path \in Seq(Steps)
    /\ at \in {"step", "paused", "failed", "ended"}
    /\ at = "step" => cursor \in Steps
    /\ at \in {"paused", "failed"} => path # <<>>
    /\ Chained
    /\ CursorFollows

\* What the walk may rely on.
Published == SearchTypeOK /\ Acyclic(steps) /\ WalkInv

IInv ==
    /\ SearchInv
    /\ at = "checked" => path = <<>>
    /\ at # "checked" => Acyclic(steps) /\ WalkInv
-----------------------------------------------------------------------------
\* The key of a step leads back to its index, since keys are unique.
LEMMA IndexOfKey ==
    ASSUME NEW g, UniqueKeys(g), NEW i \in DOMAIN g
    PROVE  IndexOf(g, g[i].key) = i
  BY DEF IndexOf, UniqueKeys

\* A key of the graph has an index.
LEMMA IndexOfKnown ==
    ASSUME NEW g, NEW key \in KeysOf(g)
    PROVE  IndexOf(g, key) \in DOMAIN g /\ g[IndexOf(g, key)].key = key
  BY DEF IndexOf, KeysOf

\* A set of steps in which each has an edge back into the set is empty.
LEMMA NoClosedSet ==
    ASSUME NEW g, Acyclic(g), NEW S \in SUBSET DOMAIN g,
           \A i \in S : \E j \in S : j \in Adjacent(g, i)
    PROVE  S = {}
  BY DEF Acyclic

\* No key is a terminal token: following STOP_FAIL leaves the graph.
LEMMA TerminalsAreNoKeys ==
    ASSUME NEW g, TargetsKnown(g)
    PROVE  KeysOf(g) \cap Terminals = {}
  BY DEF TargetsKnown, KeysOf

\* The path as a function.
LEMMA PathFacts ==
    ASSUME WalkInv
    PROVE  /\ Len(path) \in Nat /\ DOMAIN path = 1 .. Len(path)
           /\ \A n \in 1 .. Len(path) : path[n] \in Steps
           /\ path # <<>> => Len(path) \in 1 .. Len(path)
<1>1. path \in Seq(Steps)
  BY DEF WalkInv
<1>2. Len(path) \in Nat /\ DOMAIN path = 1 .. Len(path)
  BY <1>1, LenProperties
<1>3. \A n \in 1 .. Len(path) : path[n] \in Steps
  BY <1>1, ElementOfSeq
<1>4. path # <<>> => Len(path) # 0
  BY <1>1, EmptySeq
<1> QED BY <1>2, <1>3, <1>4

\* A chain of edges that ends one edge above a step does not contain it.
LEMMA ChainAvoids ==
    ASSUME Published, NEW m \in 1 .. Len(path), NEW n \in m .. Len(path),
           path[m] \in Adjacent(steps, path[n])
    PROVE  FALSE
<1> DEFINE S == {path[k] : k \in m .. n}
<1>1. Len(path) \in Nat /\ \A k \in 1 .. Len(path) : path[k] \in Steps
  BY PathFacts DEF Published
<1>2. S \in SUBSET Steps
  BY <1>1
<1>3. \A k \in m .. n : \E j \in S : j \in Adjacent(steps, path[k])
  <2> SUFFICES ASSUME NEW k \in m .. n
               PROVE  \E j \in S : j \in Adjacent(steps, path[k])
    OBVIOUS
  <2>1. CASE k = n
    BY <2>1, <1>1
  <2>2. CASE k # n
    <3>1. k \in 1 .. Len(path) - 1 /\ k + 1 \in m .. n
      BY <2>2, <1>1
    <3>2. path[k + 1] \in Adjacent(steps, path[k])
      BY <3>1 DEF Published, WalkInv, Chained
    <3> QED BY <3>1, <3>2
  <2> QED BY <2>1, <2>2
<1>4. S = {}
  <2>1. \A i \in S : \E j \in S : j \in Adjacent(steps, i)
    BY <1>3
  <2> HIDE DEF S
  <2> QED BY <2>1, <1>2, NoClosedSet DEF Published, Steps
<1>5. path[m] \in S
  BY <1>1
<1> QED BY <1>4, <1>5

\* On a chain of edges of an acyclic graph no step can come back: the
\* invariant implies the property.
LEMMA VisitsDiffer == ASSUME Published PROVE NoStepTwice
<1>0. /\ Len(path) \in Nat /\ DOMAIN path = 1 .. Len(path)
      /\ \A n \in 1 .. Len(path) : path[n] \in Steps
  BY PathFacts DEF Published
<1>1. ASSUME NEW m \in DOMAIN path, NEW n \in DOMAIN path, path[m] = path[n], m < n
      PROVE  FALSE
  <2>1. n - 1 \in m .. Len(path) /\ n - 1 \in 1 .. Len(path) - 1
    BY <1>0, <1>1
  <2>2. path[m] \in Adjacent(steps, path[n - 1])
    BY <2>1, <1>1, <1>0 DEF Published, WalkInv, Chained
  <2> QED BY <2>1, <2>2, <1>0, ChainAvoids
<1>2. \A m, n \in DOMAIN path : path[m] = path[n] => m = n
  <2> SUFFICES ASSUME NEW m \in DOMAIN path, NEW n \in DOMAIN path,
                      path[m] = path[n], m # n
               PROVE  FALSE
    OBVIOUS
  <2>1. m < n \/ n < m
    BY <1>0
  <2> QED BY <2>1, <1>1
<1>3. ASSUME at = "step", NEW n \in DOMAIN path, path[n] = cursor
      PROVE  FALSE
  <2>1. path # <<>> /\ Len(path) \in n .. Len(path)
    BY <1>0, <1>3
  <2>2. path[n] \in Adjacent(steps, path[Len(path)])
    BY <2>1, <1>3 DEF Published, WalkInv, CursorFollows
  <2> QED BY <2>1, <2>2, <1>0, ChainAvoids
<1> QED BY <1>2, <1>3 DEF NoStepTwice

\* Appending the step at the cursor keeps the chain.
LEMMA AppendChains ==
    ASSUME Published, at = "step", path' = Append(path, cursor), UNCHANGED steps
    PROVE  path' \in Seq(Steps)' /\ path' # <<>> /\ Chained' /\ path'[Len(path')] = cursor
<1>1. cursor \in Steps /\ path \in Seq(Steps) /\ Len(path) \in Nat
  BY PathFacts DEF Published, WalkInv
<1>2. /\ path' \in Seq(Steps) /\ path' # <<>> /\ Len(path') = Len(path) + 1
      /\ \A n \in 1 .. Len(path) : path'[n] = path[n]
      /\ path'[Len(path) + 1] = cursor
  BY <1>1, AppendProperties
<1>3. Chained'
  <2> SUFFICES ASSUME NEW n \in 1 .. Len(path') - 1
               PROVE  path'[n + 1] \in Adjacent(steps, path'[n])
    BY DEF Chained
  <2>1. CASE n = Len(path)
    BY <2>1, <1>1, <1>2 DEF Published, WalkInv, CursorFollows
  <2>2. CASE n # Len(path)
    <3>1. n \in 1 .. Len(path) - 1
      BY <2>2, <1>1, <1>2
    <3> QED BY <3>1, <1>2, <1>1 DEF Published, WalkInv, Chained
  <2> QED BY <2>1, <2>2
<1> QED BY <1>2, <1>3 DEF Steps

\* Following an edge of the last visited step keeps the invariant.
LEMMA FollowEdge ==
    ASSUME Published, NEW i \in Steps, NEW target,
           target \in {OnSuccess(steps, i), OnFailure(steps, i), StopFail},
           Walk!Follow(target), UNCHANGED steps,
           path' \in Seq(Steps), path' # <<>>, Chained', path'[Len(path')] = i
    PROVE  WalkInv'
<1>1. steps \in Seq(StepRecords) /\ TargetsKnown(steps)
  BY DEF Published, SearchTypeOK
<1>2. CASE target \in KeysOf(steps)
  <2>1. target # StopFail
    BY <1>1, <1>2, TerminalsAreNoKeys DEF Terminals, FailureTerminals
  <2>2. cursor' = IndexOf(steps, target) /\ at' = "step"
    BY <1>2, FollowIs
  <2>3. cursor' \in Steps /\ steps[cursor'].key = target
    BY <1>2, <2>2, IndexOfKnown DEF Steps
  <2>4. cursor' \in Adjacent(steps, i)
    BY <2>1, <2>3 DEF Adjacent, Steps
  <2> QED BY <2>2, <2>3, <2>4 DEF WalkInv, CursorFollows, Steps
<1>3. CASE target \notin KeysOf(steps)
  <2>1. at' \in {"paused", "failed", "ended"}
    BY <1>3, FollowIs
  <2> QED BY <2>1 DEF WalkInv, CursorFollows, Steps
<1> QED BY <1>2, <1>3

\* Every step of the walker keeps the invariant.
LEMMA WalkKeeps ==
    ASSUME Published, Walk!Next PROVE WalkInv' /\ UNCHANGED steps
<1>0. /\ steps \in Seq(StepRecords) /\ UniqueKeys(steps) /\ path \in Seq(Steps)
      /\ Len(path) \in Nat /\ \A n \in 1 .. Len(path) : path[n] \in Steps
  BY PathFacts DEF Published, SearchTypeOK, WalkInv
<1>1. CASE Walk!Succeed
  <2>1. /\ at = "step" /\ path' = Append(path, cursor) /\ UNCHANGED steps
        /\ Walk!Follow(OnSuccess(steps, cursor))
    BY <1>1, WalkReads DEF Walk!Succeed
  <2>2. cursor \in Steps
    BY <2>1 DEF Published, WalkInv
  <2>3. path' \in Seq(Steps) /\ path' # <<>> /\ Chained' /\ path'[Len(path')] = cursor
    BY <2>1, AppendChains DEF Steps
  <2> QED BY <2>1, <2>2, <2>3, FollowEdge
<1>2. CASE Walk!Fail
  <2>1. /\ at = "step" /\ path' = Append(path, cursor) /\ UNCHANGED steps
        /\ Walk!Follow(OnFailure(steps, cursor))
    BY <1>2, WalkReads DEF Walk!Fail
  <2>2. cursor \in Steps
    BY <2>1 DEF Published, WalkInv
  <2>3. path' \in Seq(Steps) /\ path' # <<>> /\ Chained' /\ path'[Len(path')] = cursor
    BY <2>1, AppendChains DEF Steps
  <2> QED BY <2>1, <2>2, <2>3, FollowEdge
<1>3. CASE Walk!PauseManual
  <2>1. /\ at = "step" /\ path' = Append(path, cursor) /\ UNCHANGED steps
        /\ cursor' = 0 /\ at' = "paused"
    BY <1>3 DEF Walk!PauseManual
  <2>2. path' \in Seq(Steps) /\ path' # <<>> /\ Chained'
    BY <2>1, AppendChains DEF Steps
  <2> QED BY <2>1, <2>2 DEF WalkInv, CursorFollows, Steps
<1>4. CASE Walk!Resume
  <2> DEFINE i == path[Len(path)]
             to(s) == Walk!ResumeTarget(s)
  <2>1. path # <<>> /\ i \in Steps
    <3>1. path # <<>>
      BY <1>4 DEF Walk!Resume, Published, WalkInv
    <3> QED BY <3>1, PathFacts DEF Published
  <2>2. IndexOf(steps, steps[i].key) = i
    BY <2>1, <1>0, IndexOfKey DEF Steps
  <2>3. /\ UNCHANGED <<steps, path>>
        /\ \E s \in {"COMPLETED", "CANCELLED"} :
             Walk!Follow(IF to(s) = Walk!EscalateToManual THEN Walk!StopFail ELSE to(s))
    BY <1>4 DEF Walk!Resume
  <2>4. PICK s \in {"COMPLETED", "CANCELLED"} :
             Walk!Follow(IF to(s) = Walk!EscalateToManual THEN StopFail ELSE to(s))
    BY <2>3, WalkReads
  <2>5. to(s) \in {OnSuccess(steps, i), OnFailure(steps, i), StopFail}
    BY <2>2, WalkReads DEF Walk!ResumeTarget, Walk!Last, Walk!DeriveResumeCursor
  <2>6. Chained' /\ path' \in Seq(Steps) /\ path' # <<>> /\ path'[Len(path')] = i
    BY <2>1, <2>3, <1>0 DEF Published, WalkInv, Chained
  <2> HIDE DEF i, to
  <2>7. PICK target \in {OnSuccess(steps, i), OnFailure(steps, i), StopFail} : Walk!Follow(target)
    BY <2>4, <2>5
  <2> QED BY <2>1, <2>3, <2>6, <2>7, FollowEdge
<1>5. CASE Walk!Retry
  <2> DEFINE M == Len(path) - 1
  <2>1. /\ path # <<>> /\ UNCHANGED steps /\ at' = "step" /\ cursor' = path[Len(path)]
        /\ path' = SubSeq(path, 1, M)
    BY <1>5 DEF Walk!Retry, Published, WalkInv, Walk!Last
  <2>2. Len(path) \in 1 .. Len(path) /\ M \in Nat /\ M + 1 = Len(path)
    BY <2>1, <1>0, PathFacts DEF Published
  <2>3. \A n \in 1 .. M : path[n] \in Steps
    BY <2>2, <1>0
  <2>4. path' \in Seq(Steps) /\ Len(path') = M /\ \A n \in 1 .. M : path'[n] = path[n]
    <3> HIDE DEF M
    <3>1. /\ SubSeq(path, 1, M) \in Seq(Steps)
          /\ Len(SubSeq(path, 1, M)) = IF 1 <= M THEN M - 1 + 1 ELSE 0
          /\ \A n \in 1 .. M - 1 + 1 : SubSeq(path, 1, M)[n] = path[1 + n - 1]
      BY <2>2, <2>3, SubSeqProperties
    <3>2. /\ (IF 1 <= M THEN M - 1 + 1 ELSE 0) = M
          /\ \A n \in 1 .. M : n \in 1 .. M - 1 + 1 /\ 1 + n - 1 = n
      BY <2>2
    <3>3. \A n \in 1 .. M : SubSeq(path, 1, M)[n] = path[n]
      BY <3>1, <3>2
    <3> QED BY <2>1, <3>1, <3>2, <3>3
  <2>5. \A n \in 1 .. M : path[n + 1] \in Adjacent(steps, path[n])
    BY DEF Published, WalkInv, Chained
  <2> HIDE DEF M
  <2>6. Chained'
    <3>1. \A n \in 1 .. M - 1 : n \in 1 .. M /\ n + 1 \in 1 .. M
      BY <2>2
    <3> QED BY <3>1, <2>1, <2>4, <2>5 DEF Chained
  <2>7. CursorFollows'
    <3> SUFFICES ASSUME path' # <<>> PROVE cursor' \in Adjacent(steps, path'[Len(path')])
      BY <2>1 DEF CursorFollows
    <3>1. M \in 1 .. M
      BY <2>2, <2>4, EmptySeq
    <3> QED BY <3>1, <2>1, <2>2, <2>4, <2>5
  <2>8. cursor' \in Steps
    BY <2>1, <2>2, <1>0
  <2> QED BY <2>1, <2>4, <2>6, <2>7, <2>8 DEF WalkInv, Steps
<1> QED BY <1>1, <1>2, <1>3, <1>4, <1>5 DEF Walk!Next
-----------------------------------------------------------------------------
\* The parts of the invariant that a step leaves alone.
LEMMA SearchKept ==
    ASSUME SearchInv, UNCHANGED <<steps, start, stack, color, hasCycle>>
    PROVE  SearchInv' /\ (Acyclic(steps) => Acyclic(steps)')
<1>1. Steps' = Steps /\ Frames' = Frames /\ \A j : Check!Edges(j)' = Check!Edges(j)
  BY DEF Steps, Frames, Check!Edges, Check!EdgeTo
<1>2. SearchTypeOK' <=> SearchTypeOK
  BY <1>1 DEF SearchTypeOK
<1>3. (StackIsPath' <=> StackIsPath) /\ (LookedAt' <=> LookedAt)
  BY <1>1 DEF StackIsPath, LookedAt
<1>4. (BlackDone' <=> BlackDone) /\ (Passed' <=> Passed)
  BY <1>1 DEF BlackDone, Passed, Black
<1> QED BY <1>2, <1>3, <1>4 DEF SearchInv

LEMMA WalkKept ==
    ASSUME UNCHANGED <<steps, cursor, path, at>>
    PROVE  (WalkInv' <=> WalkInv) /\ (Acyclic(steps)' <=> Acyclic(steps))
BY DEF WalkInv, Chained, CursorFollows, Steps

LEMMA CheckReadsOnly == Check!Next => UNCHANGED steps
BY DEF Check!Next, Check!Open, Check!Skip, Check!Back, Check!Down, Check!Across, Check!Close

LEMMA InitKeeps == Init => IInv
<1> SUFFICES ASSUME Init PROVE IInv
  OBVIOUS
<1>1. /\ steps \in Graphs /\ start = 1 /\ stack = <<>>
      /\ color = [i \in Steps |-> "white"] /\ hasCycle = FALSE
      /\ path = <<>> /\ at = "checked"
  BY DEF Init, Check!Init, Steps
<1>2. steps \in Seq(StepRecords) /\ steps # <<>> /\ UniqueKeys(steps) /\ TargetsKnown(steps)
  BY <1>1, GraphsAssumption
<1>3. Len(steps) \in Nat /\ 1 \in 1 .. Len(steps) + 1
  BY <1>2, LenProperties
<1>4. <<>> \in Seq(Frames) /\ Len(<<>>) = 0
  OBVIOUS
<1>5. SearchTypeOK
  BY <1>1, <1>2, <1>3, <1>4 DEF SearchTypeOK, Colors
<1>6. \A i \in Steps : ~ Black(i) /\ color[i] # "gray"
  BY <1>1 DEF Black
<1>7. StackIsPath /\ LookedAt
  BY <1>1, <1>4, <1>6 DEF StackIsPath, LookedAt
<1>8. BlackDone /\ Passed
  BY <1>1, <1>6 DEF BlackDone, Passed
<1> QED BY <1>1, <1>5, <1>7, <1>8 DEF IInv, SearchInv

\* A version is published on the verdict of the search, and starts at its entry.
LEMMA PublishKeeps ==
    ASSUME IInv, Publish PROVE IInv'
<1>1. /\ at = "checked" /\ ~ Check!Searching /\ ~ hasCycle
      /\ cursor' = 1 /\ at' = "step" /\ UNCHANGED <<path, steps, start, stack, color, hasCycle>>
  BY DEF Publish, searchVars
<1>2. SearchInv /\ path = <<>>
  BY <1>1 DEF IInv
<1>3. Acyclic(steps)
  BY <1>1, <1>2, VerdictOf
<1>4. 1 \in Steps
  <2>1. steps \in Seq(StepRecords) /\ steps # <<>>
    BY <1>2 DEF SearchInv, SearchTypeOK
  <2> QED BY <2>1, LenProperties, EmptySeq DEF Steps
<1>5. SearchInv' /\ Acyclic(steps)' /\ Steps' = Steps
  BY <1>1, <1>2, <1>3, SearchKept DEF Steps
<1>6. <<>> \in Seq(Steps) /\ Len(<<>>) = 0
  OBVIOUS
<1>7. WalkInv'
  BY <1>1, <1>2, <1>4, <1>5, <1>6 DEF WalkInv, Chained, CursorFollows
<1> QED BY <1>1, <1>5, <1>7 DEF IInv

LEMMA NextKeeps == IInv /\ [Next]_<<steps, searchVars, walkVars>> => IInv'
<1> SUFFICES ASSUME IInv, [Next]_<<steps, searchVars, walkVars>> PROVE IInv'
  OBVIOUS
<1>1. CASE Check!Next /\ UNCHANGED walkVars
  <2>1. SearchInv' /\ UNCHANGED <<steps, cursor, path, at>>
    BY <1>1, CheckKeeps, CheckReadsOnly DEF IInv, walkVars
  <2> QED BY <2>1, WalkKept DEF IInv
<1>2. CASE Publish
  BY <1>2, PublishKeeps
<1>3. CASE Walk!Next /\ UNCHANGED searchVars
  <2>1. at # "checked"
    BY <1>3 DEF Walk!Next, Walk!Succeed, Walk!Fail, Walk!PauseManual, Walk!Resume, Walk!Retry
  <2>2. Published
    BY <2>1 DEF IInv, SearchInv, Published
  <2>3. WalkInv' /\ UNCHANGED <<steps, start, stack, color, hasCycle>>
    BY <1>3, <2>2, WalkKeeps DEF searchVars
  <2>4. SearchInv' /\ Acyclic(steps)'
    BY <2>2, <2>3, SearchKept DEF IInv, Published
  <2>5. at' # "checked"
    BY <2>3 DEF WalkInv
  <2> QED BY <2>3, <2>4, <2>5 DEF IInv
<1>4. CASE UNCHANGED <<steps, searchVars, walkVars>>
  <2>1. UNCHANGED <<steps, start, stack, color, hasCycle, cursor, path, at>>
    BY <1>4 DEF searchVars, walkVars
  <2> QED BY <2>1, SearchKept, WalkKept DEF IInv
<1> QED BY <1>1, <1>2, <1>3, <1>4 DEF Next

LEMMA Invariance == Spec => []IInv
BY InitKeeps, NextKeeps, PTL DEF Spec

\* The depth-first search decides acyclicity, for every set of step arrays and
\* whatever their length: when it ends it has found a cycle exactly if some set
\* of steps leads back into itself.
THEOREM VerdictRightAlways == Spec => []VerdictRight
<1>1. IInv => VerdictRight
  BY VerdictOf, CheckReads DEF IInv, VerdictRight, Check!VerdictRight
<1> QED BY <1>1, Invariance, PTL

\* No step of a version that passed the check is visited twice on the way of a
\* run, through pauses, resumes, error handlers and retries, for every set of
\* step arrays.
THEOREM NoStepTwiceAlways == Spec => []NoStepTwice
<1>1. IInv => NoStepTwice
  <2>1. ASSUME IInv, at = "checked" PROVE NoStepTwice
    BY <2>1 DEF IInv, NoStepTwice
  <2>2. ASSUME IInv, at # "checked" PROVE NoStepTwice
    BY <2>2, VisitsDiffer DEF IInv, SearchInv, Published
  <2> QED BY <2>1, <2>2
<1> QED BY <1>1, Invariance, PTL
=============================================================================
