------------------------- MODULE ProcurementProofs -------------------------
(***************************************************************************)
(* What a request to stock, purchases or assets holds, lock by lock, and     *)
(* what follows for the tables, for any number of rows and handlers.         *)
(***************************************************************************)
EXTENDS Procurement, SequenceTheorems, FiniteSetTheorems, TLAPS

(***************************************************************************)
(* Sums.                                                                   *)
(***************************************************************************)
Units(S, holds) == UNION {{s} \X (1 .. holds[s]) : s \in S}

Bounded(S, f) == \A s \in S : f[s] \in 0 .. Ceiling

Agree(S, f, g) == \A s \in S : g[s] = f[s]

\* g holds n more than f at e, and the same elsewhere.
Adds(S, e, n, f, g) == g[e] = f[e] + n /\ Agree(S \ {e}, f, g)

LEMMA CeilingNat == Ceiling \in Nat
BY ProcurementAssumption

LEMMA UnitsFinite ==
    ASSUME NEW S, IsFiniteSet(S), NEW f, Bounded(S, f)
    PROVE  IsFiniteSet(Units(S, f)) /\ Sum(S, f) \in Nat
<1>1. \A s \in S : 1 .. f[s] \subseteq 1 .. Ceiling
  BY CeilingNat DEF Bounded
<1>2. Units(S, f) \subseteq S \X (1 .. Ceiling)
  BY <1>1 DEF Units
<1>3. IsFiniteSet(S \X (1 .. Ceiling))
  <2> DEFINE T == 1 .. Ceiling
  <2>1. IsFiniteSet(T)
    BY CeilingNat, FS_Interval
  <2> HIDE DEF T
  <2> QED BY <2>1, FS_Product DEF T
<1>4. IsFiniteSet(Units(S, f))
  BY <1>2, <1>3, FS_Subset
<1> QED BY <1>4, FS_CardinalityType DEF Sum, Units

LEMMA SumSame ==
    ASSUME NEW S, NEW f, NEW g, Agree(S, f, g)
    PROVE  Sum(S, f) = Sum(S, g)
<1>1. Units(S, f) = Units(S, g)
  BY DEF Units, Agree
<1> QED BY <1>1 DEF Sum, Units

LEMMA SumMore ==
    ASSUME NEW S, IsFiniteSet(S), NEW e, e \notin S, NEW f, Bounded(S, f),
           NEW g, Agree(S, f, g), g[e] \in Nat
    PROVE  Sum(S \cup {e}, g) = Sum(S, f) + g[e]
<1> DEFINE A == Units(S, f)
           B == {e} \X (1 .. g[e])
<1>1. IsFiniteSet(A) /\ Cardinality(A) \in Nat /\ Cardinality(A) = Sum(S, f)
  BY UnitsFinite DEF Sum, Units
<1>2. IsFiniteSet(B) /\ Cardinality(B) = g[e]
  <2>1. IsFiniteSet(1 .. g[e]) /\ Cardinality(1 .. g[e]) = g[e]
    BY FS_Interval, SMTT(40)
  <2>2. IsFiniteSet({e}) /\ Cardinality({e}) = 1
    BY FS_Singleton
  <2>3. IsFiniteSet(B) /\ Cardinality(B) = 1 * g[e]
    <3> DEFINE T == 1 .. g[e]
               E == {e}
    <3>1. IsFiniteSet(T) /\ Cardinality(T) = g[e] /\ IsFiniteSet(E) /\ Cardinality(E) = 1
      BY <2>1, <2>2
    <3>2. IsFiniteSet(E \X T) /\ Cardinality(E \X T) = 1 * g[e]
      <4> HIDE DEF T, E
      <4> QED BY <3>1, FS_Product
    <3> QED BY <3>2
  <2> QED BY <2>3
<1>3. A \cap B = {}
  BY DEF Units
<1>4. Units(S \cup {e}, g) = A \cup B
  BY DEF Units, Agree
<1>5. Cardinality(A \cup B) = Cardinality(A) + Cardinality(B) - Cardinality(A \cap B)
  <2> HIDE DEF A, B
  <2> QED BY <1>1, <1>2, FS_Union
<1>6. Cardinality(A \cap B) = 0
  BY <1>3, FS_EmptySet
<1>7. Cardinality(A \cup B) = Sum(S, f) + g[e]
  <2> HIDE DEF A, B
  <2> QED BY <1>1, <1>2, <1>5, <1>6
<1> QED BY <1>4, <1>7 DEF Sum, Units

LEMMA SumSplit ==
    ASSUME NEW S, IsFiniteSet(S), NEW e \in S, NEW f, Bounded(S, f)
    PROVE  Sum(S, f) = Sum(S \ {e}, f) + f[e] /\ Sum(S \ {e}, f) \in Nat /\ f[e] \in Nat
<1> DEFINE T == S \ {e}
<1>1. T \cup {e} = S /\ IsFiniteSet(T) /\ e \notin T
  BY FS_Subset
<1>2. Bounded(T, f) /\ Agree(T, f, f) /\ f[e] \in Nat
  BY CeilingNat DEF Bounded, Agree
<1> HIDE DEF T
<1>3. Sum(T \cup {e}, f) = Sum(T, f) + f[e]
  BY <1>1, <1>2, SumMore
<1>4. Sum(T, f) \in Nat
  BY <1>1, <1>2, UnitsFinite
<1> QED BY <1>1, <1>2, <1>3, <1>4 DEF T

\* Where one element holds n more, the sum is n more.
LEMMA SumAdds ==
    ASSUME NEW S, IsFiniteSet(S), NEW e \in S, NEW n \in Nat, NEW f, Bounded(S, f),
           NEW g, Bounded(S, g), Adds(S, e, n, f, g)
    PROVE  Sum(S, g) = Sum(S, f) + n
<1>1. Sum(S, f) = Sum(S \ {e}, f) + f[e] /\ Sum(S \ {e}, f) \in Nat /\ f[e] \in Nat
  BY SumSplit
<1>2. Sum(S, g) = Sum(S \ {e}, g) + g[e]
  BY SumSplit
<1>3. Sum(S \ {e}, g) = Sum(S \ {e}, f)
  BY SumSame DEF Adds
<1>4. g[e] = f[e] + n
  BY DEF Adds
<1> QED BY <1>1, <1>2, <1>3, <1>4

LEMMA SumZero ==
    ASSUME NEW S, IsFiniteSet(S), NEW f, Bounded(S, f), Sum(S, f) = 0
    PROVE  \A s \in S : f[s] = 0
<1> SUFFICES ASSUME NEW e \in S PROVE f[e] = 0
  OBVIOUS
<1>1. Sum(S, f) = Sum(S \ {e}, f) + f[e] /\ Sum(S \ {e}, f) \in Nat /\ f[e] \in Nat
  BY SumSplit
<1> QED BY <1>1

\* What holds nothing adds nothing.
LEMMA SumWithout ==
    ASSUME NEW S, NEW T \in SUBSET S, NEW f, \A s \in S \ T : f[s] = 0
    PROVE  Sum(S, f) = Sum(T, f)
<1>1. \A s \in S \ T : 1 .. f[s] = {}
  OBVIOUS
<1>2. Units(S, f) = Units(T, f)
  BY <1>1 DEF Units
<1> QED BY <1>2 DEF Sum, Units

LEMMA SumNone == ASSUME NEW f PROVE Sum({}, f) = 0
<1>1. Units({}, f) = {}
  BY DEF Units
<1> QED BY <1>1, FS_EmptySet DEF Sum, Units

LEMMA SumZeros ==
    ASSUME NEW S, NEW f, \A s \in S : f[s] = 0
    PROVE  Sum(S, f) = 0
<1>1. {} \in SUBSET S /\ \A s \in S \ {} : f[s] = 0
  OBVIOUS
<1>2. Sum(S, f) = Sum({}, f)
  BY <1>1, SumWithout
<1> QED BY <1>2, SumNone
-----------------------------------------------------------------------------
(***************************************************************************)
(* The inductive invariant: what a request is about, which locks it holds    *)
(* where it stands, and what it has checked that its locks keep true.         *)
(***************************************************************************)
OnLines == {"update line", "remove line", "cancel", "apply seats", "link", "unlink"}

Subject(x) ==
    /\ DOMAIN x = DOMAIN Idle
    /\ x.pc = "idle" => x.op = "none"
    /\ x.op = "move" =>
         /\ x.on \in Items /\ x.n \in 0 .. Ceiling /\ x.of \in Nat
         /\ x.line \in Lines \cup {None} /\ x.target \subseteq Targets
         /\ x.change \in {"IN", "OUT", "ADJUSTMENT"}
    /\ x.op \in {"create purchase", "from assets", "reparent"} => x.to \in Locations \cup {None}
    /\ x.op = "from assets" => x.target \subseteq Assets
    /\ x.op \in {"update purchase", "remove purchase", "add line"} => x.on \in Purchases
    /\ x.op = "update purchase" => x.change = "clear" \/ (x.change = "deliver" /\ x.to \in Locations)
    /\ x.op \in OnLines => x.line \in Lines
    /\ x.op = "update line" => x.change \in {"change kind", "change quantity", "map line"}
    /\ x.op = "apply seats" => x.n \in 1 .. Ceiling
    /\ x.op = "link" => x.to \in Models \cup {None}
    /\ x.op = "units" =>
         /\ x.to \in Locations \cup {None} /\ x.of \in Models \cup {None}
         /\ x.line \in Lines \cup {None}
    /\ x.op \in {"delete location", "reparent"} => x.on \in Locations
    /\ x.op = "delete location" => x.to \in Locations
    /\ x.op = "delete model" => x.on \in Models /\ x.to \in Models
    /\ x.op = "asset" => \/ x.change = "location" /\ x.to \in Locations
                         \/ x.change = "model" /\ x.to \in Models

Takes(l, kind) == lines[l].state = "live" /\ lines[l].kind = kind

\* Nothing has arrived on a line.
Untouched(l) ==
    /\ \A m \in DOMAIN movements : movements[m].line # l
    /\ lines[l].applied = 0
    /\ mix \cap {"receive units", "restore asset"} = {} =>
         \A a \in LiveAssets(Assets) : assets[a].line # l

\* A movement's delivery, purchase and item are its own from the check on.
Counting == {"ceiling", "stock", "insert"}

Moving(x) ==
    /\ x.pc \in {"target", "delivery", "purchase"} \cup Counting
    /\ x.of # None => x.of \in DOMAIN movements /\ x.change = "IN" /\ x.line = None
    /\ x.line # None => lines[x.line].state # "none" /\ x.change = "IN" /\ x.n # 0
    /\ x.pc = "target" => x.of = None /\ x.line = None
    /\ x.pc = "delivery" => x.of # None /\ x.wants = DeliveryLock(x.of)
    /\ x.pc = "purchase" => x.line # None /\ x.wants = Held(PurchaseOf(x.line))
    /\ x.pc \in Counting =>
         /\ x.of # None => /\ DeliveryLock(x.of) \subseteq x.locks
                           /\ movements[x.of].target # {}
                           /\ Returned(x.of) + x.n <= movements[x.of].n
         /\ x.line # None => /\ Held(PurchaseOf(x.line)) \subseteq x.locks
                             /\ Takes(x.line, "CONSUMABLE")
    /\ x.pc = "stock" => x.wants = ItemRow(x.on)
    /\ x.pc = "insert" => /\ ItemRow(x.on) \subseteq x.locks
                          /\ x.seen \in 0 .. Ceiling
                          /\ x.seen = After(consumables[x.on].stock, MovementRow(x))

\* Clearing what names a purchase keeps the whole purchase, and so a line of it.
Clearing(x) ==
    /\ x.pc \in {"purchase", "write"}
    /\ x.pc = "purchase" => x.wants = Whole(x.on)
    /\ x.pc = "write" => Whole(x.on) \subseteq x.locks /\ LinesOf(x.on) # {}

Removing(x) ==
    LET p == PurchaseOf(x.line) IN
    /\ lines[x.line].state # "none" /\ x.pc \in {"purchase", "write"}
    /\ x.pc = "purchase" => x.wants = Whole(p)
    /\ x.pc = "write" =>
         /\ Whole(p) \subseteq x.locks /\ Untouched(x.line) /\ purchases[p].state # "none"
         /\ purchases[p].named \/ LinesOf(p) \ {x.line} # {}

ShareOf(x) == IF x.change = "change kind" THEN Whole(PurchaseOf(x.line)) ELSE Held(PurchaseOf(x.line))

\* The value a line is about to have, against the value it has.
NewRow(x, row) ==
    LET old == lines[x.line] IN
    /\ row \in LineRecord /\ SoundLine(row)
    /\ row.state = "live" /\ old.state = "live"
    /\ row.purchase = old.purchase /\ row.applied = old.applied
    /\ row.kind # old.kind => x.change = "change kind" /\ Untouched(x.line)
    /\ row.item # old.item => old.applied = 0 \/ "map line" \in mix

Updating(x) ==
    /\ lines[x.line].state # "none" /\ x.pc \in {"purchase", "line", "write"}
    /\ x.change \in mix
    /\ x.pc = "purchase" => x.wants = ShareOf(x)
    /\ x.pc \in {"line", "write"} => ShareOf(x) \subseteq x.locks
    /\ x.pc = "line" => x.wants = LineRow(x.line)
    /\ x.pc = "write" => /\ LineRow(x.line) \subseteq x.locks
                         /\ \A row \in x.staged : NewRow(x, row)

Cancelling(x) ==
    /\ lines[x.line].state # "none" /\ x.pc \in {"first", "line", "write"}
    /\ x.pc = "line" => x.wants = CancelLocks(x.line)
    /\ x.pc = "write" => /\ LineRow(x.line) \subseteq x.locks
                         /\ x.seen \in 0 .. lines[x.line].quantity

Applying(x) ==
    LET row == lines[x.line] IN
    /\ row.state # "none" /\ x.pc \in {"purchase", "line", "application", "write"}
    /\ x.pc = "purchase" => x.wants = Held(PurchaseOf(x.line))
    /\ x.pc \in {"line", "application", "write"} =>
         Held(PurchaseOf(x.line)) \subseteq x.locks /\ row.state = "live"
    /\ x.pc = "line" => x.wants = LineRow(x.line)
    /\ x.pc \in {"application", "write"} =>
         LineRow(x.line) \subseteq x.locks /\ row.kind = "LICENSE" /\ row.item \in Apps
    /\ x.pc = "application" => x.wants = AppRow(row.item)
    /\ x.pc = "write" => /\ AppRow(row.item) \subseteq x.locks
                         /\ x.seen = seats[row.item] + x.n /\ x.seen <= Ceiling
                         /\ row.applied + x.n <= Ceiling

Linking(x) ==
    /\ lines[x.line].state # "none"
    /\ x.pc \in {"purchase", "assets", "model", "line", "events"}
    /\ x.pc = "purchase" => x.wants = Held(PurchaseOf(x.line))
    /\ x.pc # "purchase" => Held(PurchaseOf(x.line)) \subseteq x.locks /\ Takes(x.line, "ASSET")

Standing(x) ==
    /\ x.op = "move" => Moving(x)
    /\ x.op = "update purchase" /\ x.change = "clear" => Clearing(x)
    /\ x.op = "remove purchase" => purchases[x.on].state # "none"
    /\ x.op = "remove line" => Removing(x)
    /\ x.op = "update line" => Updating(x)
    /\ x.op = "cancel" => Cancelling(x)
    /\ x.op = "apply seats" => Applying(x)
    /\ x.op = "link" => Linking(x)
    /\ x.op = "units" /\ x.line # None => "receive units" \in mix

\* No two transactions hold locks that exclude one another.
LocksExclude ==
    \A c, d \in Clients : c # d =>
        \A h \in client[c].locks, k \in client[d].locks : ~ Blocks(h, k)

Shape == client = [c \in Clients |-> client[c]]

\* A movement that received a line counts units of it.
CountsUnits == \A m \in DOMAIN movements :
    movements[m].line # None => movements[m].type = "IN" /\ movements[m].n # 0

TablesSound ==
    /\ TypeOK /\ StockIsLedger /\ ReturnsWithinDelivery /\ SeatsAreApplied
    /\ PurchaseIdentified /\ ReceiptsMatchLine /\ CountsUnits

ProcurementInv ==
    /\ Shape /\ TablesSound /\ LocksExclude
    /\ \A c \in Clients : Subject(client[c]) /\ Standing(client[c])
-----------------------------------------------------------------------------
(***************************************************************************)
(* Locks.                                                                  *)
(***************************************************************************)
LEMMA RowIs ==
    ASSUME NEW table, NEW id, id # None, NEW mode
    PROVE  Row(table, id, mode) = {<<table, id, mode>>}
BY DEF Row

LEMMA BlocksBoth ==
    ASSUME NEW h, NEW k PROVE Blocks(h, k) <=> Blocks(k, h)
BY DEF Blocks, Conflicting

LEMMA Excluded ==
    ASSUME LocksExclude, NEW c \in Clients, NEW d \in Clients,
           NEW table, NEW id, id # None, NEW m, NEW n, Conflicting(m, n),
           Row(table, id, m) \subseteq client[c].locks,
           Row(table, id, n) \subseteq client[d].locks
    PROVE  c = d
<1>1. <<table, id, m>> \in client[c].locks /\ <<table, id, n>> \in client[d].locks
  BY RowIs
<1>2. Blocks(<<table, id, m>>, <<table, id, n>>)
  BY DEF Blocks
<1> QED BY <1>1, <1>2 DEF LocksExclude

LEMMA Conflicts ==
    /\ Conflicting("update", "update") /\ Conflicting("update", "key share")
    /\ Conflicting("no key update", "no key update")
BY DEF Conflicting

LEMMA OneWhole ==
    ASSUME LocksExclude, NEW c \in Clients, NEW d \in Clients, NEW p \in Purchases,
           Whole(p) \subseteq client[c].locks,
           Whole(p) \subseteq client[d].locks \/ Held(p) \subseteq client[d].locks
    PROVE  c = d
<1>1. p # None
  BY ProcurementAssumption
<1>2. CASE Whole(p) \subseteq client[d].locks
  BY <1>1, <1>2, Excluded, Conflicts DEF Whole
<1>3. CASE Held(p) \subseteq client[d].locks
  BY <1>1, <1>3, Excluded, Conflicts DEF Whole, Held
<1> QED BY <1>2, <1>3

LEMMA OneLine ==
    ASSUME LocksExclude, NEW c \in Clients, NEW d \in Clients, NEW l \in Lines,
           LineRow(l) \subseteq client[c].locks, LineRow(l) \subseteq client[d].locks
    PROVE  c = d
<1>1. l # None
  BY ProcurementAssumption
<1> QED BY <1>1, Excluded, Conflicts DEF LineRow

LEMMA OneApp ==
    ASSUME LocksExclude, NEW c \in Clients, NEW d \in Clients, NEW app \in Apps,
           AppRow(app) \subseteq client[c].locks, AppRow(app) \subseteq client[d].locks
    PROVE  c = d
<1>1. app # None
  BY ProcurementAssumption
<1> QED BY <1>1, Excluded, Conflicts DEF AppRow

LEMMA OneItem ==
    ASSUME LocksExclude, NEW c \in Clients, NEW d \in Clients, NEW i \in Items,
           ItemRow(i) \subseteq client[c].locks, ItemRow(i) \subseteq client[d].locks
    PROVE  c = d
<1>1. i # None
  BY ProcurementAssumption
<1> QED BY <1>1, Excluded, Conflicts DEF ItemRow

LEMMA OneReturn ==
    ASSUME LocksExclude, NEW c \in Clients, NEW d \in Clients, NEW m, m # None,
           DeliveryLock(m) \subseteq client[c].locks, DeliveryLock(m) \subseteq client[d].locks
    PROVE  c = d
BY Excluded, Conflicts DEF DeliveryLock

\* A request that moves keeps its locks or adds those it waited for.
Advances(c) ==
    /\ Shape'
    /\ \A d \in Clients \ {c} : client'[d] = client[d]
    /\ \/ client'[c].locks \subseteq client[c].locks
       \/ ~ Waits(c) /\ client'[c].locks \subseteq client[c].locks \cup client[c].wants

LEMMA LocksStep ==
    ASSUME LocksExclude, NEW c \in Clients, Advances(c)
    PROVE  LocksExclude'
<1>1. ASSUME NEW d \in Clients, d # c, NEW h \in client'[c].locks, NEW k \in client[d].locks
      PROVE  ~ Blocks(h, k) /\ ~ Blocks(k, h)
  <2>1. CASE h \in client[c].locks
    BY <1>1, <2>1, BlocksBoth DEF LocksExclude
  <2>2. CASE h \in client[c].wants /\ ~ Waits(c)
    <3>1. ~ Blocks(k, h)
      BY <1>1, <2>2 DEF Waits, WaitsFor, HeldUp
    <3> QED BY <3>1, BlocksBoth
  <2> QED BY <1>1, <2>1, <2>2 DEF Advances
<1> QED BY <1>1 DEF LocksExclude, Advances

LEMMA BegunAs ==
    ASSUME Shape, NEW c \in Clients, NEW kind, NEW r, Begin(c, kind, r), r.locks = {}
    PROVE  client'[c] = r /\ Advances(c)
<1>1. client' = [client EXCEPT ![c] = r]
  BY DEF Begin
<1>2. client'[c] = r /\ Shape' /\ \A d \in Clients \ {c} : client'[d] = client[d]
  BY <1>1 DEF Shape
<1> QED BY <1>2 DEF Advances

LEMMA EndedAs ==
    ASSUME Shape, NEW c \in Clients, End(c)
    PROVE  client'[c] = Idle /\ Advances(c)
<1>1. client' = [client EXCEPT ![c] = Idle] /\ Idle.locks = {}
  BY DEF End, Idle
<1>2. client'[c] = Idle /\ Shape' /\ \A d \in Clients \ {c} : client'[d] = client[d]
  BY <1>1 DEF Shape
<1> QED BY <1>1, <1>2 DEF Advances

LEMMA SetAs ==
    ASSUME Shape, NEW c \in Clients, NEW r, client' = [client EXCEPT ![c] = r], ~ Waits(c),
           r.locks \subseteq client[c].locks \cup client[c].wants
    PROVE  client'[c] = r /\ Advances(c)
<1>1. client'[c] = r /\ Shape' /\ \A d \in Clients \ {c} : client'[d] = client[d]
  BY DEF Shape
<1> QED BY <1>1 DEF Advances

\* What a request is about, which its moves leave alone.
Alike(y, x) ==
    /\ DOMAIN y = DOMAIN Idle
    /\ y.op = x.op /\ y.change = x.change /\ y.on = x.on /\ y.line = x.line /\ y.to = x.to
    /\ y.of = x.of /\ y.target = x.target /\ y.n = x.n

LEMMA SubjectKept ==
    ASSUME NEW x, NEW y, Subject(x), Alike(y, x), y.pc # "idle"
    PROVE  Subject(y)
<1>1. /\ DOMAIN y = DOMAIN Idle
      /\ y.op = x.op /\ y.change = x.change /\ y.on = x.on /\ y.line = x.line /\ y.to = x.to
      /\ y.of = x.of /\ y.target = x.target /\ y.n = x.n
  BY DEF Alike
<1>2. /\ y.op = "move" =>
           /\ y.on \in Items /\ y.n \in 0 .. Ceiling /\ y.of \in Nat
           /\ y.line \in Lines \cup {None} /\ y.target \subseteq Targets
           /\ y.change \in {"IN", "OUT", "ADJUSTMENT"}
      /\ y.op \in {"create purchase", "from assets", "reparent"} => y.to \in Locations \cup {None}
      /\ y.op = "from assets" => y.target \subseteq Assets
      /\ y.op \in {"update purchase", "remove purchase", "add line"} => y.on \in Purchases
      /\ y.op = "update purchase" => y.change = "clear" \/ (y.change = "deliver" /\ y.to \in Locations)
  BY <1>1 DEF Subject
<1>3. /\ y.op \in OnLines => y.line \in Lines
      /\ y.op = "update line" => y.change \in {"change kind", "change quantity", "map line"}
      /\ y.op = "apply seats" => y.n \in 1 .. Ceiling
      /\ y.op = "link" => y.to \in Models \cup {None}
      /\ y.op = "units" =>
           /\ y.to \in Locations \cup {None} /\ y.of \in Models \cup {None}
           /\ y.line \in Lines \cup {None}
  BY <1>1 DEF Subject
<1>4. /\ y.op \in {"delete location", "reparent"} => y.on \in Locations
      /\ y.op = "delete location" => y.to \in Locations
      /\ y.op = "delete model" => y.on \in Models /\ y.to \in Models
      /\ y.op = "asset" => \/ y.change = "location" /\ y.to \in Locations
                           \/ y.change = "model" /\ y.to \in Models
  BY <1>1 DEF Subject
<1> QED BY <1>1, <1>2, <1>3, <1>4 DEF Subject

LEMMA OnwardAs ==
    ASSUME NEW c \in Clients, DOMAIN client[c] = DOMAIN Idle, NEW pc, NEW wants
    PROVE  LET r == Onward(c, pc, wants) IN
           /\ Alike(r, client[c]) /\ r.pc = pc /\ r.wants = wants
           /\ r.locks = client[c].locks \cup client[c].wants
           /\ r.seen = client[c].seen /\ r.staged = client[c].staged /\ r.ids = client[c].ids
BY DEF Onward, Idle, Alike

LEMMA GoneAs ==
    ASSUME Shape, NEW c \in Clients, DOMAIN client[c] = DOMAIN Idle, NEW pc, NEW wants,
           ~ Waits(c), Go(c, pc, wants)
    PROVE  client'[c] = Onward(c, pc, wants) /\ Advances(c)
<1> DEFINE r == Onward(c, pc, wants)
<1>1. client' = [client EXCEPT ![c] = r]
  BY DEF Go
<1>2. r.locks \subseteq client[c].locks \cup client[c].wants
  BY OnwardAs
<1>3. client'[c] = r /\ Advances(c)
  <2> HIDE DEF r
  <2> QED BY <1>1, <1>2, SetAs
<1> QED BY <1>3

\* Tables that do not change keep what a request relies on.
LEMMA SameTables ==
    ASSUME NEW c \in Clients, UNCHANGED <<tables, mix>>,
           NEW y, y = client'[c], Subject(y), Standing(y)
    PROVE  Subject(client[c])' /\ Standing(client[c])'
<1>2. /\ consumables' = consumables /\ movements' = movements /\ seats' = seats
      /\ purchases' = purchases /\ lines' = lines /\ assets' = assets /\ mix' = mix
  BY DEF tables, stockTables
<1>1. Subject(client[c])'
  OBVIOUS
<1>3. \A l : Untouched(l)' <=> Untouched(l)
  BY <1>2 DEF Untouched, LiveAssets
<1>4. y.op = "move" => Moving(client[c])'
  BY <1>2 DEF Standing, Moving, Counting, Returned, Quantity, PurchaseOf, Takes, DeliveryLock, Held, ItemRow, Row, MovementRow
<1>5. y.op = "update purchase" /\ y.change = "clear" => Clearing(client[c])'
  BY <1>2 DEF Standing, Clearing, LinesOf
<1>6. y.op = "remove line" => Removing(client[c])'
  BY <1>2, <1>3 DEF Standing, Removing, PurchaseOf, LinesOf
<1>7. y.op = "update line" => Updating(client[c])'
  BY <1>2, <1>3 DEF Standing, Updating, NewRow, ShareOf, PurchaseOf, LinesOf
<1>8. y.op = "cancel" => Cancelling(client[c])'
  BY <1>2, <1>3 DEF Standing, Cancelling, CancelLocks, PurchaseOf
<1>9. y.op = "apply seats" => Applying(client[c])'
  BY <1>2, <1>3 DEF Standing, Applying, PurchaseOf
<1>10. y.op = "link" => Linking(client[c])'
  BY <1>2, <1>3 DEF Standing, Linking, PurchaseOf, Takes
<1> QED BY <1>1, <1>4, <1>5, <1>6, <1>7, <1>8, <1>9, <1>10, <1>2 DEF Standing
-----------------------------------------------------------------------------
(***************************************************************************)
(* What the step of a request does to the request itself.                   *)
(***************************************************************************)
Kept(c) == Advances(c) /\ Subject(client[c])' /\ Standing(client[c])'

LEMMA InvOf ==
    ASSUME ProcurementInv, NEW c \in Clients
    PROVE  /\ Shape /\ Subject(client[c]) /\ Standing(client[c])
           /\ DOMAIN client[c] = DOMAIN Idle
BY DEF ProcurementInv, Subject

LEMMA Begins ==
    ASSUME Shape, NEW c \in Clients, NEW kind, NEW r, Begin(c, kind, r), r.locks = {},
           Subject(r), Standing(r)
    PROVE  Kept(c)
<1>1. client'[c] = r /\ Advances(c)
  BY BegunAs
<1>2. UNCHANGED <<tables, mix>>
  BY DEF Begin
<1> QED BY <1>1, <1>2, SameTables DEF Kept

LEMMA Continues ==
    ASSUME Shape, NEW c \in Clients, NEW r, client' = [client EXCEPT ![c] = r], ~ Waits(c),
           r.locks \subseteq client[c].locks \cup client[c].wants,
           UNCHANGED <<tables, bounds>>, Subject(r), Standing(r)
    PROVE  Kept(c)
<1>1. client'[c] = r /\ Advances(c)
  BY SetAs
<1>2. UNCHANGED <<tables, mix>>
  BY DEF bounds
<1> QED BY <1>1, <1>2, SameTables DEF Kept

LEMMA Ends ==
    ASSUME Shape, NEW c \in Clients, End(c)
    PROVE  Kept(c)
<1>1. client'[c] = Idle /\ Advances(c)
  BY EndedAs
<1>2. Subject(Idle)
  BY DEF Subject, Idle, OnLines
<1>3. Subject(client[c])'
  BY <1>1, <1>2
<1>4. client'[c].op = "none"
  BY <1>1 DEF Idle
<1>5. Standing(client[c])'
  BY <1>4 DEF Standing
<1> QED BY <1>1, <1>3, <1>5 DEF Kept

\* A request goes on to pc and waits there for the locks it asks for.
LEMMA GoesOn ==
    ASSUME Shape, NEW c \in Clients, Subject(client[c]), ~ Waits(c),
           NEW pc, pc # "idle", NEW wants, Go(c, pc, wants),
           UNCHANGED <<tables, bounds>>, Standing(Onward(c, pc, wants))
    PROVE  Kept(c)
<1> DEFINE r == Onward(c, pc, wants)
<1>1. DOMAIN client[c] = DOMAIN Idle
  BY DEF Subject
<1>2. Alike(r, client[c]) /\ r.pc = pc /\ r.locks = client[c].locks \cup client[c].wants
  BY <1>1, OnwardAs
<1>3. client' = [client EXCEPT ![c] = r] /\ Standing(r)
  BY DEF Go
<1> HIDE DEF r
<1>4. Subject(r)
  BY <1>2, SubjectKept
<1> QED BY <1>2, <1>3, <1>4, Continues

PlainOps == {"create purchase", "add line", "unlink", "units", "from assets",
             "reparent", "delete location", "delete model", "asset", "none"}

LEMMA PlainStands ==
    ASSUME NEW x, x.op \in PlainOps, x.op = "units" /\ x.line # None => "receive units" \in mix
    PROVE  Standing(x)
BY DEF Standing, PlainOps

LEMMA MoveStands == ASSUME NEW x, x.op = "move", Moving(x) PROVE Standing(x)
BY DEF Standing

LEMMA MovementSubject ==
    ASSUME NEW x, DOMAIN x = DOMAIN Idle, x.op = "move", x.pc # "idle",
           x.on \in Items, x.n \in 0 .. Ceiling, x.of \in Nat, x.line \in Lines \cup {None},
           x.target \subseteq Targets, x.change \in {"IN", "OUT", "ADJUSTMENT"}
    PROVE  Subject(x)
BY DEF Subject, OnLines

\* A movement with nothing but an item begins.
LEMMA MovementBegins ==
    ASSUME ProcurementInv, NEW c \in Clients, NEW kind, NEW r, Begin(c, kind, r),
           DOMAIN r = DOMAIN Idle, r.op = "move", r.pc \in {"ceiling", "stock", "target"},
           r.on \in Items, r.n \in 0 .. Ceiling, r.of = None, r.line = None, r.locks = {},
           r.target \subseteq Targets, r.change \in {"IN", "OUT", "ADJUSTMENT"},
           r.pc = "stock" => r.wants = ItemRow(r.on)
    PROVE  Kept(c)
<1>1. None \in Nat
  BY DEF None
<1>2. Subject(r)
  BY <1>1, MovementSubject
<1>3. Standing(r)
  BY MoveStands DEF Moving, Counting
<1> QED BY <1>2, <1>3, Begins, InvOf

LEMMA PostsKept ==
    ASSUME ProcurementInv, NEW c \in Clients,
           PostIn(c) \/ PostOut(c) \/ PostAdjustment(c) \/ PostDelivery(c)
    PROVE  Kept(c)
<1>0. \A n \in 1 .. Ceiling : n \in 0 .. Ceiling
  BY CeilingNat
<1>1. CASE PostIn(c)
  <2>1. PICK i \in Items, n \in 1 .. Ceiling :
          Begin(c, "in", [Movement("IN", i, n) EXCEPT !.pc = "ceiling"])
    BY <1>1 DEF PostIn
  <2> DEFINE r == [Movement("IN", i, n) EXCEPT !.pc = "ceiling"]
  <2>2. /\ DOMAIN r = DOMAIN Idle /\ r.op = "move" /\ r.pc = "ceiling" /\ r.on = i /\ r.n = n
        /\ r.of = None /\ r.line = None /\ r.target = {} /\ r.change = "IN" /\ r.locks = {}
    BY DEF Movement, Idle
  <2> HIDE DEF r
  <2> QED BY <1>0, <2>1, <2>2, MovementBegins DEF r
<1>2. CASE PostOut(c)
  <2>1. PICK i \in Items, n \in 1 .. Ceiling :
          Begin(c, "out", [Movement("OUT", i, n) EXCEPT !.pc = "stock", !.wants = ItemRow(i)])
    BY <1>2 DEF PostOut
  <2> DEFINE r == [Movement("OUT", i, n) EXCEPT !.pc = "stock", !.wants = ItemRow(i)]
  <2>2. /\ DOMAIN r = DOMAIN Idle /\ r.op = "move" /\ r.pc = "stock" /\ r.on = i /\ r.n = n
        /\ r.of = None /\ r.line = None /\ r.target = {} /\ r.change = "OUT" /\ r.locks = {}
        /\ r.wants = ItemRow(i)
    BY DEF Movement, Idle
  <2>3. Begin(c, "out", r)
    BY <2>1
  <2> HIDE DEF r
  <2> QED BY <1>0, <2>2, <2>3, MovementBegins
<1>3. CASE PostAdjustment(c)
  <2>1. PICK i \in Items, n \in 0 .. Ceiling :
          Begin(c, "adjust", [Movement("ADJUSTMENT", i, n) EXCEPT !.pc = "stock",
                                                                  !.wants = ItemRow(i)])
    BY <1>3 DEF PostAdjustment
  <2> DEFINE r == [Movement("ADJUSTMENT", i, n) EXCEPT !.pc = "stock", !.wants = ItemRow(i)]
  <2>2. /\ DOMAIN r = DOMAIN Idle /\ r.op = "move" /\ r.pc = "stock" /\ r.on = i /\ r.n = n
        /\ r.of = None /\ r.line = None /\ r.target = {} /\ r.change = "ADJUSTMENT"
        /\ r.locks = {} /\ r.wants = ItemRow(i)
    BY DEF Movement, Idle
  <2>3. Begin(c, "adjust", r)
    BY <2>1
  <2> HIDE DEF r
  <2> QED BY <2>2, <2>3, MovementBegins
<1>4. CASE PostDelivery(c)
  <2>1. PICK i \in Items, n \in 1 .. Ceiling,
             row \in {"location"} \X Known(locations, Locations)
                    \cup {"asset"} \X Known(assets, Assets) :
          Begin(c, "deliver", [Movement("OUT", i, n) EXCEPT !.pc = "target", !.target = {row}])
    BY <1>4 DEF PostDelivery
  <2> DEFINE r == [Movement("OUT", i, n) EXCEPT !.pc = "target", !.target = {row}]
  <2>2. /\ DOMAIN r = DOMAIN Idle /\ r.op = "move" /\ r.pc = "target" /\ r.on = i /\ r.n = n
        /\ r.of = None /\ r.line = None /\ r.target = {row} /\ r.change = "OUT" /\ r.locks = {}
    BY DEF Movement, Idle
  <2>3. {row} \subseteq Targets
    BY DEF Targets, Known
  <2>4. Begin(c, "deliver", r)
    BY <2>1
  <2> HIDE DEF r
  <2> QED BY <1>0, <2>2, <2>3, <2>4, MovementBegins
<1> QED BY <1>1, <1>2, <1>3, <1>4

LEMMA TypesOf ==
    ASSUME ProcurementInv
    PROVE  /\ TypeOK /\ TablesSound /\ LocksExclude
           /\ \A l \in Lines : lines[l] \in LineRecord
           /\ Len(movements) \in Nat /\ DOMAIN movements = 1 .. Len(movements)
           /\ \A m \in DOMAIN movements : movements[m] \in MovementRecord
<1>1. TypeOK /\ TablesSound /\ LocksExclude
  BY DEF ProcurementInv, TablesSound
<1>2. movements \in Seq(MovementRecord) /\ lines \in [Lines -> LineRecord]
  BY <1>1 DEF TypeOK
<1>3. /\ Len(movements) \in Nat /\ DOMAIN movements = 1 .. Len(movements)
      /\ \A m \in DOMAIN movements : movements[m] \in MovementRecord
  BY <1>2, LenProperties, ElementOfSeq
<1> QED BY <1>1, <1>2, <1>3

LEMMA ReturnsKept ==
    ASSUME ProcurementInv, NEW c \in Clients, PostReturn(c) \/ ReceiveStock(c)
    PROVE  Kept(c)
<1>0. \A n \in 1 .. Ceiling : n \in 0 .. Ceiling /\ n # 0
  BY CeilingNat
<1>1. CASE PostReturn(c)
  <2>1. PICK m \in DOMAIN movements, n \in 1 .. Ceiling :
          Begin(c, "return", [Movement("IN", movements[m].item, n) EXCEPT
                                !.pc = "delivery", !.of = m, !.wants = DeliveryLock(m)])
    BY <1>1 DEF PostReturn
  <2> DEFINE r == [Movement("IN", movements[m].item, n) EXCEPT
                                !.pc = "delivery", !.of = m, !.wants = DeliveryLock(m)]
  <2>2. /\ DOMAIN r = DOMAIN Idle /\ r.op = "move" /\ r.pc = "delivery"
        /\ r.on = movements[m].item /\ r.n = n
        /\ r.of = m /\ r.line = None /\ r.target = {} /\ r.change = "IN" /\ r.locks = {}
        /\ r.wants = DeliveryLock(m)
    BY DEF Movement, Idle
  <2>3. movements[m] \in MovementRecord /\ m \in 1 .. Len(movements) /\ Len(movements) \in Nat
    BY TypesOf
  <2>4. m \in Nat /\ m # None /\ movements[m].item \in Items
    BY <2>3 DEF None, MovementRecord
  <2>5. Begin(c, "return", r)
    BY <2>1
  <2> HIDE DEF r
  <2>6. Subject(r)
    BY <1>0, <2>2, <2>4, MovementSubject
  <2>7. Standing(r)
    BY <2>2, <2>4, MoveStands DEF Moving, Counting
  <2> QED BY <2>2, <2>5, <2>6, <2>7, Begins, InvOf
<1>2. CASE ReceiveStock(c)
  <2>1. PICK l \in Lines, n \in 1 .. Ceiling :
          /\ LiveLine(l) /\ lines[l].kind = "CONSUMABLE" /\ lines[l].item # None
          /\ Begin(c, "receive stock",
               [Movement("IN", lines[l].item, n) EXCEPT
                  !.pc = "purchase", !.line = l,
                  !.wants = Row("purchase", lines[l].purchase, "key share")])
    BY <1>2 DEF ReceiveStock
  <2> DEFINE r == [Movement("IN", lines[l].item, n) EXCEPT
                     !.pc = "purchase", !.line = l,
                     !.wants = Row("purchase", lines[l].purchase, "key share")]
  <2>2. /\ DOMAIN r = DOMAIN Idle /\ r.op = "move" /\ r.pc = "purchase"
        /\ r.on = lines[l].item /\ r.n = n
        /\ r.of = None /\ r.line = l /\ r.target = {} /\ r.change = "IN" /\ r.locks = {}
        /\ r.wants = Held(PurchaseOf(l))
    BY DEF Movement, Idle, Held, PurchaseOf
  <2>3. lines[l].item \in Items /\ l # None /\ lines[l].state # "none" /\ None \in Nat
    BY <2>1, TypesOf, ProcurementAssumption DEF TypeOK, SoundLine, ItemsOf, LiveLine, None
  <2>5. Begin(c, "receive stock", r)
    BY <2>1
  <2> HIDE DEF r
  <2>6. Subject(r)
    BY <1>0, <2>2, <2>3, MovementSubject
  <2>7. Standing(r)
    BY <1>0, <2>2, <2>3, MoveStands DEF Moving, Counting
  <2> QED BY <2>2, <2>5, <2>6, <2>7, Begins, InvOf
<1> QED BY <1>1, <1>2
-----------------------------------------------------------------------------
\* A request that reads and checks nothing its locks must keep goes on.
LEMMA PlainContinues ==
    ASSUME ProcurementInv, NEW c \in Clients, NEW r, client' = [client EXCEPT ![c] = r],
           ~ Waits(c), Alike(r, client[c]), r.pc # "idle", client[c].op \in PlainOps,
           r.locks \subseteq client[c].locks \cup client[c].wants, UNCHANGED <<tables, bounds>>
    PROVE  Kept(c)
<1>1. Shape /\ Subject(client[c]) /\ Standing(client[c])
  BY InvOf
<1>2. Subject(r)
  BY <1>1, SubjectKept
<1>3. r.op = client[c].op /\ r.line = client[c].line
  BY DEF Alike
<1>4. Standing(r)
  BY <1>1, <1>3, PlainStands DEF Standing
<1> QED BY <1>1, <1>2, <1>4, Continues

LEMMA PlainGoes ==
    ASSUME ProcurementInv, NEW c \in Clients, ~ Waits(c), client[c].op \in PlainOps,
           NEW pc, pc # "idle", NEW wants, Go(c, pc, wants), UNCHANGED <<tables, bounds>>
    PROVE  Kept(c)
<1> DEFINE r == Onward(c, pc, wants)
<1>1. Alike(r, client[c]) /\ r.pc = pc /\ r.locks = client[c].locks \cup client[c].wants
  BY InvOf, OnwardAs
<1>2. client' = [client EXCEPT ![c] = r]
  BY DEF Go
<1> HIDE DEF r
<1> QED BY <1>1, <1>2, PlainContinues

LEMMA QueuedAs ==
    ASSUME NEW x, DOMAIN x = DOMAIN Idle, NEW pc, NEW table, NEW mode, NEW S
    PROVE  LET r == Queued(x, pc, table, mode, S) IN
           /\ DOMAIN r = DOMAIN Idle /\ Alike(r, x) /\ r.pc = pc /\ r.locks = x.locks
           /\ r.staged = x.staged /\ r.seen = x.seen
BY DEF Queued, Idle, Alike

LEMMA OnwardQueuedAs ==
    ASSUME ProcurementInv, NEW c \in Clients, NEW pc1, NEW wants, NEW pc, NEW table, NEW mode, NEW S
    PROVE  LET r == Queued(Onward(c, pc1, wants), pc, table, mode, S) IN
           Alike(r, client[c]) /\ r.pc = pc /\ r.locks = client[c].locks \cup client[c].wants
<1> DEFINE x == Onward(c, pc1, wants)
           r == Queued(x, pc, table, mode, S)
<1>1. Alike(x, client[c]) /\ x.locks = client[c].locks \cup client[c].wants
  BY InvOf, OnwardAs
<1>2. DOMAIN x = DOMAIN Idle
  BY <1>1 DEF Alike
<1> HIDE DEF x
<1>3. Alike(r, x) /\ r.pc = pc /\ r.locks = x.locks
  BY <1>2, QueuedAs
<1> HIDE DEF r
<1>4. Alike(r, client[c])
  BY <1>1, <1>3 DEF Alike
<1> QED BY <1>1, <1>3, <1>4 DEF r, x

LEMMA LockNextAs ==
    ASSUME ProcurementInv, NEW c \in Clients, NEW table, NEW mode, NEW matching,
           LockNext(c, table, mode, matching)
    PROVE  \E r : /\ client' = [client EXCEPT ![c] = r] /\ Alike(r, client[c])
                  /\ r.pc = client[c].pc /\ r.locks = client[c].locks \cup client[c].wants
<1>1. PICK wants, rest, more :
        client' = [client EXCEPT ![c] =
          [Onward(c, client[c].pc, wants) EXCEPT !.ids = rest, !.staged = @ \cup more]]
  BY DEF LockNext
<1> DEFINE x == Onward(c, client[c].pc, wants)
           r == [x EXCEPT !.ids = rest, !.staged = @ \cup more]
<1>2. /\ Alike(x, client[c]) /\ x.pc = client[c].pc
      /\ x.locks = client[c].locks \cup client[c].wants
  BY InvOf, OnwardAs
<1>3. DOMAIN x = DOMAIN Idle
  BY <1>2 DEF Alike
<1>4. Alike(r, x) /\ r.pc = x.pc /\ r.locks = x.locks
  <2> HIDE DEF x
  <2> QED BY <1>3 DEF Idle, Alike
<1>5. Alike(r, client[c])
  <2> HIDE DEF r, x
  <2> QED BY <1>2, <1>4 DEF Alike
<1> QED BY <1>1, <1>2, <1>4, <1>5

LEMMA PlainLocksNext ==
    ASSUME ProcurementInv, NEW c \in Clients, ~ Waits(c), client[c].op \in PlainOps,
           client[c].pc # "idle", NEW table, NEW mode, NEW matching,
           LockNext(c, table, mode, matching), UNCHANGED <<tables, bounds>>
    PROVE  Kept(c)
BY LockNextAs, PlainContinues

LEMMA PlainQueues ==
    ASSUME ProcurementInv, NEW c \in Clients, ~ Waits(c), client[c].op \in PlainOps,
           NEW pc1, NEW wants, NEW pc, pc # "idle", NEW table, NEW mode, NEW S,
           client' = [client EXCEPT ![c] = Queued(Onward(c, pc1, wants), pc, table, mode, S)],
           UNCHANGED <<tables, bounds>>
    PROVE  Kept(c)
<1> DEFINE r == Queued(Onward(c, pc1, wants), pc, table, mode, S)
<1>1. Alike(r, client[c]) /\ r.pc = pc /\ r.locks = client[c].locks \cup client[c].wants
  BY OnwardQueuedAs
<1>2. client' = [client EXCEPT ![c] = r]
  OBVIOUS
<1> HIDE DEF r
<1> QED BY <1>1, <1>2, PlainContinues

\* A request begins that is about rows there are.
LEMMA PlainBegins ==
    ASSUME ProcurementInv, NEW c \in Clients, NEW kind, NEW r, Begin(c, kind, r),
           r.locks = {}, Subject(r), r.op \in PlainOps, r.op # "units"
    PROVE  Kept(c)
BY PlainStands, Begins, InvOf
-----------------------------------------------------------------------------
LEMMA PurchaseBeginsKept ==
    ASSUME ProcurementInv, NEW c \in Clients,
           CreateRead(c) \/ RemoveRead(c) \/ AddLineRead(c) \/ ClearHeader(c) \/ DeliverTo(c)
    PROVE  Kept(c)
<1>1. CASE CreateRead(c)
  <2>1. PICK x \in Known(locations, Locations) \cup {None} :
          Begin(c, "create purchase", [Idle EXCEPT !.op = "create purchase", !.pc = "references",
                                                   !.to = x, !.wants = Place(x)])
    BY <1>1 DEF CreateRead
  <2> DEFINE r == [Idle EXCEPT !.op = "create purchase", !.pc = "references", !.to = x,
                               !.wants = Place(x)]
  <2>2. Begin(c, "create purchase", r) /\ r.locks = {} /\ r.op = "create purchase"
    BY <2>1 DEF Idle
  <2>3. Subject(r)
    BY DEF Subject, Idle, OnLines, Known
  <2> HIDE DEF r
  <2> QED BY <2>2, <2>3, PlainBegins DEF PlainOps
<1>2. CASE RemoveRead(c)
  <2>1. PICK p \in Purchases :
          /\ purchases[p].state = "live"
          /\ Begin(c, "remove purchase", [Idle EXCEPT !.op = "remove purchase", !.pc = "write",
                     !.on = p, !.wants = Row("purchase", p, "no key update")])
    BY <1>2 DEF RemoveRead
  <2> DEFINE r == [Idle EXCEPT !.op = "remove purchase", !.pc = "write",
                     !.on = p, !.wants = Row("purchase", p, "no key update")]
  <2>2. /\ Begin(c, "remove purchase", r) /\ r.locks = {} /\ r.op = "remove purchase"
        /\ r.on = p
    BY <2>1 DEF Idle
  <2>3. Subject(r)
    BY DEF Subject, Idle, OnLines
  <2> HIDE DEF r
  <2>4. Standing(r)
    BY <2>1, <2>2 DEF Standing
  <2> QED BY <2>2, <2>3, <2>4, Begins, InvOf
<1>3. CASE AddLineRead(c)
  <2>1. PICK p \in Purchases :
          Begin(c, "add line", [Idle EXCEPT !.op = "add line", !.pc = "insert", !.on = p,
                                            !.wants = Held(p)])
    BY <1>3 DEF AddLineRead
  <2> DEFINE r == [Idle EXCEPT !.op = "add line", !.pc = "insert", !.on = p, !.wants = Held(p)]
  <2>2. Begin(c, "add line", r) /\ r.locks = {} /\ r.op = "add line"
    BY <2>1 DEF Idle
  <2>3. Subject(r)
    BY DEF Subject, Idle, OnLines
  <2> HIDE DEF r
  <2> QED BY <2>2, <2>3, PlainBegins DEF PlainOps
<1>4. CASE ClearHeader(c)
  <2>1. PICK p \in Purchases :
          Begin(c, "clear header", [Idle EXCEPT !.op = "update purchase", !.pc = "purchase",
                   !.change = "clear", !.on = p, !.wants = UpdateLock(p)])
    BY <1>4 DEF ClearHeader, Known
  <2> DEFINE r == [Idle EXCEPT !.op = "update purchase", !.pc = "purchase",
                   !.change = "clear", !.on = p, !.wants = UpdateLock(p)]
  <2>2. /\ Begin(c, "clear header", r) /\ r.locks = {} /\ r.op = "update purchase"
        /\ r.pc = "purchase" /\ r.on = p /\ r.wants = Whole(p)
    BY <2>1 DEF Idle, UpdateLock
  <2>3. Subject(r)
    BY DEF Subject, Idle, OnLines
  <2> HIDE DEF r
  <2>4. Standing(r)
    BY <2>2 DEF Standing, Clearing
  <2> QED BY <2>2, <2>3, <2>4, Begins, InvOf
<1>5. CASE DeliverTo(c)
  <2>1. PICK p \in Purchases, x \in Locations :
          Begin(c, "deliver to", [Idle EXCEPT !.op = "update purchase", !.pc = "location",
                                        !.change = "deliver", !.on = p, !.to = x,
                                        !.wants = Place(x)])
    BY <1>5 DEF DeliverTo, Known
  <2> DEFINE r == [Idle EXCEPT !.op = "update purchase", !.pc = "location", !.change = "deliver",
                               !.on = p, !.to = x, !.wants = Place(x)]
  <2>2. /\ Begin(c, "deliver to", r) /\ r.locks = {} /\ r.op = "update purchase"
        /\ r.change = "deliver"
    BY <2>1 DEF Idle
  <2>3. Subject(r)
    BY DEF Subject, Idle, OnLines
  <2> HIDE DEF r
  <2>4. Standing(r)
    BY <2>2 DEF Standing
  <2> QED BY <2>2, <2>3, <2>4, Begins, InvOf
<1> QED BY <1>1, <1>2, <1>3, <1>4, <1>5

LEMMA LineBeginsKept ==
    ASSUME ProcurementInv, NEW c \in Clients,
           UpdateLineRead(c) \/ RemoveLineRead(c) \/ CancelRead(c) \/ ApplyRead(c) \/ LinkRead(c)
    PROVE  Kept(c)
<1>1. CASE UpdateLineRead(c)
  <2>1. PICK l \in Known(lines, Lines), change \in {"change kind", "change quantity", "map line"} :
          Begin(c, change,
            [Idle EXCEPT !.op = "update line", !.pc = "purchase", !.change = change, !.line = l,
                   !.wants = IF change = "change kind" THEN Whole(PurchaseOf(l))
                             ELSE Held(PurchaseOf(l))])
    BY <1>1 DEF UpdateLineRead
  <2> DEFINE wants == IF change = "change kind" THEN Whole(PurchaseOf(l)) ELSE Held(PurchaseOf(l))
             r == [Idle EXCEPT !.op = "update line", !.pc = "purchase", !.change = change,
                               !.line = l, !.wants = wants]
  <2>2. /\ Begin(c, change, r) /\ r.locks = {} /\ r.op = "update line" /\ r.pc = "purchase"
        /\ r.line = l /\ r.wants = ShareOf(r) /\ r.change = change
    BY <2>1 DEF Idle, ShareOf
  <2>3. Subject(r) /\ l \in Lines /\ lines[l].state # "none"
    <3> HIDE DEF wants
    <3> QED BY DEF Subject, Idle, OnLines, Known
  <2> HIDE DEF r
  <2>5. change \in mix
    BY <2>2 DEF Begin, Allowed
  <2>4. Standing(r)
    BY <2>2, <2>3, <2>5 DEF Standing, Updating
  <2> QED BY <2>2, <2>3, <2>4, Begins, InvOf
<1>2. CASE RemoveLineRead(c)
  <2>1. PICK l \in Known(lines, Lines) :
          Begin(c, "remove line", [Idle EXCEPT !.op = "remove line", !.pc = "purchase", !.line = l,
                                               !.wants = Whole(PurchaseOf(l))])
    BY <1>2 DEF RemoveLineRead
  <2> DEFINE r == [Idle EXCEPT !.op = "remove line", !.pc = "purchase", !.line = l,
                               !.wants = Whole(PurchaseOf(l))]
  <2>2. /\ Begin(c, "remove line", r) /\ r.locks = {} /\ r.op = "remove line" /\ r.pc = "purchase"
        /\ r.line = l /\ r.wants = Whole(PurchaseOf(l))
    BY <2>1 DEF Idle
  <2>3. Subject(r) /\ l \in Lines /\ lines[l].state # "none"
    BY DEF Subject, Idle, OnLines, Known
  <2> HIDE DEF r
  <2>4. Standing(r)
    BY <2>2, <2>3 DEF Standing, Removing
  <2> QED BY <2>2, <2>3, <2>4, Begins, InvOf
<1>3. CASE CancelRead(c)
  <2>1. PICK l \in Known(lines, Lines) :
          Begin(c, "cancel", [Idle EXCEPT !.op = "cancel", !.pc = "first", !.line = l,
                                          !.wants = CancelFirst(l)])
    BY <1>3 DEF CancelRead
  <2> DEFINE r == [Idle EXCEPT !.op = "cancel", !.pc = "first", !.line = l,
                               !.wants = CancelFirst(l)]
  <2>2. /\ Begin(c, "cancel", r) /\ r.locks = {} /\ r.op = "cancel" /\ r.pc = "first"
        /\ r.line = l
    BY <2>1 DEF Idle
  <2>3. Subject(r) /\ l \in Lines /\ lines[l].state # "none"
    BY DEF Subject, Idle, OnLines, Known
  <2> HIDE DEF r
  <2>4. Standing(r)
    BY <2>2, <2>3 DEF Standing, Cancelling
  <2> QED BY <2>2, <2>3, <2>4, Begins, InvOf
<1>4. CASE ApplyRead(c)
  <2>1. PICK l \in Known(lines, Lines), n \in 1 .. Ceiling :
          Begin(c, "apply seats", [Idle EXCEPT !.op = "apply seats", !.pc = "purchase", !.line = l,
                                         !.n = n, !.wants = Held(PurchaseOf(l))])
    BY <1>4 DEF ApplyRead
  <2> DEFINE r == [Idle EXCEPT !.op = "apply seats", !.pc = "purchase", !.line = l,
                               !.n = n, !.wants = Held(PurchaseOf(l))]
  <2>2. /\ Begin(c, "apply seats", r) /\ r.locks = {} /\ r.op = "apply seats"
        /\ r.pc = "purchase" /\ r.line = l /\ r.wants = Held(PurchaseOf(l))
    BY <2>1 DEF Idle
  <2>3. Subject(r) /\ l \in Lines /\ lines[l].state # "none"
    BY DEF Subject, Idle, OnLines, Known
  <2> HIDE DEF r
  <2>4. Standing(r)
    BY <2>2, <2>3 DEF Standing, Applying
  <2> QED BY <2>2, <2>3, <2>4, Begins, InvOf
<1>5. CASE LinkRead(c)
  <2>1. PICK l \in Known(lines, Lines), S \in SUBSET Known(assets, Assets),
             change \in {"link", "move link", "apply"} :
          Begin(c, change, [Idle EXCEPT !.op = "link", !.pc = "purchase", !.change = change,
                                        !.line = l, !.target = S,
                                        !.wants = LinkLock(PurchaseOf(l))])
    BY <1>5 DEF LinkRead
  <2> DEFINE r == [Idle EXCEPT !.op = "link", !.pc = "purchase", !.change = change,
                               !.line = l, !.target = S, !.wants = LinkLock(PurchaseOf(l))]
  <2>2. /\ Begin(c, change, r) /\ r.locks = {} /\ r.op = "link"
        /\ r.pc = "purchase" /\ r.line = l /\ r.wants = Held(PurchaseOf(l))
    BY <2>1 DEF Idle, LinkLock
  <2>3. Subject(r) /\ l \in Lines /\ lines[l].state # "none"
    BY DEF Subject, Idle, OnLines, Known
  <2> HIDE DEF r
  <2>4. Standing(r)
    BY <2>2, <2>3 DEF Standing, Linking
  <2> QED BY <2>2, <2>3, <2>4, Begins, InvOf
<1> QED BY <1>1, <1>2, <1>3, <1>4, <1>5

LEMMA ReceivingBeginsKept ==
    ASSUME ProcurementInv, NEW c \in Clients,
           UnlinkRead(c) \/ CreateAsset(c) \/ ReceiveUnits(c) \/ FromAssets(c)
    PROVE  Kept(c)
<1>1. CASE UnlinkRead(c)
  <2>1. PICK l \in Lines, S \in SUBSET Known(assets, Assets) :
          Begin(c, "unlink", Queued([Idle EXCEPT !.op = "unlink", !.change = "unlink", !.line = l,
                                              !.target = S], "assets", "asset", "update", S))
    BY <1>1 DEF UnlinkRead
  <2> DEFINE x == [Idle EXCEPT !.op = "unlink", !.change = "unlink", !.line = l, !.target = S]
             r == Queued(x, "assets", "asset", "update", S)
  <2>2. /\ x.locks = {} /\ x.op = "unlink" /\ x.line = l /\ DOMAIN x = DOMAIN Idle
        /\ x.on = None /\ x.to = None /\ x.of = None /\ x.n = 0 /\ x.change = "unlink"
    BY DEF Idle
  <2>3. Begin(c, "unlink", r)
    BY <2>1
  <2> HIDE DEF x
  <2>4. Alike(r, x) /\ r.pc = "assets" /\ r.locks = {}
    BY <2>2, QueuedAs
  <2> HIDE DEF r
  <2>5. Subject(r)
    BY <2>2, <2>4 DEF Alike, Subject, OnLines
  <2> QED BY <2>2, <2>3, <2>4, <2>5, PlainBegins DEF PlainOps, Alike
<1>2. CASE CreateAsset(c)
  <2>1. PICK x \in Known(locations, Locations) \cup {None}, m \in Models \cup {None} :
          Begin(c, "create asset", Unit(None, x, m, 1))
    BY <1>2 DEF CreateAsset
  <2> DEFINE r == Unit(None, x, m, 1)
  <2>2. Begin(c, "create asset", r) /\ r.locks = {} /\ r.op = "units" /\ r.line = None
    BY <2>1 DEF Idle, Unit
  <2>3. Subject(r)
    BY DEF Subject, Idle, OnLines, Known, Unit
  <2> HIDE DEF r
  <2>4. Standing(r)
    BY <2>2 DEF Standing
  <2> QED BY <2>2, <2>3, <2>4, Begins, InvOf
<1>3. CASE ReceiveUnits(c)
  <2>0. PICK l \in Lines, n \in 1 .. Cardinality(Assets) :
          /\ lines[l].model # None
          /\ \E at \in {purchases[PurchaseOf(l)].location, None} :
               Begin(c, "receive units", Unit(l, at, lines[l].model, n))
    BY <1>3 DEF ReceiveUnits
  <2>1. PICK at \in {purchases[PurchaseOf(l)].location, None} :
          Begin(c, "receive units", Unit(l, at, lines[l].model, n))
    BY <2>0
  <2>2. at \in Locations \cup {None} /\ lines[l].model \in Models
    <3>1. lines[l] \in LineRecord /\ purchases \in [Purchases -> PurchaseRecord]
      BY TypesOf DEF TypeOK
    <3>2. purchases[PurchaseOf(l)].location \in Locations \cup {None}
      BY <3>1 DEF LineRecord, PurchaseRecord, PurchaseOf
    <3> QED BY <2>0, <3>1, <3>2 DEF LineRecord
  <2> DEFINE k == lines[l].model
             r == Unit(l, at, k, n)
  <2>3. Begin(c, "receive units", r) /\ "receive units" \in mix
    BY <2>1 DEF Begin, Allowed
  <2>4. k \in Models
    BY <2>2
  <2> HIDE DEF k
  <2>5. r.locks = {} /\ r.op = "units" /\ Subject(r)
    BY <2>2, <2>4 DEF Subject, Idle, OnLines, Known, Unit
  <2> HIDE DEF r
  <2>6. Standing(r)
    BY <2>3, <2>5 DEF Standing
  <2> QED BY <2>3, <2>5, <2>6, Begins, InvOf
<1>4. CASE FromAssets(c)
  <2>1. PICK S \in SUBSET Known(assets, Assets), x \in Known(locations, Locations) \cup {None} :
          Begin(c, "from assets", [Idle EXCEPT !.op = "from assets", !.pc = "references",
                                            !.change = "link", !.to = x, !.target = S,
                                            !.wants = Place(x)])
    BY <1>4 DEF FromAssets
  <2> DEFINE r == [Idle EXCEPT !.op = "from assets", !.pc = "references",
                               !.change = "link", !.to = x, !.target = S, !.wants = Place(x)]
  <2>2. Begin(c, "from assets", r) /\ r.locks = {} /\ r.op = "from assets"
    BY <2>1 DEF Idle
  <2>3. Subject(r)
    BY DEF Subject, Idle, OnLines, Known
  <2> HIDE DEF r
  <2> QED BY <2>2, <2>3, PlainBegins DEF PlainOps
<1> QED BY <1>1, <1>2, <1>3, <1>4

LEMMA PlaceBeginsKept ==
    ASSUME ProcurementInv, NEW c \in Clients,
           Reparent(c) \/ DeleteLocation(c) \/ DeleteModel(c) \/ MoveAsset(c) \/ ChangeModel(c)
    PROVE  Kept(c)
<1>1. CASE Reparent(c)
  <2>1. PICK x \in Known(locations, Locations), y \in Known(locations, Locations) \cup {None} :
          Begin(c, "reparent", [Idle EXCEPT !.op = "reparent", !.pc = "tree", !.on = x, !.to = y,
                                      !.wants = TreeLock(x)])
    BY <1>1 DEF Reparent
  <2> DEFINE r == [Idle EXCEPT !.op = "reparent", !.pc = "tree", !.on = x, !.to = y,
                               !.wants = TreeLock(x)]
  <2>2. Begin(c, "reparent", r) /\ r.locks = {} /\ r.op = "reparent"
    BY <2>1 DEF Idle
  <2>3. Subject(r)
    BY DEF Subject, Idle, OnLines, Known
  <2> HIDE DEF r
  <2> QED BY <2>2, <2>3, PlainBegins DEF PlainOps
<1>2. CASE DeleteLocation(c)
  <2>1. PICK x, y \in Known(locations, Locations), resolution \in Resolutions :
          Begin(c, "delete location", [Idle EXCEPT !.op = "delete location", !.pc = "tree",
                     !.on = x, !.to = y, !.change = resolution, !.wants = TreeLock(x)])
    BY <1>2 DEF DeleteLocation
  <2> DEFINE r == [Idle EXCEPT !.op = "delete location", !.pc = "tree",
                     !.on = x, !.to = y, !.change = resolution, !.wants = TreeLock(x)]
  <2>2. Begin(c, "delete location", r) /\ r.locks = {} /\ r.op = "delete location"
    BY <2>1 DEF Idle
  <2>3. Subject(r)
    BY DEF Subject, Idle, OnLines, Known
  <2> HIDE DEF r
  <2> QED BY <2>2, <2>3, PlainBegins DEF PlainOps
<1>3. CASE DeleteModel(c)
  <2>1. PICK m, k \in Models, resolution \in Resolutions :
          Begin(c, "delete model",
            Queued([Idle EXCEPT !.op = "delete model", !.on = m, !.to = k, !.change = resolution],
                   "models", "model", "update", {j \in {m, k} : models[j] = "live"}))
    BY <1>3 DEF DeleteModel
  <2> DEFINE x == [Idle EXCEPT !.op = "delete model", !.on = m, !.to = k, !.change = resolution]
             S == {j \in {m, k} : models[j] = "live"}
             r == Queued(x, "models", "model", "update", S)
  <2>2. /\ x.locks = {} /\ x.op = "delete model" /\ x.line = None /\ DOMAIN x = DOMAIN Idle
        /\ x.on = m /\ x.to = k
    BY DEF Idle
  <2>3. Begin(c, "delete model", r)
    BY <2>1
  <2> HIDE DEF x, S
  <2>4. Alike(r, x) /\ r.pc = "models" /\ r.locks = {}
    <3>1. \A y : LET q == Queued(y, "models", "model", "update", S) IN
            DOMAIN y = DOMAIN Idle => Alike(q, y) /\ q.pc = "models" /\ q.locks = y.locks
      BY QueuedAs
    <3> QED BY <2>2, <3>1
  <2> HIDE DEF r
  <2>5. Subject(r)
    BY <2>2, <2>4 DEF Alike, Subject, OnLines
  <2> QED BY <2>2, <2>3, <2>4, <2>5, PlainBegins DEF PlainOps, Alike
<1>4. CASE MoveAsset(c)
  <2>1. PICK a \in Known(assets, Assets), x \in Known(locations, Locations) :
          Begin(c, "move asset", [Idle EXCEPT !.op = "asset", !.pc = "location", !.on = a, !.to = x,
                                        !.change = "location", !.wants = AssetPlace(x)])
    BY <1>4 DEF MoveAsset
  <2> DEFINE r == [Idle EXCEPT !.op = "asset", !.pc = "location", !.on = a, !.to = x,
                               !.change = "location", !.wants = AssetPlace(x)]
  <2>2. Begin(c, "move asset", r) /\ r.locks = {} /\ r.op = "asset"
    BY <2>1 DEF Idle
  <2>3. Subject(r)
    BY DEF Subject, Idle, OnLines, Known
  <2> HIDE DEF r
  <2> QED BY <2>2, <2>3, PlainBegins DEF PlainOps
<1>5. CASE ChangeModel(c)
  <2>1. PICK a \in Known(assets, Assets), m \in Models :
          Begin(c, "change model", [Idle EXCEPT !.op = "asset", !.pc = "asset", !.on = a, !.to = m,
                                     !.change = "model", !.wants = Row("asset", a, "update")])
    BY <1>5 DEF ChangeModel
  <2> DEFINE r == [Idle EXCEPT !.op = "asset", !.pc = "asset", !.on = a, !.to = m,
                               !.change = "model", !.wants = Row("asset", a, "update")]
  <2>2. Begin(c, "change model", r) /\ r.locks = {} /\ r.op = "asset"
    BY <2>1 DEF Idle
  <2>3. Subject(r)
    BY DEF Subject, Idle, OnLines, Known
  <2> HIDE DEF r
  <2> QED BY <2>2, <2>3, PlainBegins DEF PlainOps
<1> QED BY <1>1, <1>2, <1>3, <1>4, <1>5
-----------------------------------------------------------------------------
LEMMA DeletesKept ==
    ASSUME ProcurementInv, NEW c \in Clients,
           \/ DeleteLockTree(c) \/ DeleteLockRow(c) \/ DeleteLockChild(c) \/ DeleteScanPurchases(c)
           \/ DeleteLockPurchase(c) \/ DeleteScanAssets(c) \/ DeleteLockAsset(c) \/ DeleteRefused(c)
           \/ ReparentCheck(c)
    PROVE  Kept(c)
<1>0. Shape
  BY InvOf
<1>1. CASE DeleteLockTree(c)
  BY <1>1, PlainGoes DEF DeleteLockTree, Granted, PlainOps
<1>2. CASE DeleteLockRow(c)
  <2>1. CASE End(c)
    BY <1>0, <2>1, Ends
  <2>2. CASE client' = [client EXCEPT ![c] =
               Queued(Onward(c, "children", {}), "children", "location", "no key update",
                      Children(client[c].on))]
    BY <1>2, <2>2, PlainQueues DEF DeleteLockRow, Granted, PlainOps
  <2> QED BY <1>2, <2>1, <2>2 DEF DeleteLockRow
<1>3. CASE DeleteLockChild(c)
  BY <1>3, PlainLocksNext DEF DeleteLockChild, Granted, PlainOps
<1>4. CASE DeleteScanPurchases(c)
  BY <1>4, PlainQueues DEF DeleteScanPurchases, Granted, PlainOps
<1>5. CASE DeleteLockPurchase(c)
  BY <1>5, PlainLocksNext DEF DeleteLockPurchase, Granted, PlainOps
<1>6. CASE DeleteScanAssets(c)
  BY <1>6, PlainQueues DEF DeleteScanAssets, Granted, PlainOps
<1>7. CASE DeleteLockAsset(c)
  BY <1>7, PlainLocksNext DEF DeleteLockAsset, Granted, PlainOps
<1>8. CASE DeleteRefused(c)
  BY <1>0, <1>8, Ends DEF DeleteRefused
<1>9. CASE ReparentCheck(c)
  <2>1. CASE End(c)
    BY <1>0, <2>1, Ends
  <2>2. CASE Go(c, "write", Row("location", client[c].on, "no key update"))
    BY <1>9, <2>2, PlainGoes DEF ReparentCheck, Granted, PlainOps
  <2> QED BY <1>9, <2>1, <2>2 DEF ReparentCheck
<1> QED BY <1>1, <1>2, <1>3, <1>4, <1>5, <1>6, <1>7, <1>8, <1>9

LEMMA ModelDeletesKept ==
    ASSUME ProcurementInv, NEW c \in Clients,
           \/ ModelLockRow(c) \/ ModelScanPurchases(c) \/ ModelLockPurchase(c) \/ ModelScanAssets(c)
           \/ ModelLockAsset(c) \/ ModelScanLines(c) \/ ModelLockLine(c) \/ ModelRefused(c)
    PROVE  Kept(c)
<1>0. Shape
  BY InvOf
<1>1. CASE ModelLockRow(c)
  BY <1>1, PlainLocksNext DEF ModelLockRow, Granted, PlainOps
<1>2. CASE ModelScanPurchases(c)
  <2>1. CASE End(c)
    BY <1>0, <2>1, Ends
  <2>2. ASSUME ~ End(c) PROVE Kept(c)
    <3> DEFINE x == Onward(c, "purchases", {})
               seen == IF client[c].to \in StagedOf(c, "model") THEN 1 ELSE 0
               y == [x EXCEPT !.seen = seen, !.staged = {}]
               S == {PurchaseOf(l) : l \in LinesNaming(client[c].on)}
               r == Queued(y, "purchases", "purchase", "share", S)
    <3>1. client' = [client EXCEPT ![c] = r]
      BY <1>2, <2>2 DEF ModelScanPurchases
    <3>2. Alike(x, client[c]) /\ x.locks = client[c].locks \cup client[c].wants
      BY InvOf, OnwardAs
    <3>3. Alike(y, client[c]) /\ y.locks = client[c].locks \cup client[c].wants
      <4>1. DOMAIN x = DOMAIN Idle
        BY <3>2 DEF Alike
      <4> HIDE DEF x, seen
      <4>2. Alike(y, x) /\ y.locks = x.locks
        BY <4>1 DEF Alike, Idle
      <4> HIDE DEF y
      <4> QED BY <3>2, <4>2 DEF Alike
    <3>4. DOMAIN y = DOMAIN Idle
      BY <3>3 DEF Alike
    <3>5. Alike(r, y) /\ r.locks = y.locks /\ r.pc = "purchases"
      <4> HIDE DEF y, S
      <4> QED BY <3>4, QueuedAs
    <3>6. client[c].op = "delete model" /\ ~ Waits(c) /\ UNCHANGED <<tables, bounds>>
      BY <1>2 DEF ModelScanPurchases, Granted
    <3> HIDE DEF r, y
    <3>7. Alike(r, client[c])
      BY <3>3, <3>5 DEF Alike
    <3> QED BY <3>1, <3>3, <3>5, <3>6, <3>7, PlainContinues DEF PlainOps
  <2> QED BY <2>1, <2>2
<1>3. CASE ModelLockPurchase(c)
  BY <1>3, PlainLocksNext DEF ModelLockPurchase, Granted, PlainOps
<1>4. CASE ModelScanAssets(c)
  BY <1>4, PlainQueues DEF ModelScanAssets, Granted, PlainOps
<1>5. CASE ModelLockAsset(c)
  BY <1>5, PlainLocksNext DEF ModelLockAsset, Granted, PlainOps
<1>6. CASE ModelScanLines(c)
  BY <1>6, PlainQueues DEF ModelScanLines, Granted, PlainOps
<1>7. CASE ModelLockLine(c)
  BY <1>7, PlainLocksNext DEF ModelLockLine, Granted, PlainOps
<1>8. CASE ModelRefused(c)
  BY <1>0, <1>8, Ends DEF ModelRefused
<1> QED BY <1>1, <1>2, <1>3, <1>4, <1>5, <1>6, <1>7, <1>8

\* A unit that is done leaves the next one, the event or nothing.
LEMMA NextUnitKept ==
    ASSUME ProcurementInv, NEW c \in Clients, NEW created, client[c].op = "units",
           client' = [client EXCEPT ![c] = NextUnit(c, created)]
    PROVE  Advances(c) /\ Subject(client[c])' /\ (mix' = mix => Standing(client[c])')
<1> DEFINE r == NextUnit(c, created)
           x == client[c]
           made == x.seen + created
<1>1. Subject(x) /\ (x.line # None => "receive units" \in mix) /\ Shape
  BY InvOf DEF Standing
<1>2. /\ x.to \in Locations \cup {None} /\ x.of \in Models \cup {None}
      /\ x.line \in Lines \cup {None}
  BY <1>1 DEF Subject
<1> DEFINE Next1(q) == Subject(q) /\ q.locks = {} /\ q.op = "units" /\ q.line = x.line
<1>3. ASSUME r = [Unit(x.line, x.to, x.of, x.n - 1) EXCEPT !.seen = made] PROVE Next1(r)
  <2> DEFINE line == x.line
             to == x.to
             of == x.of
             n == x.n - 1
             u == Unit(line, to, of, n)
             q == [u EXCEPT !.seen = made]
  <2>1. /\ line \in Lines \cup {None} /\ to \in Locations \cup {None}
        /\ of \in Models \cup {None}
    BY <1>2
  <2>3. r = q
    BY <1>3
  <2> HIDE DEF line, to, of, n, made, r
  <2>2. Subject(q) /\ q.locks = {} /\ q.op = "units" /\ q.line = line
    BY <2>1 DEF Subject, Idle, Unit, OnLines
  <2> QED BY <2>3, <2>2 DEF line
<1>4. ASSUME r = [Idle EXCEPT !.op = "units", !.pc = "event", !.line = x.line,
                              !.wants = Held(PurchaseOf(x.line))]
      PROVE Next1(r)
  <2> DEFINE line == x.line
             wants == Held(PurchaseOf(x.line))
             q == [Idle EXCEPT !.op = "units", !.pc = "event", !.line = line, !.wants = wants]
  <2>1. line \in Lines \cup {None}
    BY <1>2
  <2>3. r = q
    BY <1>4
  <2> HIDE DEF line, wants, r
  <2>2. Subject(q) /\ q.locks = {} /\ q.op = "units" /\ q.line = line
    BY <2>1 DEF Subject, Idle, OnLines
  <2> QED BY <2>3, <2>2 DEF line
<1>5. CASE r = Idle
  BY <1>1, <1>5, Ends DEF End, Kept
<1>6. \/ r = [Unit(x.line, x.to, x.of, x.n - 1) EXCEPT !.seen = made]
      \/ r = [Idle EXCEPT !.op = "units", !.pc = "event", !.line = x.line,
                            !.wants = Held(PurchaseOf(x.line))]
      \/ r = Idle
  BY DEF NextUnit
<1>7. r # Idle => Next1(r)
  <2> HIDE DEF r, Next1
  <2> QED BY <1>3, <1>4, <1>6
<1>8. ASSUME r # Idle PROVE Advances(c) /\ Subject(client[c])' /\ (mix' = mix => Standing(client[c])')
  <2>1. client'[c] = r /\ Shape' /\ \A d \in Clients \ {c} : client'[d] = client[d]
    BY <1>1 DEF Shape
  <2> HIDE DEF r
  <2>2. Advances(c)
    BY <1>7, <1>8, <2>1 DEF Advances
  <2>3. Subject(client[c])'
    BY <1>7, <1>8, <2>1
  <2>4. mix' = mix => Standing(client[c])'
    BY <1>1, <1>7, <1>8, <2>1 DEF Standing
  <2> QED BY <2>2, <2>3, <2>4
<1> QED BY <1>5, <1>8

LEMMA PlainReceivingKept ==
    ASSUME ProcurementInv, NEW c \in Clients,
           \/ UnitCheck(c) \/ UnitsEvent(c) \/ UnlinkAssets(c) \/ FromAssetsCheck(c)
           \/ FromAssetsRefused(c) \/ FromAssetsGather(c) \/ FromAssetsModel(c)
           \/ CreateRefused(c) \/ AssetLockLocation(c) \/ AssetCheck(c)
           \/ LockAssets(c, "unlink") \/ LockAssets(c, "from assets")
    PROVE  Kept(c)
<1>0. Shape /\ DOMAIN client[c] = DOMAIN Idle
  BY InvOf
<1>1. CASE UnitCheck(c)
  <2>1. client[c].op = "units" /\ ~ Waits(c) /\ UNCHANGED <<tables, bounds>>
    BY <1>1 DEF UnitCheck, Granted
  <2>2. CASE client' = [client EXCEPT ![c] = NextUnit(c, 0)]
    BY <2>1, <2>2, NextUnitKept DEF Kept, bounds
  <2>3. CASE Go(c, "insert", Row("model", client[c].of, "key share")
                             \cup Row("line", client[c].line, "key share"))
    BY <2>1, <2>3, PlainGoes DEF PlainOps
  <2> QED BY <1>1, <2>2, <2>3 DEF UnitCheck, Go
<1>2. CASE UnitsEvent(c)
  BY <1>0, <1>2, Ends DEF UnitsEvent
<1>3. CASE UnlinkAssets(c)
  <2>1. client[c].op = "unlink" /\ ~ Waits(c) /\ UNCHANGED <<tables, bounds>>
    BY <1>3 DEF UnlinkAssets, Granted
  <2>2. CASE End(c)
    BY <1>0, <2>2, Ends
  <2>3. ASSUME ~ End(c) PROVE Kept(c)
    <3> DEFINE rows == Linkable(c, client[c].line)
               ask == Held(PurchaseOf(client[c].line))
               x == Onward(c, "event", ask)
               r == [x EXCEPT !.staged = rows]
    <3>1. client' = [client EXCEPT ![c] = r]
      BY <1>3, <2>3 DEF UnlinkAssets
    <3>2. Alike(x, client[c]) /\ x.pc = "event" /\ x.locks = client[c].locks \cup client[c].wants
      <4>1. DOMAIN client[c] = DOMAIN Idle
        BY <1>0
      <4> QED BY <4>1 DEF Onward, Alike, Idle
    <3>3. Alike(r, x) /\ r.pc = x.pc /\ r.locks = x.locks
      <4>1. DOMAIN x = DOMAIN Idle
        BY <3>2 DEF Alike
      <4> HIDE DEF x, rows
      <4> QED BY <4>1 DEF Alike, Idle
    <3> HIDE DEF r, x
    <3>4. Alike(r, client[c])
      BY <3>2, <3>3 DEF Alike
    <3> QED BY <2>1, <3>1, <3>2, <3>3, <3>4, PlainContinues DEF PlainOps
  <2> QED BY <2>2, <2>3
<1>4. CASE FromAssetsCheck(c)
  <2>1. CASE End(c)
    BY <1>0, <2>1, Ends
  <2>2. CASE client' = [client EXCEPT ![c] =
              Queued(Onward(c, "assets", {}), "assets", "asset", "update", client[c].target)]
    BY <1>4, <2>2, PlainQueues DEF FromAssetsCheck, Granted, PlainOps
  <2> QED BY <1>4, <2>1, <2>2 DEF FromAssetsCheck
<1>5. CASE FromAssetsRefused(c)
  BY <1>0, <1>5, Ends DEF FromAssetsRefused
<1>6. CASE CreateRefused(c)
  BY <1>0, <1>6, Ends DEF CreateRefused
<1>7. CASE AssetLockLocation(c)
  <2> DEFINE ask == Row("asset", client[c].on, "update")
             x == Onward(c, "asset", ask)
  <2>1. client[c].op = "asset" /\ ~ Waits(c) /\ UNCHANGED <<tables, bounds>>
    BY <1>7 DEF AssetLockLocation, Granted
  <2>2. CASE client' = [client EXCEPT ![c] = [x EXCEPT !.seen = 1]]
    <3> DEFINE r == [x EXCEPT !.seen = 1]
    <3>2. Alike(x, client[c]) /\ x.pc = "asset" /\ x.locks = client[c].locks \cup client[c].wants
      <4>1. DOMAIN client[c] = DOMAIN Idle
        BY <1>0
      <4> QED BY <4>1 DEF Onward, Alike, Idle
    <3>3. Alike(r, x) /\ r.pc = x.pc /\ r.locks = x.locks
      <4>1. DOMAIN x = DOMAIN Idle
        BY <3>2 DEF Alike
      <4> HIDE DEF x
      <4> QED BY <4>1 DEF Alike, Idle
    <3> HIDE DEF x
    <3>4. Alike(r, client[c]) /\ client' = [client EXCEPT ![c] = r]
      BY <2>2, <3>2, <3>3 DEF Alike
    <3> HIDE DEF r
    <3> QED BY <2>1, <3>2, <3>3, <3>4, PlainContinues DEF PlainOps
  <2>3. CASE client' = [client EXCEPT ![c] = [client[c] EXCEPT !.pc = "asset", !.wants = ask]]
    <3> DEFINE r == [client[c] EXCEPT !.pc = "asset", !.wants = ask]
    <3>1. Alike(r, client[c]) /\ r.pc = "asset" /\ r.locks = client[c].locks
      <4> HIDE DEF ask
      <4> QED BY <1>0 DEF Alike, Idle
    <3>2. client' = [client EXCEPT ![c] = r]
      BY <2>3
    <3> HIDE DEF r
    <3> QED BY <2>1, <3>1, <3>2, PlainContinues DEF PlainOps
  <2> QED BY <1>7, <2>2, <2>3 DEF AssetLockLocation
<1>8. CASE AssetCheck(c)
  <2>1. CASE End(c)
    BY <1>0, <2>1, Ends
  <2>2. ASSUME ~ End(c) PROVE Kept(c)
    <3>1. PICK wants : Go(c, "write", wants)
      BY <1>8, <2>2 DEF AssetCheck
    <3> QED BY <1>8, <3>1, PlainGoes DEF AssetCheck, Granted, PlainOps
  <2> QED BY <2>1, <2>2
<1>9. CASE LockAssets(c, "unlink") \/ LockAssets(c, "from assets")
  BY <1>9, PlainLocksNext DEF LockAssets, Granted, PlainOps
<1>10. CASE FromAssetsGather(c) \/ FromAssetsModel(c)
  <2>1. client[c].op = "from assets" /\ ~ Waits(c) /\ UNCHANGED <<tables, bounds>>
    BY <1>10 DEF FromAssetsGather, FromAssetsModel, Granted
  <2>2. PICK ask, left :
          client' = [client EXCEPT ![c] = [Onward(c, "models", ask) EXCEPT !.ids = left]]
    BY <1>10 DEF FromAssetsGather, FromAssetsModel
  <2> DEFINE x == Onward(c, "models", ask)
             r == [x EXCEPT !.ids = left]
  <2>3. Alike(x, client[c]) /\ x.pc = "models" /\ x.locks = client[c].locks \cup client[c].wants
    <3>1. DOMAIN client[c] = DOMAIN Idle
      BY <1>0
    <3> QED BY <3>1 DEF Onward, Alike, Idle
  <2>4. Alike(r, x) /\ r.pc = x.pc /\ r.locks = x.locks
    <3>1. DOMAIN x = DOMAIN Idle
      BY <2>3 DEF Alike
    <3> HIDE DEF x
    <3> QED BY <3>1 DEF Alike, Idle
  <2>5. client' = [client EXCEPT ![c] = r]
    BY <2>2
  <2> HIDE DEF r, x
  <2>6. Alike(r, client[c])
    BY <2>3, <2>4 DEF Alike
  <2> QED BY <2>1, <2>3, <2>4, <2>5, <2>6, PlainContinues DEF PlainOps
<1> QED BY <1>1, <1>2, <1>3, <1>4, <1>5, <1>6, <1>7, <1>8, <1>9, <1>10
-----------------------------------------------------------------------------
(***************************************************************************)
(* The steps that check what a later write relies on.                       *)
(***************************************************************************)
LEMMA Proceeds ==
    ASSUME ProcurementInv, NEW c \in Clients, NEW r, client' = [client EXCEPT ![c] = r],
           ~ Waits(c), Alike(r, client[c]), r.pc # "idle",
           r.locks = client[c].locks \cup client[c].wants, UNCHANGED <<tables, bounds>>,
           Standing(r)
    PROVE  Kept(c)
<1>1. Subject(r)
  BY InvOf, SubjectKept
<1> QED BY <1>1, InvOf, Continues

LEMMA ReturnedNat ==
    ASSUME TypeOK, NEW m
    PROVE  Returned(m) \in Nat
<1> DEFINE S == {k \in DOMAIN movements : movements[k].of = m}
<1>1. Len(movements) \in Nat /\ DOMAIN movements = 1 .. Len(movements)
      /\ \A k \in DOMAIN movements : movements[k] \in MovementRecord
  BY LenProperties, ElementOfSeq DEF TypeOK
<1>2. IsFiniteSet(S)
  <2>1. IsFiniteSet(1 .. Len(movements))
    BY <1>1, FS_Interval
  <2> QED BY <1>1, <2>1, FS_Subset
<1>3. Bounded(S, Quantity)
  BY <1>1 DEF Quantity, MovementRecord, Bounded
<1> HIDE DEF S
<1>4. Sum(S, Quantity) \in Nat
  BY <1>2, <1>3, UnitsFinite
<1> QED BY <1>4 DEF Returned, S

LEMMA MovesKept ==
    ASSUME ProcurementInv, NEW c \in Clients,
           \/ CheckTarget(c) \/ LockReturnableDelivery(c) \/ ReceiveBeforeWrite(c) \/ ReadCeiling(c)
    PROVE  Kept(c)
<1>0. Shape /\ DOMAIN client[c] = DOMAIN Idle
  BY InvOf
<1>1. CASE End(c)
  BY <1>0, <1>1, Ends
<1>2. CASE CheckTarget(c) /\ ~ End(c)
  <2>1. /\ Go(c, "stock", ItemRow(client[c].on)) /\ ~ Waits(c) /\ UNCHANGED <<tables, bounds>>
        /\ client[c].op = "move" /\ client[c].pc = "target"
    BY <1>2 DEF CheckTarget, Granted
  <2>2. client[c].of = None /\ client[c].line = None
    BY <2>1, InvOf DEF Standing, Moving
  <2> DEFINE r == Onward(c, "stock", ItemRow(client[c].on))
  <2>3. /\ Alike(r, client[c]) /\ r.pc = "stock" /\ r.wants = ItemRow(client[c].on)
        /\ r.locks = client[c].locks \cup client[c].wants
    BY <1>0, OnwardAs
  <2>4. client' = [client EXCEPT ![c] = r]
    BY <2>1 DEF Go
  <2> HIDE DEF r
  <2>5. Standing(r)
    BY <2>1, <2>2, <2>3, MoveStands DEF Alike, Moving, Counting
  <2> QED BY <2>1, <2>3, <2>4, <2>5, Proceeds
<1>3. CASE LockReturnableDelivery(c) /\ ~ End(c)
  <2>1. /\ Go(c, "ceiling", {}) /\ ~ Waits(c) /\ UNCHANGED <<tables, bounds>>
        /\ client[c].op = "move" /\ client[c].pc = "delivery"
        /\ movements[client[c].of].target # {}
        /\ client[c].n <= movements[client[c].of].n - Returned(client[c].of)
    BY <1>3 DEF LockReturnableDelivery, Granted
  <2>2. /\ client[c].of # None /\ client[c].wants = DeliveryLock(client[c].of)
        /\ client[c].of \in DOMAIN movements /\ client[c].change = "IN" /\ client[c].line = None
    BY <2>1, InvOf DEF Standing, Moving
  <2>6. Returned(client[c].of) + client[c].n <= movements[client[c].of].n
    <3>1. Returned(client[c].of) \in Nat /\ movements[client[c].of].n \in Nat
      BY <2>2, TypesOf, ReturnedNat, CeilingNat DEF MovementRecord
    <3>2. client[c].n \in Nat
      <4>1. client[c].n \in 0 .. Ceiling
        BY <2>1, InvOf DEF Subject
      <4> QED BY <4>1, CeilingNat
    <3> QED BY <2>1, <3>1, <3>2
  <2> DEFINE r == Onward(c, "ceiling", {})
  <2>3. /\ Alike(r, client[c]) /\ r.pc = "ceiling"
        /\ r.locks = client[c].locks \cup client[c].wants
    BY <1>0, OnwardAs
  <2>4. client' = [client EXCEPT ![c] = r]
    BY <2>1 DEF Go
  <2> HIDE DEF r
  <2>5. Standing(r)
    BY <2>1, <2>2, <2>3, <2>6, MoveStands DEF Alike, Moving, Counting
  <2> QED BY <2>1, <2>3, <2>4, <2>5, Proceeds
<1>4. CASE ReceiveBeforeWrite(c) /\ ~ End(c)
  <2>1. /\ Go(c, "ceiling", {}) /\ ~ Waits(c) /\ UNCHANGED <<tables, bounds>>
        /\ client[c].op = "move" /\ client[c].pc = "purchase"
        /\ Takes(client[c].line, "CONSUMABLE")
    BY <1>4 DEF ReceiveBeforeWrite, Granted, LiveLine, Takes
  <2>2. /\ client[c].line # None /\ client[c].wants = Held(PurchaseOf(client[c].line))
        /\ client[c].of = None /\ client[c].change = "IN" /\ client[c].n # 0
        /\ lines[client[c].line].state # "none"
    BY <2>1, InvOf DEF Standing, Moving
  <2> DEFINE r == Onward(c, "ceiling", {})
  <2>3. /\ Alike(r, client[c]) /\ r.pc = "ceiling"
        /\ r.locks = client[c].locks \cup client[c].wants
    BY <1>0, OnwardAs
  <2>4. client' = [client EXCEPT ![c] = r]
    BY <2>1 DEF Go
  <2> HIDE DEF r
  <2>5. Standing(r)
    BY <2>1, <2>2, <2>3, MoveStands DEF Alike, Moving, Counting
  <2> QED BY <2>1, <2>3, <2>4, <2>5, Proceeds
<1>5. CASE ReadCeiling(c) /\ ~ End(c)
  <2>1. /\ Go(c, "stock", ItemRow(client[c].on)) /\ ~ Waits(c) /\ UNCHANGED <<tables, bounds>>
        /\ client[c].op = "move" /\ client[c].pc = "ceiling"
    BY <1>5 DEF ReadCeiling, Granted
  <2>2. Moving(client[c])
    BY <2>1, InvOf DEF Standing
  <2> DEFINE r == Onward(c, "stock", ItemRow(client[c].on))
  <2>3. /\ Alike(r, client[c]) /\ r.pc = "stock" /\ r.wants = ItemRow(client[c].on)
        /\ r.locks = client[c].locks \cup client[c].wants
    BY <1>0, OnwardAs
  <2>4. client' = [client EXCEPT ![c] = r]
    BY <2>1 DEF Go
  <2> HIDE DEF r
  <2>5. Standing(r)
    BY <2>1, <2>2, <2>3, MoveStands DEF Alike, Moving, Counting
  <2> QED BY <2>1, <2>3, <2>4, <2>5, Proceeds
<1> QED BY <1>1, <1>2, <1>3, <1>4, <1>5

LEMMA MoveStockKept ==
    ASSUME ProcurementInv, NEW c \in Clients, MoveStock(c)
    PROVE  Kept(c)
<1>0. Shape /\ DOMAIN client[c] = DOMAIN Idle
  BY InvOf
<1>1. CASE End(c)
  BY <1>0, <1>1, Ends
<1>2. CASE ~ End(c)
  <2> DEFINE row == consumables[client[c].on]
             level == After(row.stock, MovementRow(client[c]))
             asked == References(client[c])
             x == Onward(c, "insert", asked)
             r == [x EXCEPT !.seen = level]
  <2>1. /\ client' = [client EXCEPT ![c] = r] /\ ~ Waits(c) /\ UNCHANGED <<tables, bounds>>
        /\ client[c].op = "move" /\ client[c].pc = "stock" /\ Movable(row, client[c])
    BY <1>2 DEF MoveStock, Granted
  <2>2. Moving(client[c]) /\ Subject(client[c])
    BY <2>1, InvOf DEF Standing
  <2>3. level \in 0 .. Ceiling
    <3>1. /\ client[c].on \in Items /\ client[c].n \in 0 .. Ceiling
          /\ client[c].change \in {"IN", "OUT", "ADJUSTMENT"}
      BY <2>1, <2>2 DEF Subject
    <3>2. row.stock \in 0 .. Ceiling
      BY <3>1, TypesOf DEF TypeOK, ConsumableRecord
    <3>3. MovementRow(client[c]).type = client[c].change /\ MovementRow(client[c]).n = client[c].n
      BY DEF MovementRow
    <3> DEFINE s == row.stock
               n == client[c].n
    <3>4. s \in Nat /\ n \in Nat /\ s <= Ceiling /\ n <= Ceiling /\ Ceiling \in Nat
      BY <3>1, <3>2, CeilingNat
    <3>5. CASE client[c].change = "IN"
      <4>1. s + n <= Ceiling /\ level = s + n
        BY <2>1, <3>3, <3>5 DEF Movable, After
      <4> HIDE DEF s, n, level
      <4> QED BY <3>4, <4>1
    <3>6. CASE client[c].change = "OUT"
      <4>1. n <= s /\ level = s - n
        BY <2>1, <3>3, <3>4, <3>6 DEF Movable, After
      <4> HIDE DEF s, n, level
      <4> QED BY <3>4, <4>1
    <3>7. CASE client[c].change = "ADJUSTMENT"
      BY <3>1, <3>3, <3>7 DEF After
    <3> QED BY <3>1, <3>5, <3>6, <3>7
  <2>4. /\ Alike(x, client[c]) /\ x.pc = "insert"
        /\ x.locks = client[c].locks \cup client[c].wants
    <3> HIDE DEF asked
    <3> QED BY <1>0 DEF Onward, Alike, Idle
  <2>5. Alike(r, x) /\ r.pc = x.pc /\ r.locks = x.locks /\ r.seen = level
    <3>1. DOMAIN x = DOMAIN Idle
      BY <2>4 DEF Alike
    <3> HIDE DEF x, level
    <3> QED BY <3>1 DEF Alike, Idle
  <2> HIDE DEF x, r
  <2>6. Alike(r, client[c]) /\ r.locks = client[c].locks \cup client[c].wants
    BY <2>4, <2>5 DEF Alike
  <2>7. MovementRow(r) = MovementRow(client[c]) /\ r.on = client[c].on
    BY <2>6 DEF MovementRow, Alike
  <2>8. r.seen \in 0 .. Ceiling /\ r.seen = After(consumables[r.on].stock, MovementRow(r))
    BY <2>3, <2>5, <2>7
  <2>9. r.pc = "insert" /\ ItemRow(r.on) \subseteq r.locks
    BY <2>1, <2>2, <2>4, <2>5, <2>6, <2>7 DEF Moving
  <2>10. Standing(r)
    <3> HIDE DEF level, row
    <3> QED BY <2>1, <2>2, <2>6, <2>8, <2>9, MoveStands DEF Alike, Moving, Counting
  <2> QED BY <2>1, <2>6, <2>9, <2>10, Proceeds
<1> QED BY <1>1, <1>2

LEMMA ReceivedNat ==
    ASSUME TypeOK, NEW l \in Lines
    PROVE  Received(l) \in Nat
<1>1. lines[l] \in LineRecord
  BY DEF TypeOK
<1>2. CASE lines[l].kind = "CONSUMABLE"
  <2> DEFINE S == {m \in DOMAIN movements : movements[m].line = l /\ movements[m].type = "IN"}
  <2>1. /\ Len(movements) \in Nat /\ DOMAIN movements = 1 .. Len(movements)
        /\ \A k \in DOMAIN movements : movements[k] \in MovementRecord
    BY LenProperties, ElementOfSeq DEF TypeOK
  <2>2. IsFiniteSet(S)
    <3>1. IsFiniteSet(1 .. Len(movements))
      BY <2>1, FS_Interval
    <3> QED BY <2>1, <3>1, FS_Subset
  <2>3. Bounded(S, Quantity)
    BY <2>1 DEF Quantity, MovementRecord, Bounded
  <2>4. Sum(S, Quantity) \in Nat
    <3> HIDE DEF S
    <3> QED BY <2>2, <2>3, UnitsFinite
  <2> QED BY <1>2, <2>4 DEF Received
<1>3. CASE lines[l].kind = "LICENSE"
  <2>1. lines[l].applied \in 0 .. Ceiling
    BY <1>1 DEF LineRecord
  <2> QED BY <1>3, <2>1, CeilingNat DEF Received
<1>4. CASE lines[l].kind # "CONSUMABLE" /\ lines[l].kind # "LICENSE"
  <2> DEFINE S == {a \in LiveAssets(Assets) : assets[a].line = l}
  <2>1. S \subseteq Assets
    BY DEF LiveAssets
  <2>2. Received(l) = Cardinality(S)
    BY <1>4 DEF Received
  <2> HIDE DEF S
  <2> QED BY <2>1, <2>2, FS_Subset, FS_CardinalityType, ProcurementAssumption
<1> QED BY <1>2, <1>3, <1>4

\* What arrives, is applied or was received is what Received counts.
LEMMA NothingReceived ==
    ASSUME TypeOK, ReceiptsMatchLine, CountsUnits, NEW l \in Lines,
           lines[l].state = "live", Received(l) = 0
    PROVE  Untouched(l)
<1>1. /\ Len(movements) \in Nat /\ DOMAIN movements = 1 .. Len(movements)
      /\ \A k \in DOMAIN movements : movements[k] \in MovementRecord
  BY LenProperties, ElementOfSeq DEF TypeOK
<1>2. lines[l] \in LineRecord /\ l # None
  BY ProcurementAssumption DEF TypeOK
<1>3. \A m \in DOMAIN movements : movements[m].line # l
  <2>1. CASE lines[l].kind # "CONSUMABLE"
    BY <1>2, <2>1 DEF ReceiptsMatchLine
  <2>2. CASE lines[l].kind = "CONSUMABLE"
    <3> DEFINE S == {m \in DOMAIN movements : movements[m].line = l /\ movements[m].type = "IN"}
    <3>1. Sum(S, Quantity) = 0
      BY <2>2 DEF Received
    <3>2. IsFiniteSet(S)
      <4>1. IsFiniteSet(1 .. Len(movements))
        BY <1>1, FS_Interval
      <4> QED BY <1>1, <4>1, FS_Subset
    <3>3. Bounded(S, Quantity) /\ \A m \in S : Quantity[m] = movements[m].n
      BY <1>1 DEF Quantity, MovementRecord, Bounded
    <3>4. \A m \in S : Quantity[m] = 0
      <4> HIDE DEF S
      <4> QED BY <3>1, <3>2, <3>3, SumZero
    <3> QED BY <1>2, <3>3, <3>4 DEF CountsUnits
  <2> QED BY <2>1, <2>2
<1>4. lines[l].applied = 0
  <2>1. CASE lines[l].kind # "LICENSE"
    <3>1. lines[l].applied \in 0 .. Ceiling
      BY <1>2 DEF LineRecord
    <3>2. ~ (lines[l].applied > 0)
      BY <2>1 DEF ReceiptsMatchLine
    <3> QED BY <3>1, <3>2, CeilingNat
  <2>2. CASE lines[l].kind = "LICENSE"
    BY <2>2 DEF Received
  <2> QED BY <2>1, <2>2
<1>5. ASSUME mix \cap {"receive units", "restore asset"} = {}, NEW a \in LiveAssets(Assets)
      PROVE  assets[a].line # l
  <2>1. CASE lines[l].kind # "ASSET"
    BY <1>2, <1>5, <2>1 DEF ReceiptsMatchLine
  <2>2. CASE lines[l].kind = "ASSET"
    <3> DEFINE S == {b \in LiveAssets(Assets) : assets[b].line = l}
    <3>1. Cardinality(S) = 0
      BY <2>2 DEF Received
    <3>2. IsFiniteSet(S)
      <4>1. S \subseteq Assets
        BY DEF LiveAssets
      <4> HIDE DEF S
      <4> QED BY <4>1, FS_Subset, ProcurementAssumption
    <3>3. S = {}
      <4> HIDE DEF S
      <4> QED BY <3>1, <3>2, FS_EmptySet
    <3> QED BY <1>5, <3>3
  <2> QED BY <2>1, <2>2
<1> QED BY <1>3, <1>4, <1>5 DEF Untouched

LEMMA SoundTables ==
    ASSUME ProcurementInv
    PROVE  /\ TypeOK /\ StockIsLedger /\ ReturnsWithinDelivery /\ SeatsAreApplied
           /\ PurchaseIdentified /\ ReceiptsMatchLine /\ CountsUnits /\ LocksExclude
BY DEF ProcurementInv, TablesSound

LEMMA UpdatePurchaseKept ==
    ASSUME ProcurementInv, NEW c \in Clients, UpdateLockLocation(c) \/ UpdateCheck(c)
    PROVE  Kept(c)
<1>0. Shape /\ DOMAIN client[c] = DOMAIN Idle /\ Subject(client[c]) /\ Standing(client[c])
  BY InvOf
<1>1. CASE UpdateLockLocation(c)
  <2> DEFINE asked == UpdateLock(client[c].on)
             x == Onward(c, "purchase", asked)
             y == [client[c] EXCEPT !.pc = "purchase", !.wants = asked]
  <2>1. /\ client[c].op = "update purchase" /\ ~ Waits(c) /\ UNCHANGED <<tables, bounds>>
        /\ client[c].pc = "location"
    BY <1>1 DEF UpdateLockLocation, Granted
  <2>2. client[c].change # "clear"
    BY <1>0, <2>1 DEF Standing, Clearing
  <2>3. /\ Alike(x, client[c]) /\ x.pc = "purchase"
        /\ x.locks = client[c].locks \cup client[c].wants
    <3> HIDE DEF asked
    <3> QED BY <1>0 DEF Onward, Alike, Idle
  <2>4. Alike(y, client[c]) /\ y.pc = "purchase" /\ y.locks = client[c].locks
    <3> HIDE DEF asked
    <3> QED BY <1>0 DEF Alike, Idle
  <2>5. client' = [client EXCEPT ![c] = x] \/ client' = [client EXCEPT ![c] = y]
    BY <1>1 DEF UpdateLockLocation
  <2> HIDE DEF x, y
  <2>6. \A r : Alike(r, client[c]) => Standing(r)
    BY <2>1, <2>2 DEF Alike, Standing
  <2>7. CASE client' = [client EXCEPT ![c] = x]
    BY <2>1, <2>3, <2>6, <2>7, Proceeds
  <2>8. CASE client' = [client EXCEPT ![c] = y]
    <3>1. Subject(y)
      BY <1>0, <2>4, SubjectKept
    <3> QED BY <1>0, <2>1, <2>4, <2>6, <2>8, <3>1, Continues
  <2> QED BY <2>5, <2>7, <2>8
<1>2. CASE UpdateCheck(c)
  <2>1. CASE End(c)
    BY <1>0, <2>1, Ends
  <2>2. CASE ~ End(c)
    <3> DEFINE asked == Place(client[c].to) \cup Row("purchase", client[c].on, "no key update")
               r == Onward(c, "write", asked)
    <3>1. /\ client[c].op = "update purchase" /\ ~ Waits(c) /\ UNCHANGED <<tables, bounds>>
          /\ client[c].pc = "purchase" /\ Go(c, "write", asked)
          /\ client[c].change = "clear" => LinesOf(client[c].on) # {}
      BY <1>2, <2>2 DEF UpdateCheck, Granted
    <3>2. Alike(r, client[c]) /\ r.pc = "write" /\ r.locks = client[c].locks \cup client[c].wants
      <4> HIDE DEF asked
      <4> QED BY <1>0 DEF Onward, Alike, Idle
    <3>3. client' = [client EXCEPT ![c] = r]
      BY <3>1 DEF Go
    <3> HIDE DEF r
    <3>4. Standing(r)
      BY <1>0, <3>1, <3>2 DEF Alike, Standing, Clearing
    <3> QED BY <3>1, <3>2, <3>3, <3>4, Proceeds
  <2> QED BY <2>1, <2>2
<1> QED BY <1>1, <1>2

LEMMA RemoveLineKept ==
    ASSUME ProcurementInv, NEW c \in Clients, RemoveLineCheck(c)
    PROVE  Kept(c)
<1>0. Shape /\ DOMAIN client[c] = DOMAIN Idle /\ Subject(client[c]) /\ Standing(client[c])
  BY InvOf
<1>1. CASE End(c)
  BY <1>0, <1>1, Ends
<1>2. CASE ~ End(c)
  <2> DEFINE l == client[c].line
             asked == Row("line", l, "no key update")
             r == Onward(c, "write", asked)
  <2>1. /\ client[c].op = "remove line" /\ ~ Waits(c) /\ UNCHANGED <<tables, bounds>>
        /\ client[c].pc = "purchase" /\ Go(c, "write", asked)
        /\ LiveLine(l) /\ Received(l) = 0
        /\ purchases[PurchaseOf(l)].named \/ LinesOf(PurchaseOf(l)) \ {l} # {}
    BY <1>2 DEF RemoveLineCheck, Granted
  <2>2. Alike(r, client[c]) /\ r.pc = "write" /\ r.locks = client[c].locks \cup client[c].wants
    <3> HIDE DEF asked
    <3> QED BY <1>0 DEF Onward, Alike, Idle
  <2>3. client' = [client EXCEPT ![c] = r]
    BY <2>1 DEF Go
  <2>4. l \in Lines /\ lines[l].state = "live" /\ purchases[PurchaseOf(l)].state = "live"
    BY <1>0, <2>1 DEF Subject, OnLines, LiveLine, PurchaseOf
  <2>5. Untouched(l)
    BY <2>1, <2>4, SoundTables, NothingReceived
  <2> HIDE DEF r
  <2>6. r.line = l /\ r.op = "remove line"
    BY <2>1, <2>2 DEF Alike
  <2>7. Removing(client[c])
    BY <1>0, <2>1 DEF Standing
  <2>8. Whole(PurchaseOf(l)) \subseteq r.locks
    BY <2>1, <2>2, <2>7 DEF Removing
  <2>9. Removing(r)
    BY <2>1, <2>2, <2>4, <2>5, <2>6, <2>8 DEF Removing
  <2>10. Standing(r)
    BY <2>6, <2>9 DEF Standing
  <2> QED BY <2>1, <2>2, <2>3, <2>10, Proceeds
<1> QED BY <1>1, <1>2

LEMMA CancelKept ==
    ASSUME ProcurementInv, NEW c \in Clients, CancelLock(c) \/ CancelCheck(c)
    PROVE  Kept(c)
<1>0. Shape /\ DOMAIN client[c] = DOMAIN Idle /\ Subject(client[c]) /\ Standing(client[c])
  BY InvOf
<1>1. CASE End(c)
  BY <1>0, <1>1, Ends
<1>2. CASE CancelLock(c) /\ ~ End(c)
  <2> DEFINE l == client[c].line
             asked == CancelLocks(l)
             r == Onward(c, "line", asked)
  <2>1. /\ client[c].op = "cancel" /\ ~ Waits(c) /\ UNCHANGED <<tables, bounds>>
        /\ Go(c, "line", asked)
    BY <1>2 DEF CancelLock, Granted
  <2>2. /\ Alike(r, client[c]) /\ r.pc = "line" /\ r.wants = asked
        /\ r.locks = client[c].locks \cup client[c].wants
    <3> HIDE DEF asked
    <3> QED BY <1>0 DEF Onward, Alike, Idle
  <2>3. client' = [client EXCEPT ![c] = r]
    BY <2>1 DEF Go
  <2>4. lines[l].state # "none"
    BY <1>0, <2>1 DEF Standing, Cancelling
  <2> HIDE DEF r
  <2>6. r.line = l /\ r.op = "cancel"
    BY <2>1, <2>2 DEF Alike
  <2>9. Cancelling(r)
    BY <2>2, <2>4, <2>6 DEF Cancelling
  <2>10. Standing(r)
    BY <2>6, <2>9 DEF Standing
  <2> QED BY <2>1, <2>2, <2>3, <2>10, Proceeds
<1>3. CASE CancelCheck(c) /\ ~ End(c)
  <2> DEFINE l == client[c].line
             x == Onward(c, "write", {})
  <2>1. /\ client[c].op = "cancel" /\ client[c].pc = "line" /\ ~ Waits(c)
        /\ UNCHANGED <<tables, bounds>>
        /\ Pending(l) # 0
        /\ \E n \in 1 .. Pending(l) :
             client' = [client EXCEPT ![c] = [x EXCEPT !.seen = lines[l].cancelled + n]]
    BY <1>3 DEF CancelCheck, Granted
  <2>2. PICK n \in 1 .. Pending(l) :
          client' = [client EXCEPT ![c] = [x EXCEPT !.seen = lines[l].cancelled + n]]
    BY <2>1
  <2>3. l \in Lines /\ Cancelling(client[c]) /\ lines[l] \in LineRecord
    BY <1>0, <2>1, TypesOf DEF Subject, OnLines, Standing
  <2> DEFINE to == lines[l].cancelled + n
             r == [x EXCEPT !.seen = to]
  <2>4. to \in 0 .. lines[l].quantity
    <3>1. lines[l].quantity \in Nat /\ lines[l].cancelled \in Nat
      <4>1. lines[l].quantity \in 1 .. Ceiling /\ lines[l].cancelled \in 0 .. Ceiling
        BY <2>3 DEF LineRecord
      <4> QED BY <4>1, CeilingNat
    <3>2. Received(l) \in Nat
      BY <2>3, SoundTables, ReceivedNat
    <3> DEFINE open == lines[l].quantity - lines[l].cancelled - Received(l)
    <3>3. Pending(l) = open \/ Pending(l) = 0
      BY DEF Pending
    <3>4. Pending(l) = open
      BY <2>1, <3>3
    <3>5. n \in 1 .. open
      BY <2>2, <3>4
    <3> DEFINE q == lines[l].quantity
               k == lines[l].cancelled
               d == Received(l)
    <3>6. q \in Nat /\ k \in Nat /\ d \in Nat /\ n \in 1 .. (q - k - d)
      BY <3>1, <3>2, <3>5
    <3>7. k + n \in 0 .. q
      <4> HIDE DEF q, k, d
      <4> QED BY <3>6
    <3> QED BY <3>7
  <2>5. /\ Alike(x, client[c]) /\ x.pc = "write"
        /\ x.locks = client[c].locks \cup client[c].wants
    BY <1>0 DEF Onward, Alike, Idle
  <2>6. Alike(r, x) /\ r.pc = x.pc /\ r.locks = x.locks /\ r.seen = to
    <3>1. DOMAIN x = DOMAIN Idle
      BY <2>5 DEF Alike
    <3> HIDE DEF x, to
    <3> QED BY <3>1 DEF Alike, Idle
  <2>7. client' = [client EXCEPT ![c] = r]
    BY <2>2
  <2> HIDE DEF r, x
  <2>8. Alike(r, client[c]) /\ r.line = l /\ r.op = "cancel"
    BY <2>1, <2>5, <2>6 DEF Alike
  <2>9. LineRow(l) \subseteq r.locks
    BY <2>1, <2>3, <2>5, <2>6 DEF Cancelling, CancelLocks
  <2>10. Cancelling(r)
    BY <2>3, <2>4, <2>5, <2>6, <2>8, <2>9 DEF Cancelling
  <2>11. Standing(r)
    BY <2>8, <2>10 DEF Standing
  <2> QED BY <2>1, <2>5, <2>6, <2>7, <2>8, <2>11, Proceeds
<1> QED BY <1>1, <1>2, <1>3

LEMMA NotPositive ==
    ASSUME NEW n \in 0 .. Ceiling, ~ (n > 0)
    PROVE  n = 0
BY CeilingNat

LEMMA Positive ==
    ASSUME NEW n \in 0 .. Ceiling, n > 0
    PROVE  n # 0
BY CeilingNat

LEMMA Within ==
    ASSUME NEW n \in 1 .. Ceiling, NEW k \in 0 .. n
    PROVE  k \in 0 .. Ceiling /\ k <= n
BY CeilingNat

LEMMA QuantityRows ==
    ASSUME NEW l, NEW row \in NewQuantity(l)
    PROVE  \E n \in 1 .. Ceiling : \E k \in 0 .. n :
             row = [lines[l] EXCEPT !.quantity = n, !.cancelled = k]
BY DEF NewQuantity

LEMMA NewValueSound ==
    ASSUME ProcurementInv, NEW l \in Lines, lines[l].state = "live",
           NEW change \in {"change kind", "change quantity", "map line"},
           NEW row \in NewValue(l, change)
    PROVE  /\ row \in LineRecord /\ SoundLine(row) /\ row.state = "live"
           /\ row.purchase = lines[l].purchase /\ row.applied = lines[l].applied
           /\ row.kind # lines[l].kind => change = "change kind" /\ Untouched(l)
           /\ row.item # lines[l].item => lines[l].applied = 0 \/ change = "map line"
<1> DEFINE old == lines[l]
<1>1. old \in LineRecord /\ SoundLine(old) /\ old.state = "live"
  BY SoundTables DEF TypeOK
<1>2. CASE change = "change kind"
  <2> DEFINE S == IF Received(l) = 0 THEN Kinds \ {old.kind} ELSE {}
  <2>0. row \in NewKind(l)
    BY <1>2 DEF NewValue
  <2>2. PICK kind \in S : row = [old EXCEPT !.kind = kind, !.item = None]
    BY <2>0 DEF NewKind
  <2>1. Received(l) = 0 /\ kind \in Kinds
    OBVIOUS
  <2>3. Untouched(l) /\ old.applied = 0
    BY <2>1, SoundTables, NothingReceived DEF Untouched
  <2> HIDE DEF old
  <2>4. /\ row \in LineRecord /\ row.state = old.state /\ row.purchase = old.purchase
        /\ row.applied = old.applied /\ row.item = None /\ row.quantity = old.quantity
        /\ row.cancelled = old.cancelled
    BY <1>1, <2>2 DEF LineRecord
  <2> QED BY <1>1, <1>2, <2>3, <2>4 DEF SoundLine, old
<1>3. CASE change = "change quantity"
  <2>0. \E n \in 1 .. Ceiling : \E k \in 0 .. n : row = [old EXCEPT !.quantity = n, !.cancelled = k]
    <3>1. row \in NewQuantity(l)
      BY <1>3 DEF NewValue
    <3> QED BY <3>1, QuantityRows
  <2>1. PICK n \in 1 .. Ceiling : \E k \in 0 .. n :
          row = [old EXCEPT !.quantity = n, !.cancelled = k]
    BY <2>0
  <2>2. PICK k \in 0 .. n : row = [old EXCEPT !.quantity = n, !.cancelled = k]
    BY <2>1
  <2> HIDE DEF old
  <2>3. n \in 1 .. Ceiling /\ k \in 0 .. Ceiling /\ k <= n
    BY Within
  <2>4. /\ row \in LineRecord /\ row.state = old.state /\ row.purchase = old.purchase
        /\ row.applied = old.applied /\ row.item = old.item /\ row.kind = old.kind
        /\ row.quantity = n /\ row.cancelled = k
    BY <1>1, <2>2, <2>3 DEF LineRecord
  <2> QED BY <1>1, <2>3, <2>4 DEF SoundLine, old
<1>4. CASE change = "map line"
  <2>1. CASE \E m \in Models \cup {None} : row = [old EXCEPT !.model = m]
    <3>1. PICK m \in Models \cup {None} : row = [old EXCEPT !.model = m]
      BY <2>1
    <3> HIDE DEF old
    <3>4. /\ row \in LineRecord /\ row.state = old.state /\ row.purchase = old.purchase
          /\ row.applied = old.applied /\ row.item = old.item /\ row.kind = old.kind
          /\ row.quantity = old.quantity /\ row.cancelled = old.cancelled
      BY <1>1, <3>1 DEF LineRecord
    <3> QED BY <1>1, <3>4 DEF SoundLine, old
  <2>2. CASE \E i \in {None} \cup ItemsOf(old.kind) : row = [old EXCEPT !.item = i]
    <3>1. PICK i \in {None} \cup ItemsOf(old.kind) : row = [old EXCEPT !.item = i]
      BY <2>2
    <3>2. i \in Items \cup Apps \cup {None}
      BY DEF ItemsOf
    <3> HIDE DEF old
    <3>4. /\ row \in LineRecord /\ row.state = old.state /\ row.purchase = old.purchase
          /\ row.applied = old.applied /\ row.item = i /\ row.kind = old.kind
          /\ row.quantity = old.quantity /\ row.cancelled = old.cancelled
      BY <1>1, <3>1, <3>2 DEF LineRecord
    <3>5. SoundLine(row)
      BY <1>1, <3>1, <3>4 DEF SoundLine
    <3> QED BY <1>1, <1>4, <3>4, <3>5 DEF old
  <2> DEFINE S == {None} \cup Mappable(old.kind)
             M == {None} \cup {k \in Models : models[k] = "live"}
  <2>3. row \in NewMapping(l)
    BY <1>4 DEF NewValue
  <2>4. \/ \E m \in M : row = [old EXCEPT !.model = m]
        \/ \E i \in S : row = [old EXCEPT !.item = i]
    BY <2>3 DEF NewMapping
  <2>5. M \subseteq Models \cup {None} /\ S \subseteq {None} \cup ItemsOf(old.kind)
    BY DEF Mappable
  <2> HIDE DEF M, S
  <2> QED BY <2>1, <2>2, <2>4, <2>5
<1> QED BY <1>2, <1>3, <1>4

LEMMA UpdateLineKept ==
    ASSUME ProcurementInv, NEW c \in Clients, UpdateLineLock(c) \/ UpdateLineCheck(c)
    PROVE  Kept(c)
<1>0. Shape /\ DOMAIN client[c] = DOMAIN Idle /\ Subject(client[c]) /\ Standing(client[c])
  BY InvOf
<1>1. CASE End(c)
  BY <1>0, <1>1, Ends
<1>2. CASE UpdateLineLock(c)
  <2> DEFINE l == client[c].line
             asked == LineRow(l)
             r == Onward(c, "line", asked)
  <2>1. /\ client[c].op = "update line" /\ ~ Waits(c) /\ UNCHANGED <<tables, bounds>>
        /\ client[c].pc = "purchase" /\ Go(c, "line", asked)
    BY <1>2 DEF UpdateLineLock, Granted
  <2>2. /\ Alike(r, client[c]) /\ r.pc = "line" /\ r.wants = asked
        /\ r.locks = client[c].locks \cup client[c].wants
    <3> HIDE DEF asked
    <3> QED BY <1>0 DEF Onward, Alike, Idle
  <2>3. client' = [client EXCEPT ![c] = r]
    BY <2>1 DEF Go
  <2>4. /\ lines[l].state # "none" /\ client[c].wants = ShareOf(client[c])
        /\ client[c].change \in mix
    BY <1>0, <2>1 DEF Standing, Updating
  <2> HIDE DEF r
  <2>6. /\ r.line = l /\ r.op = "update line" /\ ShareOf(r) = ShareOf(client[c])
        /\ r.change = client[c].change
    BY <2>1, <2>2 DEF Alike, ShareOf
  <2>9. Updating(r)
    BY <2>2, <2>4, <2>6 DEF Updating
  <2>10. Standing(r)
    BY <2>6, <2>9 DEF Standing
  <2> QED BY <2>1, <2>2, <2>3, <2>10, Proceeds
<1>3. CASE UpdateLineCheck(c) /\ ~ End(c)
  <2> DEFINE l == client[c].line
  <2>1. /\ client[c].op = "update line" /\ client[c].pc = "line" /\ ~ Waits(c)
        /\ UNCHANGED <<tables, bounds>> /\ LiveLine(l)
        /\ \E row \in NewValue(l, client[c].change) :
              client' = [client EXCEPT ![c] =
                [Onward(c, "write", NewParents(lines[l], row)) EXCEPT !.staged = {row}]]
    BY <1>3 DEF UpdateLineCheck, Granted
  <2>2. PICK row \in NewValue(l, client[c].change) :
              client' = [client EXCEPT ![c] =
                [Onward(c, "write", NewParents(lines[l], row)) EXCEPT !.staged = {row}]]
    BY <2>1
  <2>3. /\ l \in Lines /\ lines[l].state = "live" /\ Updating(client[c])
        /\ client[c].change \in {"change kind", "change quantity", "map line"}
    BY <1>0, <2>1 DEF Subject, OnLines, Standing, LiveLine
  <2> DEFINE asked == NewParents(lines[l], row)
             x == Onward(c, "write", asked)
             r == [x EXCEPT !.staged = {row}]
  <2>4. /\ Alike(x, client[c]) /\ x.pc = "write"
        /\ x.locks = client[c].locks \cup client[c].wants
    <3> HIDE DEF asked
    <3> QED BY <1>0 DEF Onward, Alike, Idle
  <2>5. Alike(r, x) /\ r.pc = x.pc /\ r.locks = x.locks /\ r.staged = {row}
    <3>1. DOMAIN x = DOMAIN Idle
      BY <2>4 DEF Alike
    <3> HIDE DEF x
    <3> QED BY <3>1 DEF Alike, Idle
  <2>6. client' = [client EXCEPT ![c] = r]
    BY <2>2
  <2> HIDE DEF r, x
  <2>7. /\ Alike(r, client[c]) /\ r.line = l /\ r.op = "update line"
        /\ r.change = client[c].change /\ ShareOf(r) = ShareOf(client[c])
    BY <2>1, <2>4, <2>5 DEF Alike, ShareOf
  <2>8. NewRow(r, row)
    <3>1. /\ row \in LineRecord /\ SoundLine(row) /\ row.state = "live"
          /\ row.purchase = lines[l].purchase /\ row.applied = lines[l].applied
          /\ row.kind # lines[l].kind => client[c].change = "change kind" /\ Untouched(l)
          /\ row.item # lines[l].item => lines[l].applied = 0 \/ client[c].change = "map line"
      BY <2>3, NewValueSound
    <3> QED BY <2>3, <2>7, <3>1 DEF NewRow, Updating
  <2>9. /\ ShareOf(r) \subseteq r.locks /\ LineRow(l) \subseteq r.locks /\ lines[l].state # "none"
        /\ r.change \in mix
    BY <2>1, <2>3, <2>4, <2>5, <2>7 DEF Updating
  <2>10. Updating(r)
    BY <2>4, <2>5, <2>7, <2>8, <2>9 DEF Updating
  <2>11. Standing(r)
    BY <2>7, <2>10 DEF Standing
  <2> QED BY <2>1, <2>4, <2>5, <2>6, <2>7, <2>11, Proceeds
<1> QED BY <1>1, <1>2, <1>3

LEMMA ApplyKept ==
    ASSUME ProcurementInv, NEW c \in Clients,
           ApplyLockLine(c) \/ ApplyLockApplication(c) \/ ApplyCheck(c)
    PROVE  Kept(c)
<1>0. Shape /\ DOMAIN client[c] = DOMAIN Idle /\ Subject(client[c]) /\ Standing(client[c])
  BY InvOf
<1> DEFINE l == client[c].line
<1>1. CASE End(c)
  BY <1>0, <1>1, Ends
<1>2. CASE ApplyLockLine(c) /\ ~ End(c)
  <2> DEFINE asked == LineRow(l)
             r == Onward(c, "line", asked)
  <2>1. /\ client[c].op = "apply seats" /\ ~ Waits(c) /\ UNCHANGED <<tables, bounds>>
        /\ client[c].pc = "purchase" /\ Go(c, "line", asked) /\ lines[l].state = "live"
    BY <1>2 DEF ApplyLockLine, Granted, LiveLine
  <2>2. /\ Alike(r, client[c]) /\ r.pc = "line" /\ r.wants = asked
        /\ r.locks = client[c].locks \cup client[c].wants
    <3> HIDE DEF asked
    <3> QED BY <1>0 DEF Onward, Alike, Idle
  <2>3. client' = [client EXCEPT ![c] = r]
    BY <2>1 DEF Go
  <2>4. client[c].wants = Held(PurchaseOf(l))
    BY <1>0, <2>1 DEF Standing, Applying
  <2> HIDE DEF r
  <2>6. r.line = l /\ r.op = "apply seats"
    BY <2>1, <2>2 DEF Alike
  <2>9. Applying(r)
    BY <2>1, <2>2, <2>4, <2>6 DEF Applying
  <2>10. Standing(r)
    BY <2>6, <2>9 DEF Standing
  <2> QED BY <2>1, <2>2, <2>3, <2>10, Proceeds
<1>3. CASE ApplyLockApplication(c) /\ ~ End(c)
  <2> DEFINE asked == AppRow(lines[l].item)
             r == Onward(c, "application", asked)
  <2>1. /\ client[c].op = "apply seats" /\ ~ Waits(c) /\ UNCHANGED <<tables, bounds>>
        /\ client[c].pc = "line" /\ Go(c, "application", asked)
        /\ lines[l].kind = "LICENSE" /\ lines[l].item # None
    BY <1>3 DEF ApplyLockApplication, Granted
  <2>2. /\ Alike(r, client[c]) /\ r.pc = "application" /\ r.wants = asked
        /\ r.locks = client[c].locks \cup client[c].wants
    <3> HIDE DEF asked
    <3> QED BY <1>0 DEF Onward, Alike, Idle
  <2>3. client' = [client EXCEPT ![c] = r]
    BY <2>1 DEF Go
  <2>4. Applying(client[c]) /\ l \in Lines
    BY <1>0, <2>1 DEF Standing, Subject, OnLines
  <2>5. lines[l].item \in Apps
    BY <2>1, <2>4, SoundTables DEF TypeOK, SoundLine, ItemsOf
  <2> HIDE DEF r
  <2>6. r.line = l /\ r.op = "apply seats"
    BY <2>1, <2>2 DEF Alike
  <2>9. Applying(r)
    BY <2>1, <2>2, <2>4, <2>5, <2>6 DEF Applying
  <2>10. Standing(r)
    BY <2>6, <2>9 DEF Standing
  <2> QED BY <2>1, <2>2, <2>3, <2>10, Proceeds
<1>4. CASE ApplyCheck(c) /\ ~ End(c)
  <2> DEFINE to == seats[lines[l].item] + client[c].n
             x == Onward(c, "write", {})
             r == [x EXCEPT !.seen = to]
  <2>1. /\ client[c].op = "apply seats" /\ ~ Waits(c) /\ UNCHANGED <<tables, bounds>>
        /\ client[c].pc = "application" /\ client' = [client EXCEPT ![c] = r] /\ to <= Ceiling
        /\ lines[l].applied + client[c].n <= Ceiling
    BY <1>4 DEF ApplyCheck, Granted
  <2>2. /\ Alike(x, client[c]) /\ x.pc = "write"
        /\ x.locks = client[c].locks \cup client[c].wants
    BY <1>0 DEF Onward, Alike, Idle
  <2>3. Alike(r, x) /\ r.pc = x.pc /\ r.locks = x.locks /\ r.seen = to
    <3>1. DOMAIN x = DOMAIN Idle
      BY <2>2 DEF Alike
    <3> HIDE DEF x, to
    <3> QED BY <3>1 DEF Alike, Idle
  <2>4. Applying(client[c]) /\ l \in Lines
    BY <1>0, <2>1 DEF Standing, Subject, OnLines
  <2> HIDE DEF r, x
  <2>6. Alike(r, client[c]) /\ r.line = l /\ r.op = "apply seats" /\ r.n = client[c].n
    BY <2>1, <2>2, <2>3 DEF Alike
  <2>9. Applying(r)
    BY <2>1, <2>2, <2>3, <2>4, <2>6 DEF Applying
  <2>10. Standing(r)
    BY <2>6, <2>9 DEF Standing
  <2> QED BY <2>1, <2>2, <2>3, <2>6, <2>10, Proceeds
<1> QED BY <1>1, <1>2, <1>3, <1>4

\* A link that has checked its line keeps its share of the purchase.
LEMMA LinkProceeds ==
    ASSUME ProcurementInv, NEW c \in Clients, client[c].op = "link", ~ Waits(c),
           NEW r, client' = [client EXCEPT ![c] = r], UNCHANGED <<tables, bounds>>,
           DOMAIN r = DOMAIN Idle, r.op = "link", r.line = client[c].line,
           r.to \in Models \cup {None}, r.pc \in {"assets", "model", "line", "events"},
           r.locks = client[c].locks \cup client[c].wants,
           client[c].pc = "purchase" => Takes(client[c].line, "ASSET")
    PROVE  Kept(c)
<1>1. Shape /\ Subject(client[c]) /\ Linking(client[c])
  BY InvOf DEF Standing
<1>2. client[c].line \in Lines
  BY <1>1 DEF Subject, OnLines
<1>3. Subject(r)
  BY <1>2 DEF Subject, OnLines
<1>4. Linking(r)
  BY <1>1 DEF Linking
<1>5. Standing(r)
  BY <1>4 DEF Standing
<1> QED BY <1>1, <1>3, <1>5, Continues

LEMMA LinkKept ==
    ASSUME ProcurementInv, NEW c \in Clients,
           \/ LinkCheck(c) \/ LinkAssets(c) \/ LinkApplied(c) \/ LinkWritten(c) \/ LinkEvent(c)
           \/ LockAssets(c, "link")
    PROVE  Kept(c)
<1>0. Shape /\ DOMAIN client[c] = DOMAIN Idle /\ Subject(client[c]) /\ Standing(client[c])
  BY InvOf
<1> DEFINE l == client[c].line
<1>1. CASE End(c)
  BY <1>0, <1>1, Ends
<1>2. CASE LinkCheck(c) /\ ~ End(c)
  <2>1. /\ client[c].op = "link" /\ client[c].pc = "purchase" /\ ~ Waits(c)
        /\ UNCHANGED <<tables, bounds>>
    BY <1>2 DEF LinkCheck, Granted
  <2>2. PICK to \in {lines[l].model, None} :
          /\ AssetLine(l)
          /\ client' = [client EXCEPT ![c] =
               Queued([Onward(c, "assets", {}) EXCEPT
                         !.to = to, !.n = IF to # None /\ models[to] = "live" THEN 1 ELSE 0],
                      "assets", "asset", "update", client[c].target)]
    BY <1>2 DEF LinkCheck
  <2>3. Takes(l, "ASSET") /\ l \in Lines
    BY <1>0, <2>1, <2>2 DEF AssetLine, LiveLine, Takes, Subject, OnLines
  <2>4. to \in Models \cup {None}
    BY <2>2, <2>3, TypesOf DEF LineRecord
  <2> DEFINE x == Onward(c, "assets", {})
             n == IF to # None /\ models[to] = "live" THEN 1 ELSE 0
             y == [x EXCEPT !.to = to, !.n = n]
             S == client[c].target
             r == Queued(y, "assets", "asset", "update", S)
  <2>5. Alike(x, client[c]) /\ x.locks = client[c].locks \cup client[c].wants
    BY <1>0 DEF Onward, Alike, Idle
  <2>6. /\ DOMAIN y = DOMAIN Idle /\ y.op = x.op /\ y.line = x.line /\ y.to = to
        /\ y.locks = x.locks
    <3>1. DOMAIN x = DOMAIN Idle
      BY <2>5 DEF Alike
    <3> HIDE DEF x, n
    <3> QED BY <3>1 DEF Idle
  <2>7. Alike(r, y) /\ r.locks = y.locks /\ r.pc = "assets"
    <3> HIDE DEF y, S
    <3> QED BY <2>6, QueuedAs
  <2>8. client' = [client EXCEPT ![c] = r]
    BY <2>2
  <2> HIDE DEF r, y, x
  <2>9. DOMAIN r = DOMAIN Idle /\ r.op = "link" /\ r.line = client[c].line /\ r.to = to
    BY <2>1, <2>5, <2>6, <2>7 DEF Alike
  <2> QED BY <2>1, <2>3, <2>4, <2>5, <2>6, <2>7, <2>8, <2>9, LinkProceeds
<1> DEFINE Far(r) == /\ Alike(r, client[c]) /\ r.pc \in {"assets", "model", "line", "events"}
                     /\ r.locks = client[c].locks \cup client[c].wants
                     /\ client' = [client EXCEPT ![c] = r]
<1>3. ASSUME client[c].op = "link", client[c].pc # "purchase", ~ Waits(c),
             UNCHANGED <<tables, bounds>>, NEW r, Far(r)
      PROVE  Kept(c)
  <2>1. DOMAIN r = DOMAIN Idle /\ r.op = "link" /\ r.line = client[c].line /\ r.to = client[c].to
    BY <1>3 DEF Alike
  <2>2. client[c].to \in Models \cup {None}
    BY <1>0, <1>3 DEF Subject
  <2>3. /\ client' = [client EXCEPT ![c] = r] /\ r.locks = client[c].locks \cup client[c].wants
        /\ r.pc \in {"assets", "model", "line", "events"}
    BY <1>3
  <2> QED BY <1>3, <2>1, <2>2, <2>3, LinkProceeds
<1>4. ASSUME NEW pc \in {"assets", "model", "line", "events"}, NEW asked
      PROVE  LET x == Onward(c, pc, asked) IN
             /\ Alike(x, client[c]) /\ x.pc = pc
             /\ x.locks = client[c].locks \cup client[c].wants
  BY <1>0 DEF Onward, Alike, Idle
<1>5. ASSUME NEW x, Alike(x, client[c]), NEW new
      PROVE  /\ LET r == [x EXCEPT !.staged = new] IN
                Alike(r, client[c]) /\ r.pc = x.pc /\ r.locks = x.locks
             /\ LET r == [x EXCEPT !.ids = new] IN
                Alike(r, client[c]) /\ r.pc = x.pc /\ r.locks = x.locks
  BY <1>5 DEF Alike, Idle
<1>6. CASE LockAssets(c, "link")
  <2>1. /\ client[c].op = "link" /\ client[c].pc = "assets" /\ ~ Waits(c)
        /\ UNCHANGED <<tables, bounds>>
    BY <1>6 DEF LockAssets, Granted
  <2>2. PICK r : Far(r)
    BY <1>6, <2>1, LockNextAs DEF LockAssets
  <2> HIDE DEF Far
  <2> QED BY <1>3, <2>1, <2>2
<1>7. CASE LinkAssets(c) /\ ~ End(c)
  <2> DEFINE rows == Linkable(c, client[c].line)
             applies == client[c].to # None /\ \E a \in rows : assets[a].model # client[c].to
             asked == IF applies THEN Row("model", client[c].to, "key share") ELSE {}
             x == Onward(c, "model", asked)
             r == [x EXCEPT !.staged = rows]
  <2>1. /\ client[c].op = "link" /\ client[c].pc = "assets" /\ ~ Waits(c)
        /\ UNCHANGED <<tables, bounds>> /\ client' = [client EXCEPT ![c] = r]
    BY <1>7 DEF LinkAssets, Granted
  <2>2. Alike(x, client[c]) /\ x.pc = "model" /\ x.locks = client[c].locks \cup client[c].wants
    <3> HIDE DEF asked
    <3> QED BY <1>4
  <2>3. Alike(r, client[c]) /\ r.pc = x.pc /\ r.locks = x.locks
    <3> HIDE DEF x, rows
    <3> QED BY <1>5, <2>2
  <2> HIDE DEF r, x
  <2>4. Far(r)
    BY <2>1, <2>2, <2>3
  <2> HIDE DEF Far
  <2> QED BY <1>3, <2>1, <2>4
<1>8. CASE LinkApplied(c)
  <2> DEFINE asked == IF client[c].change = "apply" THEN {}
                      ELSE Row("line", client[c].line, "key share")
             x == Onward(c, "line", asked)
  <2>1. /\ client[c].op = "link" /\ client[c].pc = "model" /\ ~ Waits(c)
        /\ UNCHANGED <<tables, bounds>> /\ client' = [client EXCEPT ![c] = x]
    BY <1>8 DEF LinkApplied, Granted, Go
  <2>2. Alike(x, client[c]) /\ x.pc = "line" /\ x.locks = client[c].locks \cup client[c].wants
    <3> HIDE DEF asked
    <3> QED BY <1>4
  <2> HIDE DEF x
  <2>4. Far(x)
    BY <2>1, <2>2
  <2> HIDE DEF Far
  <2> QED BY <1>3, <2>1, <2>4
<1>9. CASE LinkWritten(c) \/ LinkEvent(c)
  <2>1. /\ client[c].op = "link" /\ client[c].pc \in {"line", "events"} /\ ~ Waits(c)
        /\ UNCHANGED <<tables, bounds>> /\ \E left : NextEvent(c, left)
    BY <1>9 DEF LinkWritten, LinkEvent, Granted
  <2>2. PICK left : NextEvent(c, left)
    BY <2>1
  <2>3. CASE left = {}
    <3> DEFINE x == Onward(c, "events", {})
    <3>1. client' = [client EXCEPT ![c] = x]
      BY <2>2, <2>3 DEF NextEvent
    <3>2. Far(x)
      BY <1>4, <3>1
    <3> HIDE DEF Far, x
    <3> QED BY <1>3, <2>1, <3>2
  <2>4. CASE left # {}
    <3>1. PICK asked, new : client' = [client EXCEPT ![c] =
                                         [Onward(c, "events", asked) EXCEPT !.ids = new]]
      BY <2>2, <2>4 DEF NextEvent
    <3> DEFINE x == Onward(c, "events", asked)
               r == [x EXCEPT !.ids = new]
    <3>2. Alike(x, client[c]) /\ x.pc = "events" /\ x.locks = client[c].locks \cup client[c].wants
      BY <1>4
    <3>3. Alike(r, client[c]) /\ r.pc = x.pc /\ r.locks = x.locks
      <4> HIDE DEF x
      <4> QED BY <1>5, <3>2
    <3>4. client' = [client EXCEPT ![c] = r]
      BY <3>1
    <3> HIDE DEF r, x
    <3>5. Far(r)
      BY <3>2, <3>3, <3>4
    <3> HIDE DEF Far
    <3> QED BY <1>3, <2>1, <3>5
  <2> QED BY <2>3, <2>4
<1> QED BY <1>1, <1>2, <1>6, <1>7, <1>8, <1>9
-----------------------------------------------------------------------------
(***************************************************************************)
(* What a step of another request must leave alone, table by table.          *)
(***************************************************************************)
\* The request is about to remove the line or to change its kind.
Replaces(x) == x.pc = "write" /\ (x.op = "remove line" \/ (x.op = "update line" /\ x.change = "change kind"))

ByMovements(x) ==
    /\ \A m \in DOMAIN movements : m \in DOMAIN movements' /\ movements'[m] = movements[m]
    /\ x.op = "move" /\ x.pc \in Counting /\ x.of # None => Returned(x.of)' = Returned(x.of)
    /\ Replaces(x) => \A m \in DOMAIN movements' :
                        movements'[m].line = x.line => m \in DOMAIN movements

ByStock(x) == x.op = "move" /\ x.pc = "insert" => consumables'[x.on].stock = consumables[x.on].stock

LinesKept == \A l \in Lines : lines[l].state # "none" =>
                lines'[l].state # "none" /\ lines'[l].purchase = lines[l].purchase

ByLines(x) ==
    LET l == x.line
        p == PurchaseOf(l)
    IN  /\ LinesKept
        /\ x.op = "move" /\ x.pc \in Counting /\ l # None => Takes(l, "CONSUMABLE")'
        /\ x.op = "update purchase" /\ x.change = "clear" /\ x.pc = "write" => LinesOf(x.on)' # {}
        /\ x.op = "remove line" /\ x.pc = "write" =>
             lines'[l].applied = 0 /\ LinesOf(p) \ {l} \subseteq LinesOf(p)'
        /\ x.op = "update line" /\ x.pc = "write" =>
             /\ lines'[l].state = lines[l].state /\ lines'[l].kind = lines[l].kind
             /\ lines'[l].item = lines[l].item /\ lines'[l].applied = lines[l].applied
        /\ x.op = "cancel" /\ x.pc = "write" => lines'[l].quantity = lines[l].quantity
        /\ x.op = "apply seats" /\ x.pc # "purchase" => lines'[l].state = "live"
        /\ x.op = "apply seats" /\ x.pc \in {"application", "write"} =>
             /\ lines'[l].kind = lines[l].kind /\ lines'[l].item = lines[l].item
             /\ lines'[l].applied = lines[l].applied
        /\ x.op = "link" /\ x.pc # "purchase" => Takes(l, "ASSET")'

ByAssets(x) ==
    Replaces(x) /\ mix \cap {"receive units", "restore asset"} = {} =>
      \A a \in Assets : assets'[a].state = "live" /\ assets'[a].line = x.line =>
                          assets[a].state = "live" /\ assets[a].line = x.line

ByPurchases(x) ==
    LET p == PurchaseOf(x.line) IN
    x.op = "remove line" /\ x.pc = "write" =>
      purchases'[p].state # "none" /\ purchases'[p].named = purchases[p].named

PurchaseKept(x) == x.op = "remove purchase" => purchases'[x.on].state # "none"

BySeats(x) ==
    LET app == lines[x.line].item IN
    x.op = "apply seats" /\ x.pc = "write" => seats'[app] = seats[app]

Undisturbed(x) ==
    /\ ByMovements(x) /\ ByStock(x) /\ ByLines(x) /\ ByAssets(x) /\ ByPurchases(x)
    /\ PurchaseKept(x) /\ BySeats(x)

LEMMA UntouchedStays ==
    ASSUME NEW x, x.line \in Lines, Replaces(x), ByMovements(x), ByAssets(x), mix' = mix,
           lines'[x.line].applied = 0, Untouched(x.line)
    PROVE  Untouched(x.line)'
<1>1. \A m \in DOMAIN movements' : movements'[m].line # x.line
  BY DEF ByMovements, Untouched
<1>2. mix' \cap {"receive units", "restore asset"} = {} =>
        \A a \in Assets : assets'[a].state = "live" => assets'[a].line # x.line
  BY DEF ByAssets, Untouched, LiveAssets
<1> QED BY <1>1, <1>2 DEF Untouched, LiveAssets

LEMMA Stays ==
    ASSUME ProcurementInv, NEW d \in Clients, NEW x, x = client[d], client'[d] = x, mix' = mix,
           Undisturbed(x)
    PROVE  Subject(client[d])' /\ Standing(client[d])'
<1>1. Subject(x) /\ Standing(x)
  BY InvOf
<1>2. Subject(client[d])'
  BY <1>1
<1>3. /\ ByMovements(x) /\ ByStock(x) /\ ByLines(x) /\ ByAssets(x) /\ ByPurchases(x) /\ BySeats(x)
      /\ PurchaseKept(x) /\ LinesKept
  BY DEF Undisturbed, ByLines
<1>4. x.op \in OnLines => x.line \in Lines
  BY <1>1 DEF Subject
<1>5. \A l \in Lines : lines[l].state # "none" => lines'[l].state # "none" /\ PurchaseOf(l)' = PurchaseOf(l)
  BY <1>3 DEF LinesKept, PurchaseOf
<1>6. x.op = "move" => Moving(client[d])'
  <2> SUFFICES ASSUME x.op = "move" PROVE Moving(client[d])'
    OBVIOUS
  <2>1. Moving(x) /\ (x.line # None => x.line \in Lines)
    BY <1>1 DEF Standing, Subject
  <2>2. x.of # None => x.of \in DOMAIN movements' /\ movements'[x.of] = movements[x.of]
    BY <1>3, <2>1 DEF Moving, ByMovements
  <2>3. x.line # None => lines'[x.line].state # "none" /\ PurchaseOf(x.line)' = PurchaseOf(x.line)
    BY <1>5, <2>1 DEF Moving
  <2>4. x.pc \in Counting /\ x.of # None => Returned(x.of)' = Returned(x.of)
    BY <1>3 DEF ByMovements
  <2>5. x.pc \in Counting /\ x.line # None => Takes(x.line, "CONSUMABLE")'
    BY <1>3 DEF ByLines
  <2>6. x.pc = "insert" => consumables'[x.on].stock = consumables[x.on].stock
    BY <1>3 DEF ByStock
  <2> QED BY <2>1, <2>2, <2>3, <2>4, <2>5, <2>6 DEF Moving, Counting, DeliveryLock, Held, ItemRow, Row, MovementRow
<1>7. x.op = "update purchase" /\ x.change = "clear" => Clearing(client[d])'
  BY <1>1, <1>3 DEF Standing, Clearing, ByLines
<1>8. x.op = "remove line" => Removing(client[d])'
  <2> SUFFICES ASSUME x.op = "remove line" PROVE Removing(client[d])'
    OBVIOUS
  <2>1. Removing(x) /\ x.line \in Lines
    BY <1>1, <1>4 DEF Standing, OnLines
  <2>2. lines'[x.line].state # "none" /\ PurchaseOf(x.line)' = PurchaseOf(x.line)
    BY <1>5, <2>1 DEF Removing
  <2> DEFINE p == PurchaseOf(x.line)
  <2>3. x.pc = "write" => /\ Untouched(x.line)' /\ purchases'[p].state # "none"
                          /\ purchases'[p].named \/ LinesOf(p)' \ {x.line} # {}
    <3>1. ASSUME x.pc = "write" PROVE Untouched(x.line)'
      <4>1. lines'[x.line].applied = 0 /\ Untouched(x.line) /\ Replaces(x)
        BY <1>3, <2>1, <3>1 DEF ByLines, Removing, Replaces
      <4> QED BY <1>3, <2>1, <4>1, UntouchedStays
    <3>2. x.pc = "write" => /\ purchases'[p].state # "none"
                            /\ purchases'[p].named \/ LinesOf(p)' \ {x.line} # {}
      BY <1>3, <2>1 DEF ByLines, ByPurchases, Removing
    <3> QED BY <3>1, <3>2
  <2>4. LinesOf(PurchaseOf(x.line))' = LinesOf(p)'
    BY <2>2 DEF LinesOf
  <2> QED BY <2>1, <2>2, <2>3, <2>4 DEF Removing
<1>9. x.op = "update line" => Updating(client[d])'
  <2> SUFFICES ASSUME x.op = "update line" PROVE Updating(client[d])'
    OBVIOUS
  <2>1. Updating(x) /\ x.line \in Lines
    BY <1>1, <1>4 DEF Standing, OnLines
  <2>2. lines'[x.line].state # "none" /\ PurchaseOf(x.line)' = PurchaseOf(x.line)
        /\ lines'[x.line].purchase = lines[x.line].purchase
    BY <1>5, <1>3, <2>1 DEF Updating, LinesKept
  <2>3. ShareOf(client[d])' = ShareOf(x)
    BY <2>2 DEF ShareOf
  <2>4. ASSUME x.pc = "write", NEW row \in x.staged PROVE NewRow(client[d], row)'
    <3>1. NewRow(x, row)
      BY <2>1, <2>4 DEF Updating
    <3>2. /\ lines'[x.line].state = lines[x.line].state /\ lines'[x.line].kind = lines[x.line].kind
          /\ lines'[x.line].item = lines[x.line].item /\ lines'[x.line].applied = lines[x.line].applied
      BY <1>3, <2>4 DEF ByLines
    <3>3. ASSUME row.kind # lines[x.line].kind PROVE Untouched(x.line)'
      <4>1. Untouched(x.line) /\ Replaces(x) /\ lines'[x.line].applied = 0
        BY <2>4, <3>1, <3>2, <3>3 DEF NewRow, Replaces, Untouched
      <4> QED BY <1>3, <2>1, <4>1, UntouchedStays
    <3> QED BY <2>2, <3>1, <3>2, <3>3 DEF NewRow
  <2> QED BY <2>1, <2>2, <2>3, <2>4 DEF Updating
<1>10. x.op = "cancel" => Cancelling(client[d])'
  <2> SUFFICES ASSUME x.op = "cancel" PROVE Cancelling(client[d])'
    OBVIOUS
  <2>1. Cancelling(x) /\ x.line \in Lines
    BY <1>1, <1>4 DEF Standing, OnLines
  <2>2. lines'[x.line].state # "none" /\ PurchaseOf(x.line)' = PurchaseOf(x.line)
    BY <1>5, <2>1 DEF Cancelling
  <2>3. x.pc = "write" => lines'[x.line].quantity = lines[x.line].quantity
    BY <1>3 DEF ByLines
  <2>4. CancelLocks(x.line)' = CancelLocks(x.line)
    BY <2>2 DEF CancelLocks
  <2> QED BY <2>1, <2>2, <2>3, <2>4 DEF Cancelling
<1>11. x.op = "apply seats" => Applying(client[d])'
  <2> SUFFICES ASSUME x.op = "apply seats" PROVE Applying(client[d])'
    OBVIOUS
  <2>1. Applying(x) /\ x.line \in Lines
    BY <1>1, <1>4 DEF Standing, OnLines
  <2>2. lines'[x.line].state # "none" /\ PurchaseOf(x.line)' = PurchaseOf(x.line)
    BY <1>5, <2>1 DEF Applying
  <2>3. /\ x.pc # "purchase" => lines'[x.line].state = "live"
        /\ x.pc \in {"application", "write"} =>
             /\ lines'[x.line].kind = lines[x.line].kind /\ lines'[x.line].item = lines[x.line].item
             /\ lines'[x.line].applied = lines[x.line].applied
    BY <1>3 DEF ByLines
  <2>4. x.pc = "write" => seats'[lines[x.line].item] = seats[lines[x.line].item]
    BY <1>3 DEF BySeats
  <2> QED BY <2>1, <2>2, <2>3, <2>4 DEF Applying
<1>12. x.op = "link" => Linking(client[d])'
  <2> SUFFICES ASSUME x.op = "link" PROVE Linking(client[d])'
    OBVIOUS
  <2>1. Linking(x) /\ x.line \in Lines
    BY <1>1, <1>4 DEF Standing, OnLines
  <2>2. lines'[x.line].state # "none" /\ PurchaseOf(x.line)' = PurchaseOf(x.line)
    BY <1>5, <2>1 DEF Linking
  <2>3. x.pc # "purchase" => Takes(x.line, "ASSET")'
    BY <1>3 DEF ByLines
  <2> QED BY <2>1, <2>2, <2>3 DEF Linking
<1>13. x.op = "units" /\ x.line # None => "receive units" \in mix'
  BY <1>1 DEF Standing
<1>14. x.op = "remove purchase" => purchases'[x.on].state # "none"
  BY <1>3 DEF PurchaseKept
<1> QED BY <1>2, <1>6, <1>7, <1>8, <1>9, <1>10, <1>11, <1>12, <1>13, <1>14 DEF Standing

LEMMA SameMovements ==
    ASSUME NEW x, movements' = movements
    PROVE  ByMovements(x)
BY DEF ByMovements, Returned, Quantity

LEMMA SameAssets ==
    ASSUME NEW x, assets' = assets
    PROVE  ByAssets(x)
BY DEF ByAssets

PurchasesKept == \A p \in Purchases : purchases[p].state # "none" => purchases'[p].state # "none"

LEMMA KnownPurchases ==
    ASSUME ProcurementInv, NEW d \in Clients, NEW x, x = client[d], PurchasesKept
    PROVE  PurchaseKept(x)
BY InvOf DEF PurchaseKept, PurchasesKept, Standing, Subject

LEMMA SamePurchases ==
    ASSUME ProcurementInv, NEW d \in Clients, NEW x, x = client[d],
           \A p \in Purchases : purchases[p].state # "none" =>
             purchases'[p].state # "none" /\ purchases'[p].named = purchases[p].named
    PROVE  ByPurchases(x)
<1>1. Subject(x) /\ Standing(x)
  BY InvOf
<1>2. SUFFICES ASSUME x.op = "remove line", x.pc = "write"
               PROVE  LET p == PurchaseOf(x.line) IN
                      purchases'[p].state # "none" /\ purchases'[p].named = purchases[p].named
  BY DEF ByPurchases
<1>3. x.line \in Lines /\ Removing(x)
  BY <1>1, <1>2 DEF Subject, Standing, OnLines
<1>4. PurchaseOf(x.line) \in Purchases
  BY <1>3, TypesOf DEF PurchaseOf, LineRecord
<1> QED BY <1>2, <1>3, <1>4 DEF Removing

\* What a request relies on of a line.
SameLine(l) ==
    /\ lines'[l].state = lines[l].state /\ lines'[l].purchase = lines[l].purchase
    /\ lines'[l].kind = lines[l].kind /\ lines'[l].item = lines[l].item
    /\ lines'[l].applied = lines[l].applied

SameQuantity(l) == lines'[l].quantity = lines[l].quantity

LEMMA RemovingLines ==
    ASSUME ProcurementInv, NEW d \in Clients, NEW x, x = client[d], x.op = "remove line",
           x.pc = "write"
    PROVE  x.line \in Lines /\ PurchaseOf(x.line) \in Purchases /\ lines[x.line].state # "none"
           /\ lines[x.line].applied = 0 /\ Whole(PurchaseOf(x.line)) \subseteq client[d].locks
<1>1. Subject(x) /\ Removing(x)
  BY InvOf DEF Standing
<1>2. x.line \in Lines
  BY <1>1 DEF Subject, OnLines
<1>3. PurchaseOf(x.line) \in Purchases
  BY <1>2, TypesOf DEF PurchaseOf, LineRecord
<1> QED BY <1>1, <1>2, <1>3 DEF Removing, Untouched

LEMMA SameLines ==
    ASSUME ProcurementInv, NEW d \in Clients, NEW x, x = client[d],
           \A l \in Lines : lines[l].state # "none" => SameLine(l) /\ SameQuantity(l)
    PROVE  ByLines(x)
<1>1. Subject(x) /\ Standing(x)
  BY InvOf
<1>2. LinesKept
  BY DEF LinesKept, SameLine
<1>3. \A p : LinesOf(p) \subseteq LinesOf(p)'
  BY DEF LinesOf, SameLine
<1>4. x.op = "move" /\ x.pc \in Counting /\ x.line # None => Takes(x.line, "CONSUMABLE")'
  <2> SUFFICES ASSUME x.op = "move", x.pc \in Counting, x.line # None
               PROVE  Takes(x.line, "CONSUMABLE")'
    OBVIOUS
  <2>1. x.line \in Lines /\ Takes(x.line, "CONSUMABLE")
    BY <1>1 DEF Subject, Standing, Moving
  <2> QED BY <2>1 DEF Takes, SameLine
<1>5. x.op = "update purchase" /\ x.change = "clear" /\ x.pc = "write" => LinesOf(x.on)' # {}
  BY <1>1, <1>3 DEF Standing, Clearing
<1>6. x.op = "remove line" /\ x.pc = "write" =>
        /\ lines'[x.line].applied = 0
        /\ LinesOf(PurchaseOf(x.line)) \ {x.line} \subseteq LinesOf(PurchaseOf(x.line))'
  <2> SUFFICES ASSUME x.op = "remove line", x.pc = "write"
               PROVE  /\ lines'[x.line].applied = 0
                      /\ LinesOf(PurchaseOf(x.line)) \ {x.line} \subseteq LinesOf(PurchaseOf(x.line))'
    OBVIOUS
  <2>1. x.line \in Lines /\ lines[x.line].state # "none" /\ lines[x.line].applied = 0
    BY RemovingLines
  <2>2. SameLine(x.line)
    BY <2>1
  <2>3. PurchaseOf(x.line)' = PurchaseOf(x.line)
    BY <2>2 DEF PurchaseOf, SameLine
  <2>4. LinesOf(PurchaseOf(x.line))' = {k \in Lines : lines'[k].state = "live" /\ lines'[k].purchase = PurchaseOf(x.line)}
    BY <2>3 DEF LinesOf
  <2> QED BY <2>1, <2>2, <2>4 DEF LinesOf, SameLine
<1>7. x.op \in {"update line", "cancel"} =>
        x.line \in Lines /\ SameLine(x.line) /\ SameQuantity(x.line)
  <2>1. x.op \in {"update line", "cancel"} => x.line \in Lines /\ lines[x.line].state # "none"
    BY <1>1 DEF Subject, OnLines, Standing, Updating, Cancelling
  <2> QED BY <2>1
<1>8. x.op = "apply seats" => /\ SameLine(x.line)
                              /\ x.pc # "purchase" => lines[x.line].state = "live"
  <2>1. x.op = "apply seats" => Applying(x) /\ x.line \in Lines
    BY <1>1 DEF Subject, OnLines, Standing
  <2> QED BY <2>1 DEF Applying
<1>9. x.op = "link" /\ x.pc # "purchase" => Takes(x.line, "ASSET")'
  <2> SUFFICES ASSUME x.op = "link", x.pc # "purchase" PROVE Takes(x.line, "ASSET")'
    OBVIOUS
  <2>1. x.line \in Lines /\ Takes(x.line, "ASSET")
    BY <1>1 DEF Subject, OnLines, Standing, Linking
  <2> QED BY <2>1 DEF Takes, SameLine
<1> QED BY <1>2, <1>4, <1>5, <1>6, <1>7, <1>8, <1>9 DEF ByLines, SameLine, SameQuantity
-----------------------------------------------------------------------------
(***************************************************************************)
(* From the parts of a step to the invariant.                                *)
(***************************************************************************)
LEMMA Quiet ==
    ASSUME ProcurementInv, NEW c \in Clients, Kept(c), UNCHANGED <<tables, mix>>
    PROVE  ProcurementInv'
<1>1. LocksExclude' /\ Shape'
  BY LocksStep, SoundTables DEF Kept, Advances
<1>2. ASSUME NEW d \in Clients PROVE Subject(client[d])' /\ Standing(client[d])'
  <2>1. CASE d = c
    BY <2>1 DEF Kept
  <2>2. CASE d # c
    <3>1. client'[d] = client[d]
      BY <2>2 DEF Kept, Advances
    <3> DEFINE y == client[d]
    <3>2. Subject(y) /\ Standing(y)
      BY InvOf
    <3> QED BY <3>1, <3>2, SameTables
  <2> QED BY <2>1, <2>2
<1>3. TablesSound'
  <2>1. /\ consumables' = consumables /\ movements' = movements /\ seats' = seats
        /\ purchases' = purchases /\ lines' = lines /\ assets' = assets
        /\ locations' = locations /\ models' = models /\ mix' = mix
    BY DEF tables, stockTables
  <2>2. TypeOK'
    BY <2>1, SoundTables DEF TypeOK
  <2>3. StockIsLedger' /\ ReturnsWithinDelivery' /\ CountsUnits'
    BY <2>1, SoundTables DEF StockIsLedger, ReturnsWithinDelivery, CountsUnits, Returned, Quantity
  <2>4. SeatsAreApplied' /\ PurchaseIdentified' /\ ReceiptsMatchLine'
    BY <2>1, SoundTables, ZenonT(60) DEF SeatsAreApplied, SeatsInTotal, SeatsPerApplication, PurchaseIdentified,
       LinesOf, ReceiptsMatchLine, LiveAssets
  <2> QED BY <2>2, <2>3, <2>4 DEF TablesSound
<1> QED BY <1>1, <1>2, <1>3 DEF ProcurementInv

LEMMA Written ==
    ASSUME ProcurementInv, NEW c \in Clients, Kept(c), mix' = mix, TablesSound',
           \A d \in Clients \ {c} : \A x : x = client[d] => Undisturbed(x)
    PROVE  ProcurementInv'
<1>1. LocksExclude' /\ Shape'
  BY LocksStep, SoundTables DEF Kept, Advances
<1>2. ASSUME NEW d \in Clients PROVE Subject(client[d])' /\ Standing(client[d])'
  <2>1. CASE d = c
    BY <2>1 DEF Kept
  <2>2. CASE d # c
    <3>1. client'[d] = client[d]
      BY <2>2 DEF Kept, Advances
    <3>2. PICK x : x = client[d]
      OBVIOUS
    <3>3. Undisturbed(x)
      BY <2>2, <3>2
    <3> QED BY <3>1, <3>2, <3>3, Stays
  <2> QED BY <2>1, <2>2
<1> QED BY <1>1, <1>2 DEF ProcurementInv

LEMMA WrittenAlone ==
    ASSUME ProcurementInv, client' = client, mix' = mix, TablesSound',
           \A d \in Clients : \A x : x = client[d] => Undisturbed(x)
    PROVE  ProcurementInv'
<1>1. LocksExclude' /\ Shape'
  BY SoundTables DEF LocksExclude, ProcurementInv, Shape
<1>2. ASSUME NEW d \in Clients PROVE Subject(client[d])' /\ Standing(client[d])'
  <2>1. PICK x : x = client[d]
    OBVIOUS
  <2>2. Undisturbed(x) /\ client'[d] = x
    BY <2>1
  <2> QED BY <2>1, <2>2, Stays
<1> QED BY <1>1, <1>2 DEF ProcurementInv

LEMMA StockTablesStay ==
    ASSUME StockIsLedger, ReturnsWithinDelivery, CountsUnits, movements' = movements,
           \A i \in Items : consumables'[i].stock = consumables[i].stock
    PROVE  StockIsLedger' /\ ReturnsWithinDelivery' /\ CountsUnits'
<1>1. StockIsLedger'
  BY DEF StockIsLedger
<1>2. ReturnsWithinDelivery' /\ CountsUnits'
  BY DEF ReturnsWithinDelivery, CountsUnits, Returned, Quantity
<1> QED BY <1>1, <1>2

LEMMA SeatsStay ==
    ASSUME SeatsAreApplied, seats' = seats, mix' = mix,
           \A l \in Lines : /\ lines'[l].applied = lines[l].applied
                            /\ \/ lines'[l].item = lines[l].item \/ lines[l].applied = 0
                               \/ "map line" \in mix
    PROVE  SeatsAreApplied'
<1> DEFINE f == [l \in Lines |-> lines[l].applied]
           g == [l \in Lines |-> lines'[l].applied]
<1>1. f = g
  OBVIOUS
<1>2. ASSUME "map line" \notin mix, NEW app \in Apps
      PROVE  seats'[app] = Sum({l \in Lines : lines'[l].item = app}, g)
  <2> DEFINE S == {l \in Lines : lines[l].item = app}
             T == {l \in Lines : lines'[l].item = app}
             U == S \cup T
  <2>1. seats[app] = Sum(S, f)
    BY <1>2 DEF SeatsAreApplied, SeatsPerApplication
  <2>2. (\A l \in U \ S : f[l] = 0) /\ (\A l \in U \ T : f[l] = 0)
    BY <1>2
  <2>3. Sum(U, f) = Sum(S, f) /\ Sum(U, f) = Sum(T, f)
    <3>1. S \in SUBSET U /\ T \in SUBSET U
      OBVIOUS
    <3> HIDE DEF S, T, U, f
    <3> QED BY <2>2, <3>1, SumWithout
  <2> HIDE DEF f, g
  <2> QED BY <1>1, <2>1, <2>3
<1>3. SeatsInTotal'
  BY <1>1 DEF SeatsAreApplied, SeatsInTotal
<1> QED BY <1>2, <1>3 DEF SeatsAreApplied, SeatsPerApplication

\* A line that something arrived on keeps its kind and stays live.
LEMMA ReceiptsStay ==
    ASSUME ProcurementInv, mix' = mix, movements' = movements,
           \A l \in Lines, kind \in Kinds : Takes(l, kind) /\ ~ Untouched(l) => Takes(l, kind)',
           \A l \in Lines : lines'[l].applied > 0 => lines[l].applied > 0 \/ Takes(l, "LICENSE")',
           mix \cap {"receive units", "restore asset"} = {} =>
             \A a \in Assets : assets'[a].state = "live" /\ assets'[a].line # None =>
               \/ assets[a].state = "live" /\ assets'[a].line = assets[a].line
               \/ lines'[assets'[a].line].state = "live" /\ lines'[assets'[a].line].kind = "ASSET"
    PROVE  ReceiptsMatchLine'
<1>0. ReceiptsMatchLine /\ TypeOK /\ {"CONSUMABLE", "LICENSE", "ASSET"} \subseteq Kinds
  BY SoundTables DEF Kinds
<1>1. ASSUME NEW m \in DOMAIN movements, movements[m].line # None
      PROVE  Takes(movements[m].line, "CONSUMABLE")'
  <2>1. movements[m].line \in Lines
    BY <1>1, TypesOf DEF MovementRecord
  <2>2. Takes(movements[m].line, "CONSUMABLE") /\ ~ Untouched(movements[m].line)
    BY <1>0, <1>1 DEF ReceiptsMatchLine, Takes, Untouched
  <2> QED BY <1>0, <2>1, <2>2
<1>2. ASSUME NEW l \in Lines, lines'[l].applied > 0
      PROVE  Takes(l, "LICENSE")'
  <2>1. CASE lines[l].applied > 0
    <3>1. Takes(l, "LICENSE")
      BY <1>0, <2>1 DEF ReceiptsMatchLine, Takes
    <3>2. lines[l].applied # 0
      <4>1. lines[l].applied \in 0 .. Ceiling
        BY TypesOf DEF LineRecord
      <4> QED BY <2>1, <4>1, Positive
    <3>3. ~ Untouched(l)
      BY <3>2 DEF Untouched
    <3> QED BY <1>0, <3>1, <3>3
  <2> QED BY <1>2, <2>1
<1>3. ASSUME mix \cap {"receive units", "restore asset"} = {}, NEW a \in Assets,
             assets'[a].state = "live", assets'[a].line # None
      PROVE  lines'[assets'[a].line].state = "live" /\ lines'[assets'[a].line].kind = "ASSET"
  <2>1. CASE assets[a].state = "live" /\ assets'[a].line = assets[a].line
    <3>1. assets[a].line \in Lines
      BY <1>0, <1>3, <2>1 DEF TypeOK, AssetRecord
    <3>2. Takes(assets[a].line, "ASSET") /\ ~ Untouched(assets[a].line)
      BY <1>0, <1>3, <2>1 DEF ReceiptsMatchLine, LiveAssets, Takes, Untouched
    <3>3. \A l \in Lines : Takes(l, "ASSET") /\ ~ Untouched(l) => Takes(l, "ASSET")'
      BY <1>0
    <3>4. ASSUME NEW l \in Lines, l = assets[a].line PROVE lines'[l].state = "live" /\ lines'[l].kind = "ASSET"
      BY <3>2, <3>3, <3>4 DEF Takes
    <3> QED BY <2>1, <3>1, <3>4 DEF Takes
  <2> QED BY <1>3, <2>1
<1>4. \A m \in DOMAIN movements' : movements'[m].line # None =>
        lines'[movements'[m].line].state = "live" /\ lines'[movements'[m].line].kind = "CONSUMABLE"
  BY <1>1 DEF Takes
<1> QED BY <1>2, <1>3, <1>4 DEF ReceiptsMatchLine, LiveAssets, Takes
-----------------------------------------------------------------------------
(***************************************************************************)
(* Most writes leave the stock, the seats and what is known of a line alone. *)
(***************************************************************************)
\* Assets that are live are on no line, on the line they were on or on a line of assets.
AssetsSound ==
    mix \cap {"receive units", "restore asset"} = {} =>
      \A a \in Assets : assets'[a].state = "live" /\ assets'[a].line # None =>
        \/ assets[a].state = "live" /\ assets'[a].line = assets[a].line
        \/ lines'[assets'[a].line].state = "live" /\ lines'[assets'[a].line].kind = "ASSET"

Modest ==
    /\ mix' = mix /\ movements' = movements /\ seats' = seats
    /\ \A i \in Items : consumables'[i].stock = consumables[i].stock
    /\ \A l \in Lines : lines[l].state # "none" => SameLine(l) /\ SameQuantity(l)
    /\ \A l \in Lines : lines[l].state = "none" => lines'[l].applied = 0
    /\ PurchasesKept

LEMMA UnusedLines ==
    ASSUME ProcurementInv, NEW l \in Lines, lines[l].state = "none"
    PROVE  lines[l].applied = 0
<1>1. ReceiptsMatchLine /\ lines[l] \in LineRecord
  BY TypesOf, SoundTables
<1>2. ~ (lines[l].applied > 0)
  BY <1>1 DEF ReceiptsMatchLine
<1>3. lines[l].applied \in 0 .. Ceiling
  BY <1>1 DEF LineRecord
<1> QED BY <1>2, <1>3, NotPositive

LEMMA ModestTables ==
    ASSUME ProcurementInv, Modest, TypeOK', PurchaseIdentified', AssetsSound
    PROVE  TablesSound'
<1>1. StockIsLedger' /\ ReturnsWithinDelivery' /\ CountsUnits'
  BY SoundTables, StockTablesStay DEF Modest
<1>2. SeatsAreApplied'
  <2>1. ASSUME NEW l \in Lines
        PROVE  /\ lines'[l].applied = lines[l].applied
               /\ lines'[l].item = lines[l].item \/ lines[l].applied = 0
    BY UnusedLines DEF Modest, SameLine
  <2> QED BY <2>1, SoundTables, SeatsStay DEF Modest
<1>3. ReceiptsMatchLine'
  <2>1. \A l \in Lines, kind \in Kinds : Takes(l, kind) /\ ~ Untouched(l) => Takes(l, kind)'
    BY DEF Modest, SameLine, Takes
  <2>2. ASSUME NEW l \in Lines, lines'[l].applied > 0 PROVE lines[l].applied > 0
    BY <2>2, UnusedLines DEF Modest, SameLine
  <2> QED BY <2>1, <2>2, ReceiptsStay DEF Modest, AssetsSound
<1> QED BY <1>1, <1>2, <1>3 DEF TablesSound

LEMMA ModestUndisturbed ==
    ASSUME ProcurementInv, Modest, NEW d \in Clients, NEW x, x = client[d],
           ByAssets(x), ByPurchases(x)
    PROVE  Undisturbed(x)
<1>1. ByMovements(x)
  BY SameMovements DEF Modest
<1>2. ByStock(x)
  <2>1. Subject(x)
    BY InvOf
  <2>2. x.op = "move" => x.on \in Items
    BY <2>1 DEF Subject
  <2> QED BY <2>2 DEF ByStock, Modest
<1>3. ByLines(x)
  BY SameLines DEF Modest
<1>4. BySeats(x)
  BY DEF BySeats, Modest
<1>5. PurchaseKept(x)
  BY KnownPurchases DEF Modest
<1> QED BY <1>1, <1>2, <1>3, <1>4, <1>5 DEF Undisturbed

LEMMA ModestCommit ==
    ASSUME ProcurementInv, Modest, TypeOK', PurchaseIdentified', AssetsSound,
           NEW c \in Clients, Kept(c),
           \A d \in Clients \ {c} : \A x : x = client[d] => ByAssets(x) /\ ByPurchases(x)
    PROVE  ProcurementInv'
<1>1. \A d \in Clients \ {c} : \A x : x = client[d] => Undisturbed(x)
  BY ModestUndisturbed
<1>2. TablesSound' /\ mix' = mix
  BY ModestTables DEF Modest
<1> QED BY <1>1, <1>2, Written

LEMMA ModestAlone ==
    ASSUME ProcurementInv, Modest, TypeOK', PurchaseIdentified', AssetsSound, client' = client,
           \A d \in Clients : \A x : x = client[d] => ByAssets(x) /\ ByPurchases(x)
    PROVE  ProcurementInv'
<1>1. \A d \in Clients : \A x : x = client[d] => Undisturbed(x)
  BY ModestUndisturbed
<1>2. TablesSound' /\ mix' = mix
  BY ModestTables DEF Modest
<1> QED BY <1>1, <1>2, WrittenAlone

LEMMA SameLinesModest ==
    ASSUME ProcurementInv, mix' = mix, movements' = movements, seats' = seats, lines' = lines,
           \A i \in Items : consumables'[i].stock = consumables[i].stock, PurchasesKept
    PROVE  Modest
BY UnusedLines DEF Modest, SameLine, SameQuantity

\* A purchase keeps its name or its lines.
LEMMA IdentifiedStays ==
    ASSUME ProcurementInv, Modest,
           \A p \in Purchases : purchases'[p].state # "none" =>
             \/ purchases'[p].named \/ LinesOf(p)' # {}
             \/ purchases[p].state # "none" /\ ~ purchases[p].named
    PROVE  PurchaseIdentified'
<1>1. \A p : LinesOf(p) \subseteq LinesOf(p)'
  BY DEF LinesOf, Modest, SameLine
<1>2. \A p \in Purchases : purchases[p].state # "none" => purchases[p].named \/ LinesOf(p) # {}
  BY SoundTables DEF PurchaseIdentified
<1> QED BY <1>1, <1>2 DEF PurchaseIdentified

LEMMA SameAssetsSound == ASSUME assets' = assets PROVE AssetsSound
BY DEF AssetsSound
-----------------------------------------------------------------------------
LEMMA ItemsInv ==
    ASSUME ProcurementInv, NEW c \in Clients, ArchiveItem(c) \/ RestoreItem(c)
    PROVE  ProcurementInv'
<1>1. PICK i \in Items, live \in BOOLEAN :
        /\ consumables' = [consumables EXCEPT ![i].live = live]
        /\ UNCHANGED <<movements, stockOthers>> /\ client' = client /\ mix' = mix
  BY DEF ArchiveItem, RestoreItem, Single
<1>2. /\ movements' = movements /\ seats' = seats /\ purchases' = purchases /\ lines' = lines
      /\ assets' = assets /\ locations' = locations /\ models' = models
  BY <1>1 DEF stockOthers
<1>3. TypeOK
  BY SoundTables
<1>4. /\ consumables' \in [Items -> ConsumableRecord]
      /\ \A j \in Items : consumables'[j].stock = consumables[j].stock
  BY <1>1, <1>3 DEF TypeOK, ConsumableRecord
<1>5. TypeOK'
  BY <1>2, <1>3, <1>4 DEF TypeOK
<1>6. Modest
  BY <1>1, <1>2, <1>4, SameLinesModest DEF PurchasesKept
<1>7. PurchaseIdentified' /\ AssetsSound
  BY <1>2, SoundTables, SameAssetsSound DEF PurchaseIdentified, LinesOf
<1>8. \A d \in Clients : \A x : x = client[d] => ByAssets(x) /\ ByPurchases(x)
  BY <1>2, SameAssets, SamePurchases
<1> QED BY <1>1, <1>5, <1>6, <1>7, <1>8, ModestAlone

\* What a write of locations and models alone needs.
LEMMA PlacesInv ==
    ASSUME ProcurementInv, NEW c \in Clients, Kept(c) \/ client' = client, mix' = mix,
           UNCHANGED <<stockTables, purchases, lines, assets>>,
           locations' \in [Locations -> LocationRecord], models' \in [Models -> {"live", "deleted"}]
    PROVE  ProcurementInv'
<1>2. /\ consumables' = consumables /\ movements' = movements /\ seats' = seats
      /\ purchases' = purchases /\ lines' = lines /\ assets' = assets
  BY DEF stockTables
<1>3. TypeOK'
  BY <1>2, SoundTables DEF TypeOK
<1>6. Modest
  BY <1>2, SameLinesModest DEF PurchasesKept
<1>7. PurchaseIdentified' /\ AssetsSound
  BY <1>2, SoundTables, SameAssetsSound DEF PurchaseIdentified, LinesOf
<1>8. \A d \in Clients : \A x : x = client[d] => ByAssets(x) /\ ByPurchases(x)
  BY <1>2, SameAssets, SamePurchases
<1> QED BY <1>3, <1>6, <1>7, <1>8, ModestAlone, ModestCommit

LEMMA LocationsInv ==
    ASSUME ProcurementInv, NEW c \in Clients,
           CreateLocation(c) \/ RestoreLocation(c) \/ ReparentWrite(c) \/ RestoreModel(c)
    PROVE  ProcurementInv'
<1>1. TypeOK /\ Shape /\ Subject(client[c])
  BY SoundTables, InvOf
<1>2. locations \in [Locations -> LocationRecord] /\ models \in [Models -> {"live", "deleted"}]
  BY <1>1 DEF TypeOK
<1>3. CASE CreateLocation(c)
  <2>1. /\ client' = client /\ mix' = mix /\ UNCHANGED placeOthers
        /\ \E x \in Locations, y \in Locations \cup {None} :
             locations' = [locations EXCEPT ![x] = [state |-> "live", parent |-> y]]
    BY <1>3 DEF CreateLocation, Single, Unused
  <2>2. locations' \in [Locations -> LocationRecord]
    BY <1>2, <2>1 DEF LocationRecord, States
  <2> QED BY <1>2, <2>1, <2>2, PlacesInv DEF placeOthers
<1>4. CASE RestoreLocation(c)
  <2>1. /\ client' = client /\ mix' = mix /\ UNCHANGED placeOthers
        /\ \E x \in Locations : locations' = [locations EXCEPT ![x].state = "live"]
    BY <1>4 DEF RestoreLocation, Single
  <2>2. locations' \in [Locations -> LocationRecord]
    BY <1>2, <2>1 DEF LocationRecord, States
  <2> QED BY <1>2, <2>1, <2>2, PlacesInv DEF placeOthers
<1>5. CASE ReparentWrite(c)
  <2>1. /\ End(c) /\ mix' = mix /\ UNCHANGED placeOthers /\ client[c].op = "reparent"
        /\ locations' = [locations EXCEPT ![client[c].on].parent = client[c].to]
    BY <1>5 DEF ReparentWrite, bounds, Granted
  <2>2. client[c].to \in Locations \cup {None}
    BY <1>1, <2>1 DEF Subject
  <2>3. locations' \in [Locations -> LocationRecord]
    BY <1>2, <2>1, <2>2 DEF LocationRecord, States
  <2> QED BY <1>1, <1>2, <2>1, <2>3, PlacesInv, Ends DEF placeOthers
<1>6. CASE RestoreModel(c)
  <2>1. /\ client' = client /\ mix' = mix
        /\ UNCHANGED <<stockTables, purchases, lines, assets, locations>>
        /\ \E m \in Models : models' = [models EXCEPT ![m] = "live"]
    BY <1>6 DEF RestoreModel, Single
  <2>2. models' \in [Models -> {"live", "deleted"}]
    BY <1>2, <2>1
  <2> QED BY <1>2, <2>1, <2>2, PlacesInv
<1> QED BY <1>3, <1>4, <1>5, <1>6

\* What a write of purchases alone needs.
LEMMA PurchasesInv ==
    ASSUME ProcurementInv, NEW c \in Clients, mix' = mix,
           UNCHANGED <<stockTables, lines, assets, locations, models>>,
           purchases' \in [Purchases -> PurchaseRecord], PurchasesKept,
           \A p \in Purchases : purchases'[p].state # "none" =>
             \/ purchases'[p].named \/ LinesOf(p)' # {}
             \/ purchases[p].state # "none" /\ ~ purchases[p].named,
           \/ client' = client /\ (\A d \in Clients : \A x : x = client[d] => ByPurchases(x))
           \/ Kept(c) /\ (\A d \in Clients \ {c} : \A x : x = client[d] => ByPurchases(x))
    PROVE  ProcurementInv'
<1>2. /\ consumables' = consumables /\ movements' = movements /\ seats' = seats
      /\ lines' = lines /\ assets' = assets /\ locations' = locations /\ models' = models
  BY DEF stockTables
<1>3. TypeOK'
  BY <1>2, SoundTables DEF TypeOK
<1>6. Modest
  BY <1>2, SameLinesModest
<1>7. PurchaseIdentified' /\ AssetsSound
  BY <1>2, <1>6, IdentifiedStays, SameAssetsSound
<1>8. \A x : ByAssets(x)
  BY <1>2, SameAssets
<1> QED BY <1>3, <1>6, <1>7, <1>8, ModestAlone, ModestCommit

\* A purchase that is about to lose a line does not lose its name meanwhile.
LEMMA ClearedAlone ==
    ASSUME ProcurementInv, NEW c \in Clients, NEW p \in Purchases, Whole(p) \subseteq client[c].locks,
           purchases \in [Purchases -> PurchaseRecord],
           purchases' = [purchases EXCEPT ![p].named = FALSE],
           NEW d \in Clients, d # c, NEW x, x = client[d]
    PROVE  ByPurchases(x)
<1>1. SUFFICES ASSUME x.op = "remove line", x.pc = "write"
               PROVE  /\ purchases'[PurchaseOf(x.line)].state # "none"
                      /\ purchases'[PurchaseOf(x.line)].named = purchases[PurchaseOf(x.line)].named
  BY DEF ByPurchases
<1>2. /\ PurchaseOf(x.line) \in Purchases /\ Whole(PurchaseOf(x.line)) \subseteq client[d].locks
  BY <1>1, RemovingLines
<1>3. PurchaseOf(x.line) # p
  BY <1>2, SoundTables, OneWhole
<1>4. purchases[PurchaseOf(x.line)].state # "none"
  BY <1>1, InvOf DEF Standing, Removing
<1> QED BY <1>2, <1>3, <1>4

LEMMA HeadersInv ==
    ASSUME ProcurementInv, NEW c \in Clients,
           UpdateWrite(c) \/ RemoveWrite(c) \/ RestorePurchase(c)
    PROVE  ProcurementInv'
<1>1. TypeOK /\ Shape /\ Subject(client[c]) /\ Standing(client[c])
  BY SoundTables, InvOf
<1>2. purchases \in [Purchases -> PurchaseRecord]
  BY <1>1 DEF TypeOK
<1>3. \A p : lines' = lines => LinesOf(p)' = LinesOf(p)
  BY DEF LinesOf
<1>4. CASE UpdateWrite(c)
  <2> DEFINE p == client[c].on
             y == client[c].to
  <2>1. /\ client[c].op = "update purchase" /\ client[c].pc = "write" /\ End(c) /\ mix' = mix
        /\ UNCHANGED <<stockTables, lines, assets, locations, models>>
        /\ purchases' = CASE client[c].change = "clear" -> [purchases EXCEPT ![p].named = FALSE]
                          [] client[c].change = "deliver" /\ LocationLive(y) ->
                               [purchases EXCEPT ![p].location = y]
                          [] OTHER -> purchases
    BY <1>4 DEF UpdateWrite, Granted, purchaseOthers, bounds
  <2>2. p \in Purchases /\ (client[c].change = "deliver" => y \in Locations) /\ Kept(c)
    BY <1>1, <2>1, Ends DEF Subject
  <2>3. CASE client[c].change = "clear"
    <3>1. purchases' = [purchases EXCEPT ![p].named = FALSE]
      BY <2>1, <2>3
    <3>2. Whole(p) \subseteq client[c].locks /\ LinesOf(p) # {}
      BY <1>1, <2>1, <2>3 DEF Standing, Clearing
    <3>3. purchases' \in [Purchases -> PurchaseRecord]
      BY <1>2, <2>2, <3>1 DEF PurchaseRecord
    <3>4. \A q \in Purchases : purchases'[q].state # "none" =>
             \/ purchases'[q].named \/ LinesOf(q)' # {}
             \/ purchases[q].state # "none" /\ ~ purchases[q].named
      BY <1>2, <1>3, <2>1, <2>2, <3>1, <3>2
    <3>5. \A d \in Clients \ {c} : \A x : x = client[d] => ByPurchases(x)
      BY <1>2, <2>2, <3>1, <3>2, ClearedAlone
    <3>6. PurchasesKept
      BY <1>2, <2>2, <3>1 DEF PurchasesKept
    <3> QED BY <2>1, <2>2, <3>3, <3>4, <3>5, <3>6, PurchasesInv
  <2>4. CASE client[c].change # "clear"
    <3>1. \/ purchases' = [purchases EXCEPT ![p].location = y] /\ y \in Locations
          \/ purchases' = purchases
      BY <2>1, <2>2, <2>4
    <3>2. /\ purchases' \in [Purchases -> PurchaseRecord] /\ PurchasesKept
          /\ \A q \in Purchases : /\ purchases'[q].state = purchases[q].state
                                  /\ purchases'[q].named = purchases[q].named
      BY <1>2, <2>2, <3>1 DEF PurchaseRecord, PurchasesKept
    <3>3. \A d \in Clients : \A x : x = client[d] => ByPurchases(x)
      BY <3>2, SamePurchases
    <3> QED BY <2>1, <2>2, <3>2, <3>3, PurchasesInv
  <2> QED BY <2>3, <2>4
<1> DEFINE Switched(p, state) ==
             /\ UNCHANGED <<stockTables, lines, assets, locations, models>> /\ mix' = mix
             /\ purchases' = [purchases EXCEPT ![p].state = state]
<1>7. ASSUME NEW p \in Purchases, purchases[p].state # "none", NEW state \in {"live", "deleted"},
             Switched(p, state), Kept(c) \/ client' = client
      PROVE  ProcurementInv'
  <2>1. /\ purchases' \in [Purchases -> PurchaseRecord] /\ PurchasesKept
        /\ \A q \in Purchases : purchases'[q].named = purchases[q].named
    BY <1>2, <1>7 DEF PurchaseRecord, PurchasesKept, States
  <2>2. \A q \in Purchases : purchases'[q].state # "none" =>
             \/ purchases'[q].named \/ LinesOf(q)' # {}
             \/ purchases[q].state # "none" /\ ~ purchases[q].named
    BY <1>2, <1>7, <2>1
  <2>3. \A d \in Clients : \A x : x = client[d] => ByPurchases(x)
    BY <2>1, SamePurchases DEF PurchasesKept
  <2> QED BY <1>7, <2>1, <2>2, <2>3, PurchasesInv
<1>5. CASE RemoveWrite(c)
  <2> DEFINE p == client[c].on
  <2>1. client[c].op = "remove purchase" /\ End(c) /\ Switched(p, "deleted")
    BY <1>5 DEF RemoveWrite, Granted, purchaseOthers, bounds
  <2>2. p \in Purchases /\ Kept(c) /\ purchases[p].state # "none"
    BY <1>1, <2>1, Ends DEF Subject, Standing
  <2> HIDE DEF Switched
  <2> QED BY <1>7, <2>1, <2>2
<1>6. CASE RestorePurchase(c)
  <2>1. PICK p \in Purchases : /\ purchases[p].state = "deleted" /\ client' = client
                               /\ Switched(p, "live")
    BY <1>6 DEF RestorePurchase, Single, purchaseOthers
  <2>2. purchases[p].state # "none"
    BY <2>1
  <2> HIDE DEF Switched
  <2> QED BY <1>7, <2>1, <2>2
<1> QED BY <1>4, <1>5, <1>6
-----------------------------------------------------------------------------
LEMMA ReplacesLine ==
    ASSUME ProcurementInv, NEW d \in Clients, NEW x, x = client[d], Replaces(x)
    PROVE  /\ x.line \in Lines /\ lines[x.line].state # "none" /\ PurchaseOf(x.line) \in Purchases
           /\ Whole(PurchaseOf(x.line)) \subseteq client[d].locks
<1>1. Subject(x) /\ Standing(x)
  BY InvOf
<1>2. x.line \in Lines
  BY <1>1 DEF Subject, OnLines, Replaces
<1>3. PurchaseOf(x.line) \in Purchases
  BY <1>2, TypesOf DEF PurchaseOf, LineRecord
<1>4. CASE x.op = "remove line" /\ x.pc = "write"
  BY <1>1, <1>2, <1>3, <1>4 DEF Standing, Removing
<1>5. CASE x.op = "update line" /\ x.change = "change kind" /\ x.pc = "write"
  BY <1>1, <1>2, <1>3, <1>5 DEF Standing, Updating, ShareOf
<1> QED BY <1>4, <1>5 DEF Replaces

\* What a write of assets alone needs.
LEMMA AssetsInv ==
    ASSUME ProcurementInv, NEW c \in Clients, mix' = mix, UNCHANGED receivingOthers,
           assets' \in [Assets -> AssetRecord], AssetsSound,
           \/ client' = client /\ (\A d \in Clients : \A x : x = client[d] => ByAssets(x))
           \/ Kept(c) /\ (\A d \in Clients \ {c} : \A x : x = client[d] => ByAssets(x))
    PROVE  ProcurementInv'
<1>2. /\ consumables' = consumables /\ movements' = movements /\ seats' = seats
      /\ lines' = lines /\ purchases' = purchases /\ locations' = locations /\ models' = models
  BY DEF stockTables, receivingOthers
<1>3. TypeOK'
  BY <1>2, SoundTables DEF TypeOK
<1>6. Modest
  BY <1>2, SameLinesModest DEF PurchasesKept
<1>7. PurchaseIdentified'
  BY <1>2, SoundTables DEF PurchaseIdentified, LinesOf
<1>8. \A d \in Clients : \A x : x = client[d] => ByPurchases(x)
  BY <1>2, SamePurchases
<1> QED BY <1>3, <1>6, <1>7, <1>8, ModestAlone, ModestCommit

\* Assets that stay where they are, or leave their line.
AssetsSettle ==
    \A a \in Assets : assets'[a].state = "live" =>
      assets'[a].line = None \/ (assets[a].state = "live" /\ assets'[a].line = assets[a].line)

LEMMA AssetsSettled ==
    ASSUME ProcurementInv, AssetsSettle
    PROVE  AssetsSound /\ \A d \in Clients : \A x : x = client[d] => ByAssets(x)
<1>1. AssetsSound
  BY DEF AssetsSettle, AssetsSound
<1>2. ASSUME NEW d \in Clients, NEW x, x = client[d] PROVE ByAssets(x)
  <2>1. SUFFICES ASSUME Replaces(x), NEW a \in Assets, assets'[a].state = "live",
                        assets'[a].line = x.line
                 PROVE  assets[a].state = "live" /\ assets[a].line = x.line
    BY DEF ByAssets
  <2>2. x.line # None
    BY <1>2, <2>1, ReplacesLine, ProcurementAssumption
  <2> QED BY <2>1, <2>2 DEF AssetsSettle
<1> QED BY <1>1, <1>2

LEMMA RestoresSound ==
    ASSUME mix \cap {"receive units", "restore asset"} # {}
    PROVE  AssetsSound /\ \A x : ByAssets(x)
BY DEF AssetsSound, ByAssets

LEMMA AssetWritesInv ==
    ASSUME ProcurementInv, NEW c \in Clients,
           RemoveAsset(c) \/ RestoreAsset(c) \/ AssetWrite(c) \/ UnlinkCommit(c)
    PROVE  ProcurementInv'
<1>1. TypeOK /\ Shape /\ Subject(client[c])
  BY SoundTables, InvOf
<1>2. assets \in [Assets -> AssetRecord]
  BY <1>1 DEF TypeOK
<1>3. CASE RemoveAsset(c)
  <2>1. PICK a \in Assets : /\ assets' = [assets EXCEPT ![a].state = "deleted"]
                            /\ client' = client /\ mix' = mix /\ UNCHANGED receivingOthers
    BY <1>3 DEF RemoveAsset, Single
  <2>2. assets' \in [Assets -> AssetRecord] /\ AssetsSettle
    BY <1>2, <2>1 DEF AssetRecord, States, AssetsSettle
  <2> QED BY <2>1, <2>2, AssetsSettled, AssetsInv
<1>4. CASE RestoreAsset(c)
  <2>1. PICK a \in Assets : /\ assets' = [assets EXCEPT ![a].state = "live"]
                            /\ client' = client /\ mix' = mix /\ UNCHANGED receivingOthers
                            /\ "restore asset" \in mix
    BY <1>4 DEF RestoreAsset, Single, Allowed
  <2>2. assets' \in [Assets -> AssetRecord]
    BY <1>2, <2>1 DEF AssetRecord, States
  <2>3. mix \cap {"receive units", "restore asset"} # {}
    BY <2>1
  <2> QED BY <2>1, <2>2, <2>3, RestoresSound, AssetsInv
<1>5. CASE AssetWrite(c)
  <2> DEFINE b == client[c].on
             y == client[c].to
  <2>1. /\ client[c].op = "asset" /\ End(c) /\ mix' = mix /\ UNCHANGED receivingOthers
        /\ assets' = IF client[c].change = "location" THEN [assets EXCEPT ![b].location = y]
                     ELSE [assets EXCEPT ![b].model = y]
    BY <1>5 DEF AssetWrite, Granted, bounds
  <2>2. Kept(c) /\ \/ client[c].change = "location" /\ y \in Locations
                   \/ client[c].change = "model" /\ y \in Models
    BY <1>1, <2>1, Ends DEF Subject
  <2> HIDE DEF b, y
  <2>3. CASE client[c].change = "location" /\ y \in Locations
    <3>1. assets' = [assets EXCEPT ![b].location = y]
      BY <2>1, <2>3
    <3>2. assets' \in [Assets -> AssetRecord] /\ AssetsSettle
      BY <1>2, <2>3, <3>1 DEF AssetRecord, AssetsSettle
    <3> QED BY <2>1, <2>2, <3>2, AssetsSettled, AssetsInv
  <2>4. CASE client[c].change = "model" /\ y \in Models
    <3>1. assets' = [assets EXCEPT ![b].model = y]
      BY <2>1, <2>4
    <3>2. assets' \in [Assets -> AssetRecord] /\ AssetsSettle
      BY <1>2, <2>4, <3>1 DEF AssetRecord, AssetsSettle
    <3> QED BY <2>1, <2>2, <3>2, AssetsSettled, AssetsInv
  <2> QED BY <2>2, <2>3, <2>4
<1>6. CASE UnlinkCommit(c)
  <2> DEFINE staged == client[c].staged
  <2>1. /\ End(c) /\ mix' = mix /\ UNCHANGED receivingOthers
        /\ assets' = [a \in Assets |-> IF a \in staged THEN [assets[a] EXCEPT !.line = None]
                                       ELSE assets[a]]
    BY <1>6 DEF UnlinkCommit, bounds
  <2>2. Kept(c)
    BY <1>1, <2>1, Ends
  <2> HIDE DEF staged
  <2>3. assets' \in [Assets -> AssetRecord] /\ AssetsSettle
    BY <1>2, <2>1 DEF AssetRecord, AssetsSettle
  <2> QED BY <2>1, <2>2, <2>3, AssetsSettled, AssetsInv
<1> QED BY <1>3, <1>4, <1>5, <1>6

LEMMA UnitInsertInv ==
    ASSUME ProcurementInv, NEW c \in Clients, UnitInsert(c)
    PROVE  ProcurementInv'
<1> DEFINE x == client[c]
<1>1. PICK a \in Unused(assets, Assets) :
        assets' = [assets EXCEPT ![a] = NewAsset(x.to, x.of, x.line)]
  BY DEF UnitInsert
<1>2. /\ x.op = "units" /\ mix' = mix /\ UNCHANGED receivingOthers
      /\ client' = [client EXCEPT ![c] = NextUnit(c, 1)]
  BY DEF UnitInsert, Granted, bounds
<1>3. Kept(c)
  BY <1>2, NextUnitKept DEF Kept
<1>4. Subject(x) /\ Standing(x) /\ assets \in [Assets -> AssetRecord]
  BY InvOf, SoundTables DEF TypeOK
<1>5. /\ x.to \in Locations \cup {None} /\ x.of \in Models \cup {None}
      /\ x.line \in Lines \cup {None} /\ (x.line # None => "receive units" \in mix)
  BY <1>2, <1>4 DEF Subject, Standing
<1> HIDE DEF x
<1>6. a \in Assets
  BY <1>1 DEF Unused
<1>7. assets' \in [Assets -> AssetRecord]
  BY <1>1, <1>4, <1>5, <1>6 DEF AssetRecord, NewAsset, States
<1>8. CASE x.line = None
  <2>1. AssetsSettle
    BY <1>1, <1>4, <1>8 DEF AssetsSettle, NewAsset
  <2> QED BY <1>2, <1>3, <1>7, <2>1, AssetsSettled, AssetsInv
<1>9. CASE x.line # None
  <2>1. mix \cap {"receive units", "restore asset"} # {}
    BY <1>5, <1>9
  <2> QED BY <1>2, <1>3, <1>7, <2>1, RestoresSound, AssetsInv
<1> QED BY <1>8, <1>9

LEMMA LinkCommitInv ==
    ASSUME ProcurementInv, NEW c \in Clients, LinkCommit(c)
    PROVE  ProcurementInv'
<1> DEFINE staged == client[c].staged
           l == client[c].line
           to == client[c].to
<1>1. /\ client[c].op = "link" /\ client[c].pc = "events" /\ mix' = mix /\ End(c)
      /\ UNCHANGED receivingOthers
      /\ assets' = [a \in Assets |-> IF a \in staged THEN Linked(assets[a], l, to) ELSE assets[a]]
  BY DEF LinkCommit, Granted, bounds
<1>2. Subject(client[c]) /\ Linking(client[c]) /\ Kept(c)
  BY <1>1, InvOf, Ends DEF Standing
<1>3. l \in Lines /\ to \in Models \cup {None} /\ Takes(l, "ASSET")
      /\ Held(PurchaseOf(l)) \subseteq client[c].locks
  BY <1>1, <1>2 DEF Subject, OnLines, Linking
<1>4. assets \in [Assets -> AssetRecord]
  BY SoundTables DEF TypeOK
<1>5. lines' = lines
  BY <1>1 DEF receivingOthers
<1>6. ASSUME NEW d \in Clients \ {c}, NEW x, x = client[d] PROVE ByAssets(x)
  <2>1. SUFFICES ASSUME Replaces(x), NEW a \in Assets, assets'[a].state = "live",
                        assets'[a].line = x.line
                 PROVE  assets[a].state = "live" /\ assets[a].line = x.line
    BY DEF ByAssets
  <2>2. /\ PurchaseOf(x.line) \in Purchases
        /\ Whole(PurchaseOf(x.line)) \subseteq client[d].locks
    BY <1>6, <2>1, ReplacesLine
  <2>3. x.line # l
    BY <1>3, <1>6, <2>2, OneWhole, SoundTables
  <2> HIDE DEF staged, l, to
  <2>4. a \notin staged
    BY <1>1, <1>4, <2>1, <2>3 DEF Linked, AssetRecord
  <2> QED BY <1>1, <2>1, <2>4
<1> HIDE DEF staged, l, to
<1>7. assets' \in [Assets -> AssetRecord]
  BY <1>1, <1>3, <1>4 DEF AssetRecord, Linked
<1>8. AssetsSound
  BY <1>1, <1>3, <1>4, <1>5 DEF AssetsSound, Linked, AssetRecord, Takes
<1> QED BY <1>1, <1>2, <1>6, <1>7, <1>8, AssetsInv
-----------------------------------------------------------------------------
LEMMA NewLineSound ==
    ASSUME NEW p \in Purchases, NEW m \in Models \cup {None}, NEW n \in 1 .. Ceiling
    PROVE  /\ NewLine(p, "ASSET", None, m, n) \in LineRecord
           /\ SoundLine(NewLine(p, "ASSET", None, m, n))
<1>1. 0 \in 0 .. Ceiling /\ 0 <= n
  BY CeilingNat
<1>2. NewLine(p, "ASSET", None, m, n) \in LineRecord
  BY <1>1 DEF NewLine, LineRecord, States, Kinds
<1> QED BY <1>1, <1>2 DEF NewLine, SoundLine

LEMMA InsertedLine ==
    ASSUME ProcurementInv, NEW p \in Purchases, NEW n \in 1 .. Ceiling, NEW l \in Lines,
           lines[l].state = "none", lines' = [lines EXCEPT ![l] = NewLine(p, "ASSET", None, None, n)]
    PROVE  /\ lines' \in [Lines -> LineRecord] /\ \A k \in Lines : SoundLine(lines'[k])
           /\ \A k \in Lines : lines[k].state # "none" => SameLine(k) /\ SameQuantity(k)
           /\ \A k \in Lines : lines[k].state = "none" => lines'[k].applied = 0
           /\ l \in LinesOf(p)'
           /\ lines'[l].state = "live" /\ lines'[l].kind = "ASSET"
<1> DEFINE row == NewLine(p, "ASSET", None, None, n)
<1>1. row \in LineRecord /\ SoundLine(row)
  BY NewLineSound
<1>2. /\ row.state = "live" /\ row.purchase = p /\ row.kind = "ASSET" /\ row.applied = 0
  BY DEF NewLine
<1>3. lines \in [Lines -> LineRecord] /\ \A k \in Lines : SoundLine(lines[k])
  BY SoundTables DEF TypeOK
<1> HIDE DEF row
<1>4. lines'[l] = row /\ \A k \in Lines : k # l => lines'[k] = lines[k]
  BY <1>3 DEF row
<1>5. lines' \in [Lines -> LineRecord] /\ \A k \in Lines : SoundLine(lines'[k])
  <2>1. lines' \in [Lines -> LineRecord]
    BY <1>1, <1>3 DEF row
  <2> QED BY <2>1, <1>1, <1>3, <1>4
<1>6. \A k \in Lines : lines[k].state # "none" => SameLine(k) /\ SameQuantity(k)
  BY <1>4 DEF SameLine, SameQuantity
<1>7. \A k \in Lines : lines[k].state = "none" => lines'[k].applied = 0
  BY <1>2, <1>4, UnusedLines
<1> QED BY <1>2, <1>4, <1>5, <1>6, <1>7 DEF LinesOf

\* The groups of assets a purchase is made from, a line each.
LEMMA InsertedLines ==
    ASSUME ProcurementInv, NEW p \in Purchases, NEW fresh \in SUBSET Lines, fresh # {},
           lines' = [l \in Lines |-> lines'[l]], \A k \in Lines \ fresh : lines'[k] = lines[k],
           \A l \in fresh : /\ lines[l].state = "none" /\ lines'[l] \in LineRecord
                            /\ SoundLine(lines'[l]) /\ lines'[l].state = "live"
                            /\ lines'[l].purchase = p /\ lines'[l].applied = 0
    PROVE  /\ lines' \in [Lines -> LineRecord] /\ \A k \in Lines : SoundLine(lines'[k])
           /\ \A k \in Lines : lines[k].state # "none" => SameLine(k) /\ SameQuantity(k)
           /\ \A k \in Lines : lines[k].state = "none" => lines'[k].applied = 0
           /\ LinesOf(p)' # {}
<1>1. lines \in [Lines -> LineRecord] /\ \A k \in Lines : SoundLine(lines[k])
  BY SoundTables DEF TypeOK
<1>2. \A k \in Lines : lines'[k] \in LineRecord /\ SoundLine(lines'[k])
  BY <1>1
<1>3. \A k \in Lines : lines[k].state # "none" => SameLine(k) /\ SameQuantity(k)
  BY DEF SameLine, SameQuantity
<1>4. \A k \in Lines : lines[k].state = "none" => lines'[k].applied = 0
  BY UnusedLines
<1>5. LinesOf(p)' # {}
  BY DEF LinesOf
<1> QED BY <1>2, <1>3, <1>4, <1>5

LEMMA OneUnit == ASSUME ProcurementInv, NEW l \in Lines PROVE 1 \in 1 .. Ceiling
<1>1. lines[l].quantity \in 1 .. Ceiling
  BY TypesOf DEF LineRecord
<1> QED BY <1>1, CeilingNat

LEMMA InsertsInv ==
    ASSUME ProcurementInv, NEW c \in Clients, CreateInsert(c) \/ AddLineInsert(c)
    PROVE  ProcurementInv'
<1>1. TypeOK /\ Shape /\ Subject(client[c])
  BY SoundTables, InvOf
<1>2. /\ purchases \in [Purchases -> PurchaseRecord] /\ lines \in [Lines -> LineRecord]
      /\ \A k \in Lines : SoundLine(lines[k])
  BY <1>1 DEF TypeOK
<1>3. /\ End(c) /\ mix' = mix /\ UNCHANGED purchaseOthers
  BY DEF CreateInsert, AddLineInsert, bounds
<1>4. /\ consumables' = consumables /\ movements' = movements /\ seats' = seats
      /\ assets' = assets /\ locations' = locations /\ models' = models /\ Kept(c)
  BY <1>1, <1>3, Ends DEF purchaseOthers, stockTables
<1>5. ASSUME purchases' \in [Purchases -> PurchaseRecord], PurchasesKept,
             \A p \in Purchases : purchases[p].state # "none" => purchases'[p].named = purchases[p].named,
             lines' \in [Lines -> LineRecord], \A k \in Lines : SoundLine(lines'[k]),
             \A k \in Lines : lines[k].state # "none" => SameLine(k) /\ SameQuantity(k),
             \A k \in Lines : lines[k].state = "none" => lines'[k].applied = 0,
             \A p \in Purchases : purchases[p].state = "none" /\ purchases'[p].state # "none" =>
               purchases'[p].named \/ LinesOf(p)' # {}
      PROVE  ProcurementInv'
  <2>1. TypeOK'
    BY <1>1, <1>4, <1>5 DEF TypeOK
  <2>2. Modest
    BY <1>3, <1>4, <1>5 DEF Modest
  <2>3. PurchaseIdentified'
    BY <1>5, <2>2, IdentifiedStays
  <2>4. AssetsSound
    BY <1>4, SameAssetsSound
  <2>5. \A d \in Clients : \A x : x = client[d] => ByAssets(x) /\ ByPurchases(x)
    BY <1>4, <1>5, SameAssets, SamePurchases DEF PurchasesKept
  <2> QED BY <1>4, <2>1, <2>2, <2>3, <2>4, <2>5, ModestCommit
<1>6. CASE CreateInsert(c)
  <2> DEFINE to == client[c].to
  <2>1. to \in Locations \cup {None}
    BY <1>1, <1>6 DEF CreateInsert, Granted, Subject
  <2>2. PICK p \in Unused(purchases, Purchases), named \in BOOLEAN :
          /\ purchases' = [purchases EXCEPT ![p] =
               [state |-> "live", named |-> named, location |-> to]]
          /\ IF named THEN UNCHANGED lines
             ELSE \E l \in Unused(lines, Lines) :
                    lines' = [lines EXCEPT ![l] = NewLine(p, "ASSET", None, None, 1)]
    BY <1>6 DEF CreateInsert
  <2> HIDE DEF to
  <2>3. p \in Purchases /\ purchases[p].state = "none"
    BY <2>2 DEF Unused
  <2>4. /\ purchases' \in [Purchases -> PurchaseRecord] /\ PurchasesKept
        /\ \A q \in Purchases : purchases[q].state # "none" => purchases'[q].named = purchases[q].named
    BY <1>2, <2>1, <2>2, <2>3 DEF PurchaseRecord, PurchasesKept, States
  <2>5. \A q \in Purchases : purchases[q].state = "none" /\ purchases'[q].state # "none" => q = p
    BY <1>2, <2>2, <2>3
  <2>6. CASE named
    <3>1. lines' = lines /\ purchases'[p].named
      BY <1>2, <2>2, <2>3, <2>6
    <3>2. /\ lines' \in [Lines -> LineRecord] /\ \A k \in Lines : SoundLine(lines'[k])
          /\ \A k \in Lines : lines[k].state # "none" => SameLine(k) /\ SameQuantity(k)
          /\ \A k \in Lines : lines[k].state = "none" => lines'[k].applied = 0
      BY <1>2, <3>1, UnusedLines DEF SameLine, SameQuantity
    <3> QED BY <1>5, <2>4, <2>5, <3>1, <3>2
  <2>7. CASE ~ named
    <3>1. PICK l \in Unused(lines, Lines) :
                    lines' = [lines EXCEPT ![l] = NewLine(p, "ASSET", None, None, 1)]
      BY <2>2, <2>7
    <3>2. l \in Lines /\ lines[l].state = "none" /\ 1 \in 1 .. Ceiling
      BY <3>1, OneUnit DEF Unused
    <3>3. /\ lines' \in [Lines -> LineRecord] /\ \A k \in Lines : SoundLine(lines'[k])
          /\ \A k \in Lines : lines[k].state # "none" => SameLine(k) /\ SameQuantity(k)
          /\ \A k \in Lines : lines[k].state = "none" => lines'[k].applied = 0
          /\ LinesOf(p)' # {}
      BY <2>3, <3>1, <3>2, InsertedLine
    <3> QED BY <1>5, <2>4, <2>5, <3>3
  <2> QED BY <2>6, <2>7
<1>7. CASE AddLineInsert(c)
  <2> DEFINE p == client[c].on
  <2>1. p \in Purchases /\ purchases' = purchases
    BY <1>1, <1>7 DEF AddLineInsert, Granted, Subject
  <2>2. PICK l \in Unused(lines, Lines) :
               lines' = [lines EXCEPT ![l] = NewLine(p, "ASSET", None, None, 1)]
    BY <1>7 DEF AddLineInsert
  <2>3. l \in Lines /\ lines[l].state = "none" /\ 1 \in 1 .. Ceiling
    BY <2>2, OneUnit DEF Unused
  <2>4. /\ lines' \in [Lines -> LineRecord] /\ \A k \in Lines : SoundLine(lines'[k])
        /\ \A k \in Lines : lines[k].state # "none" => SameLine(k) /\ SameQuantity(k)
        /\ \A k \in Lines : lines[k].state = "none" => lines'[k].applied = 0
    <3> HIDE DEF p
    <3> QED BY <2>1, <2>2, <2>3, InsertedLine
  <2> QED BY <1>2, <1>5, <2>1, <2>4 DEF PurchasesKept
<1> QED BY <1>6, <1>7

LEMMA SomeAssets ==
    ASSUME NEW S \in SUBSET Assets, S # {}
    PROVE  Cardinality(S) \in 1 .. Ceiling
<1>1. /\ IsFiniteSet(S) /\ Cardinality(S) \in Nat /\ Cardinality(Assets) \in Nat
      /\ Cardinality(S) <= Cardinality(Assets)
  BY ProcurementAssumption, FS_Subset, FS_CardinalityType
<1>2. Cardinality(S) # 0
  BY <1>1, FS_EmptySet
<1>3. Cardinality(Assets) <= Ceiling /\ Ceiling \in Nat
  BY ProcurementAssumption
<1> QED BY <1>1, <1>2, <1>3

\* A line of a group is a sound line of its purchase, on some model or none.
LEMMA GroupLineIs ==
    ASSUME ProcurementInv, NEW c, NEW p \in Purchases, NEW group \in SUBSET Assets, group # {}
    PROVE  LET row == GroupLine(c, p, group) IN
           /\ row \in LineRecord /\ SoundLine(row)
           /\ row.state = "live" /\ row.purchase = p /\ row.kind = "ASSET" /\ row.applied = 0
<1>1. PICK m \in Models \cup {None} : GroupLine(c, p, group) = NewLine(p, "ASSET", None, m, Cardinality(group))
  <2> DEFINE of == CHOOSE a \in group : TRUE
  <2>1. of \in Assets
    OBVIOUS
  <2> HIDE DEF of
  <2>2. assets[of].model \in Models \cup {None}
    BY <2>1, SoundTables DEF TypeOK, AssetRecord
  <2>3. None \in Models \cup {None}
    OBVIOUS
  <2> QED BY <2>2, <2>3 DEF GroupLine, of
<1>2. Cardinality(group) \in 1 .. Ceiling
  BY SomeAssets
<1> DEFINE row == NewLine(p, "ASSET", None, m, Cardinality(group))
<1>3. row \in LineRecord /\ SoundLine(row)
  BY <1>2, NewLineSound
<1>4. row.state = "live" /\ row.purchase = p /\ row.kind = "ASSET" /\ row.applied = 0
  BY DEF NewLine
<1> QED BY <1>1, <1>3, <1>4

\* What the creation of a purchase from assets writes.
Gathers(c, p, rows, at) ==
    /\ p \in Purchases /\ rows \in SUBSET Assets /\ rows # {} /\ at \in [rows -> Lines]
    /\ rows = Linkable(c, None)
    /\ purchases[p].state = "none" /\ \A a \in rows : lines[at[a]].state = "none"
    /\ purchases' = [purchases EXCEPT ![p] =
         [state |-> "live", named |-> FALSE, location |-> client[c].to]]
    /\ lines' = [l \in Lines |-> IF \E a \in rows : at[a] = l
                                THEN GroupLine(c, p, {a \in rows : at[a] = l}) ELSE lines[l]]
    /\ assets' = [a \in Assets |-> IF a \in rows THEN [assets[a] EXCEPT !.line = at[a]]
                                   ELSE assets[a]]

LEMMA FromAssetsWrites ==
    ASSUME ProcurementInv, NEW c \in Clients, FromAssetsCommit(c)
    PROVE  \E p, rows, at : Gathers(c, p, rows, at)
<1> DEFINE rows == Linkable(c, None)
<1>1. client[c].op = "from assets" /\ rows # {}
  BY DEF FromAssetsCommit, Granted
<1>2. rows \subseteq Assets
  BY <1>1, InvOf DEF Subject, Linkable, LiveAssets
<1>3. PICK p \in Unused(purchases, Purchases), at \in [rows -> Lines \ Known(lines, Lines)] :
         /\ purchases' = [purchases EXCEPT ![p] =
              [state |-> "live", named |-> FALSE, location |-> client[c].to]]
         /\ lines' = [l \in Lines |->
              LET group == {a \in rows : at[a] = l}
              IN  IF group = {} THEN lines[l] ELSE GroupLine(c, p, group)]
         /\ assets' = [a \in Assets |-> IF a \in rows THEN [assets[a] EXCEPT !.line = at[a]]
                                        ELSE assets[a]]
  BY Zenon DEF FromAssetsCommit
<1>4. p \in Purchases /\ purchases[p].state = "none"
  BY <1>3 DEF Unused
<1> HIDE DEF rows
<1>5. at \in [rows -> Lines] /\ \A a \in rows : lines[at[a]].state = "none"
  BY <1>3 DEF Known
<1>6. \A l \in Lines : lines'[l] = IF \E a \in rows : at[a] = l
                                  THEN GroupLine(c, p, {a \in rows : at[a] = l}) ELSE lines[l]
  <2> TAKE l \in Lines
  <2>1. {a \in rows : at[a] = l} = {} <=> ~ \E a \in rows : at[a] = l
    OBVIOUS
  <2> QED BY <1>3, <2>1
<1>7. lines' = [l \in Lines |-> lines'[l]]
  BY <1>3
<1>8. lines' = [l \in Lines |-> IF \E a \in rows : at[a] = l
                               THEN GroupLine(c, p, {a \in rows : at[a] = l}) ELSE lines[l]]
  BY <1>6, <1>7
<1>9. rows = Linkable(c, None)
  BY DEF rows
<1>10. rows # {}
  BY <1>1, <1>9
<1>11. Gathers(c, p, rows, at)
  BY <1>2, <1>3, <1>4, <1>5, <1>8, <1>9, <1>10 DEF Gathers
<1> QED BY <1>11

LEMMA FromAssetsInv ==
    ASSUME ProcurementInv, NEW c \in Clients, FromAssetsCommit(c)
    PROVE  ProcurementInv'
<1>1. TypeOK /\ Shape /\ Subject(client[c])
  BY SoundTables, InvOf
<1>2. /\ purchases \in [Purchases -> PurchaseRecord] /\ lines \in [Lines -> LineRecord]
      /\ assets \in [Assets -> AssetRecord]
  BY <1>1 DEF TypeOK
<1>3. /\ End(c) /\ mix' = mix /\ UNCHANGED <<stockTables, locations, models>>
      /\ client[c].op = "from assets"
  BY DEF FromAssetsCommit, bounds, Granted
<1>4. /\ consumables' = consumables /\ movements' = movements /\ seats' = seats
      /\ locations' = locations /\ models' = models /\ Kept(c)
  BY <1>1, <1>3, Ends DEF stockTables
<1> DEFINE to == client[c].to
<1>5. to \in Locations \cup {None}
  BY <1>1, <1>3 DEF Subject
<1>6. PICK p, rows, at : Gathers(c, p, rows, at)
  BY FromAssetsWrites
<1>7. /\ p \in Purchases /\ rows \in SUBSET Assets /\ rows # {} /\ at \in [rows -> Lines]
      /\ purchases[p].state = "none" /\ \A a \in rows : lines[at[a]].state = "none"
      /\ purchases' = [purchases EXCEPT ![p] =
           [state |-> "live", named |-> FALSE, location |-> to]]
      /\ lines' = [l \in Lines |-> IF \E a \in rows : at[a] = l
                                  THEN GroupLine(c, p, {a \in rows : at[a] = l}) ELSE lines[l]]
      /\ assets' = [a \in Assets |-> IF a \in rows THEN [assets[a] EXCEPT !.line = at[a]]
                                     ELSE assets[a]]
  BY <1>6 DEF Gathers
<1> HIDE DEF to
<1> DEFINE fresh == {l \in Lines : \E a \in rows : at[a] = l}
<1>8. ASSUME NEW l \in fresh
      PROVE  /\ lines[l].state = "none" /\ lines'[l] \in LineRecord /\ SoundLine(lines'[l])
             /\ lines'[l].state = "live" /\ lines'[l].purchase = p /\ lines'[l].kind = "ASSET"
             /\ lines'[l].applied = 0
  <2>1. PICK group : /\ group = {a \in rows : at[a] = l}
                     /\ group \in SUBSET Assets /\ group # {}
    BY <1>7, <1>8
  <2>2. lines[l].state = "none"
    BY <1>7, <1>8
  <2>3. lines'[l] = GroupLine(c, p, group)
    BY <1>7, <1>8, <2>1
  <2>4. p \in Purchases
    BY <1>7
  <2>5. /\ GroupLine(c, p, group) \in LineRecord /\ SoundLine(GroupLine(c, p, group))
        /\ GroupLine(c, p, group).state = "live" /\ GroupLine(c, p, group).purchase = p
        /\ GroupLine(c, p, group).kind = "ASSET" /\ GroupLine(c, p, group).applied = 0
    BY <2>1, <2>4, GroupLineIs
  <2> QED BY <2>2, <2>3, <2>5
<1>9. lines' = [l \in Lines |-> lines'[l]] /\ \A l \in Lines \ fresh : lines'[l] = lines[l]
  BY <1>7
<1>10. fresh \in SUBSET Lines /\ fresh # {} /\ \A a \in rows : at[a] \in fresh
  BY <1>7
<1> HIDE DEF fresh
<1>11. /\ lines' \in [Lines -> LineRecord] /\ \A k \in Lines : SoundLine(lines'[k])
       /\ \A k \in Lines : lines[k].state # "none" => SameLine(k) /\ SameQuantity(k)
       /\ \A k \in Lines : lines[k].state = "none" => lines'[k].applied = 0
       /\ LinesOf(p)' # {}
  <2>1. p \in Purchases
    BY <1>7
  <2> QED BY <1>8, <1>9, <1>10, <2>1, InsertedLines
<1>12. /\ purchases' \in [Purchases -> PurchaseRecord] /\ PurchasesKept
       /\ \A q \in Purchases : purchases[q].state # "none" => purchases'[q].named = purchases[q].named
  BY <1>2, <1>5, <1>7 DEF PurchaseRecord, PurchasesKept, States
<1>13. /\ \A a \in Assets : a \notin rows => assets'[a] = assets[a]
       /\ \A a \in rows : assets'[a] = [assets[a] EXCEPT !.line = at[a]]
  BY <1>7
<1>14. assets' \in [Assets -> AssetRecord]
  BY <1>2, <1>7 DEF AssetRecord
<1>15. TypeOK'
  BY <1>1, <1>4, <1>11, <1>12, <1>14 DEF TypeOK
<1>16. Modest
  BY <1>3, <1>4, <1>11, <1>12 DEF Modest
<1>17. PurchaseIdentified'
  <2>1. \A q \in Purchases : q # p => purchases'[q] = purchases[q]
    BY <1>2, <1>7
  <2> QED BY <1>11, <1>16, <2>1, IdentifiedStays
<1>18. AssetsSound
  <2>1. \A a \in rows : assets'[a].line = at[a]
    BY <1>2, <1>7, <1>13 DEF AssetRecord
  <2> QED BY <1>8, <1>10, <1>13, <2>1 DEF AssetsSound
<1>19. ASSUME NEW d \in Clients, NEW x, x = client[d] PROVE ByAssets(x)
  <2>1. SUFFICES ASSUME Replaces(x), NEW a \in Assets, assets'[a].state = "live",
                        assets'[a].line = x.line
                 PROVE  assets[a].state = "live" /\ assets[a].line = x.line
    BY DEF ByAssets
  <2>2. lines[x.line].state # "none"
    BY <1>19, <2>1, ReplacesLine
  <2>3. a \notin rows
    BY <1>2, <1>7, <1>13, <2>1, <2>2 DEF AssetRecord
  <2> QED BY <1>13, <2>1, <2>3
<1>20. \A d \in Clients : \A x : x = client[d] => ByAssets(x) /\ ByPurchases(x)
  BY <1>12, <1>19, SamePurchases DEF PurchasesKept
<1> QED BY <1>4, <1>15, <1>16, <1>17, <1>18, <1>20, ModestCommit

LEMMA CancelWriteInv ==
    ASSUME ProcurementInv, NEW c \in Clients, CancelWrite(c)
    PROVE  ProcurementInv'
<1> DEFINE l == client[c].line
           k == client[c].seen
<1>1. /\ client[c].op = "cancel" /\ client[c].pc = "write" /\ End(c) /\ mix' = mix
      /\ UNCHANGED <<purchases, purchaseOthers>>
      /\ lines' = [lines EXCEPT ![l].cancelled = k]
  BY DEF CancelWrite, Granted, bounds
<1>2. /\ consumables' = consumables /\ movements' = movements /\ seats' = seats
      /\ purchases' = purchases /\ assets' = assets /\ locations' = locations /\ models' = models
  BY <1>1 DEF purchaseOthers, stockTables
<1>3. TypeOK /\ Subject(client[c]) /\ Cancelling(client[c]) /\ Kept(c)
  BY <1>1, SoundTables, InvOf, Ends DEF Standing
<1>4. l \in Lines /\ k \in 0 .. lines[l].quantity
  BY <1>1, <1>3 DEF Subject, OnLines, Cancelling
<1>5. lines \in [Lines -> LineRecord] /\ \A i \in Lines : SoundLine(lines[i])
  BY <1>3 DEF TypeOK
<1> HIDE DEF l, k
<1>6. k \in 0 .. Ceiling /\ k <= lines[l].quantity
  <2>1. lines[l].quantity \in 1 .. Ceiling
    BY <1>4, <1>5 DEF LineRecord
  <2> QED BY <1>4, <2>1, Within
<1>7. lines' \in [Lines -> LineRecord]
  BY <1>1, <1>4, <1>5, <1>6 DEF LineRecord
<1>8. \A i \in Lines : SoundLine(lines'[i])
  BY <1>1, <1>4, <1>5, <1>6 DEF SoundLine, LineRecord
<1>9. \A i \in Lines : SameLine(i) /\ SameQuantity(i)
  BY <1>1, <1>5 DEF SameLine, SameQuantity, LineRecord
<1>10. TypeOK'
  BY <1>2, <1>3, <1>7, <1>8 DEF TypeOK
<1>11. Modest
  BY <1>1, <1>2, <1>9, UnusedLines DEF Modest, SameLine, PurchasesKept
<1>12. PurchaseIdentified' /\ AssetsSound
  BY <1>2, <1>11, IdentifiedStays, SameAssetsSound, SoundTables DEF PurchaseIdentified, LinesOf, SameLine
<1>13. \A d \in Clients : \A x : x = client[d] => ByAssets(x) /\ ByPurchases(x)
  BY <1>2, SameAssets, SamePurchases
<1> QED BY <1>3, <1>10, <1>11, <1>12, <1>13, ModestCommit
-----------------------------------------------------------------------------
LEMMA DeleteCommitInv ==
    ASSUME ProcurementInv, NEW c \in Clients, DeleteCommit(c)
    PROVE  ProcurementInv'
<1> DEFINE x == client[c].on
           S == StagedOf(c, "location")
           P == StagedOf(c, "purchase")
           A == StagedOf(c, "asset")
           h == Heir(c)
<1>1. /\ client[c].op = "delete location" /\ End(c) /\ mix' = mix
      /\ UNCHANGED <<stockTables, lines, models>>
      /\ locations' = [y \in Locations |->
           IF y = x THEN [locations[y] EXCEPT !.state = "deleted"]
           ELSE IF y \in S THEN [locations[y] EXCEPT !.parent = h] ELSE locations[y]]
      /\ purchases' = [p \in Purchases |->
           IF p \in P THEN [purchases[p] EXCEPT !.location = h] ELSE purchases[p]]
      /\ assets' = [a \in Assets |->
           IF a \in A THEN [assets[a] EXCEPT !.location = h] ELSE assets[a]]
  BY DEF DeleteCommit, Granted, bounds
<1>2. /\ consumables' = consumables /\ movements' = movements /\ seats' = seats
      /\ lines' = lines /\ models' = models
  BY <1>1 DEF stockTables
<1>3. TypeOK /\ Subject(client[c]) /\ Kept(c)
  BY <1>1, SoundTables, InvOf, Ends
<1>4. h \in Locations \cup {None}
  BY <1>1, <1>3 DEF Heir, Subject
<1>5. /\ purchases \in [Purchases -> PurchaseRecord] /\ assets \in [Assets -> AssetRecord]
      /\ locations \in [Locations -> LocationRecord]
  BY <1>3 DEF TypeOK
<1> HIDE DEF x, S, P, A, h
<1>6. locations' \in [Locations -> LocationRecord]
  BY <1>1, <1>4, <1>5 DEF LocationRecord, States
<1>7. /\ purchases' \in [Purchases -> PurchaseRecord] /\ PurchasesKept
      /\ \A p \in Purchases : /\ purchases'[p].state = purchases[p].state
                              /\ purchases'[p].named = purchases[p].named
  BY <1>1, <1>4, <1>5 DEF PurchaseRecord, PurchasesKept
<1>8. assets' \in [Assets -> AssetRecord] /\ AssetsSettle
  BY <1>1, <1>4, <1>5 DEF AssetRecord, AssetsSettle
<1>9. TypeOK'
  BY <1>2, <1>3, <1>6, <1>7, <1>8 DEF TypeOK
<1>10. Modest
  BY <1>1, <1>2, <1>7, SameLinesModest
<1>11. PurchaseIdentified' /\ AssetsSound
  BY <1>5, <1>7, <1>8, <1>10, IdentifiedStays, AssetsSettled DEF PurchaseRecord
<1>12. \A d \in Clients : \A y : y = client[d] => ByAssets(y) /\ ByPurchases(y)
  BY <1>7, <1>8, AssetsSettled, SamePurchases DEF PurchasesKept
<1> QED BY <1>3, <1>9, <1>10, <1>11, <1>12, ModestCommit

LEMMA ModelCommitInv ==
    ASSUME ProcurementInv, NEW c \in Clients, ModelCommit(c)
    PROVE  ProcurementInv'
<1> DEFINE m == client[c].on
           L == StagedOf(c, "line")
           A == StagedOf(c, "asset")
           h == Heir(c)
<1>1. /\ client[c].op = "delete model" /\ End(c) /\ mix' = mix
      /\ UNCHANGED <<stockTables, purchases, locations>>
      /\ models' = [models EXCEPT ![m] = "deleted"]
      /\ assets' = [a \in Assets |->
           IF a \in A THEN [assets[a] EXCEPT !.model = h] ELSE assets[a]]
      /\ lines' = [l \in Lines |->
           IF l \in L THEN [lines[l] EXCEPT !.model = h] ELSE lines[l]]
  BY DEF ModelCommit, Granted, bounds
<1>2. /\ consumables' = consumables /\ movements' = movements /\ seats' = seats
      /\ purchases' = purchases /\ locations' = locations
  BY <1>1 DEF stockTables
<1>3. TypeOK /\ Subject(client[c]) /\ Kept(c)
  BY <1>1, SoundTables, InvOf, Ends
<1>4. h \in Models \cup {None}
  BY <1>1, <1>3 DEF Heir, Subject
<1>5. /\ lines \in [Lines -> LineRecord] /\ assets \in [Assets -> AssetRecord]
      /\ models \in [Models -> {"live", "deleted"}] /\ \A l \in Lines : SoundLine(lines[l])
  BY <1>3 DEF TypeOK
<1> HIDE DEF m, L, A, h
<1>6. models' \in [Models -> {"live", "deleted"}]
  BY <1>1, <1>5
<1>7. lines' \in [Lines -> LineRecord]
  <2>1. ASSUME NEW row \in LineRecord PROVE [row EXCEPT !.model = h] \in LineRecord
    BY <1>4 DEF LineRecord
  <2>2. lines' = [l \in Lines |-> IF l \in L THEN [lines[l] EXCEPT !.model = h] ELSE lines[l]]
    BY <1>1
  <2> QED BY <1>5, <2>1, <2>2
<1>8. \A l \in Lines : SameLine(l) /\ SameQuantity(l) /\ lines'[l].cancelled = lines[l].cancelled
  BY <1>1, <1>5 DEF SameLine, SameQuantity, LineRecord
<1>9. \A l \in Lines : SoundLine(lines'[l])
  BY <1>5, <1>8 DEF SoundLine, SameLine, SameQuantity
<1>10. assets' \in [Assets -> AssetRecord] /\ AssetsSettle
  BY <1>1, <1>4, <1>5 DEF AssetRecord, AssetsSettle
<1>11. TypeOK'
  BY <1>2, <1>3, <1>6, <1>7, <1>9, <1>10 DEF TypeOK
<1>12. Modest
  BY <1>1, <1>2, <1>8, UnusedLines DEF Modest, SameLine, PurchasesKept
<1>13. PurchaseIdentified' /\ AssetsSound
  BY <1>2, <1>10, <1>12, IdentifiedStays, AssetsSettled, SoundTables DEF PurchaseIdentified, LinesOf, SameLine
<1>14. \A d \in Clients : \A y : y = client[d] => ByAssets(y) /\ ByPurchases(y)
  BY <1>2, <1>10, AssetsSettled, SamePurchases
<1> QED BY <1>3, <1>11, <1>12, <1>13, <1>14, ModestCommit
-----------------------------------------------------------------------------
(***************************************************************************)
(* The write of one line: whoever relies on it holds its row or its purchase. *)
(***************************************************************************)
LEMMA LineWritten ==
    ASSUME ProcurementInv, NEW c \in Clients, NEW d \in Clients, d # c, NEW x, x = client[d],
           NEW l \in Lines, lines[l].state # "none", lines'[l].state # "none",
           lines'[l].purchase = lines[l].purchase,
           \A k \in Lines : k # l => lines'[k] = lines[k],
           \/ Whole(PurchaseOf(l)) \subseteq client[c].locks
           \/ lines'[l].state = lines[l].state /\ lines'[l].kind = lines[l].kind,
           \/ Held(PurchaseOf(l)) \subseteq client[c].locks /\ LineRow(l) \subseteq client[c].locks
           \/ lines'[l].applied = lines[l].applied,
           \/ LineRow(l) \subseteq client[c].locks
           \/ lines'[l].item = lines[l].item /\ lines'[l].quantity = lines[l].quantity
    PROVE  ByLines(x)
<1>1. Subject(x) /\ Standing(x) /\ LocksExclude
  BY InvOf, SoundTables
<1>2. PurchaseOf(l) \in Purchases
  BY TypesOf DEF PurchaseOf, LineRecord
<1>3. \A k \in Lines : lines'[k].purchase = lines[k].purchase
  OBVIOUS
<1>4. LinesKept
  BY DEF LinesKept
<1>5. ASSUME \/ Held(PurchaseOf(l)) \subseteq client[d].locks
             \/ Whole(PurchaseOf(l)) \subseteq client[d].locks
      PROVE  lines'[l].state = lines[l].state /\ lines'[l].kind = lines[l].kind
  BY <1>1, <1>2, <1>5, OneWhole
<1>6. ASSUME LineRow(l) \subseteq client[d].locks
      PROVE  /\ lines'[l].applied = lines[l].applied /\ lines'[l].item = lines[l].item
             /\ lines'[l].quantity = lines[l].quantity
  BY <1>1, <1>6, OneLine
<1>7. ASSUME Whole(PurchaseOf(l)) \subseteq client[d].locks
      PROVE  lines'[l].applied = lines[l].applied
  BY <1>1, <1>2, <1>7, OneWhole
<1>8. x.op = "move" /\ x.pc \in Counting /\ x.line # None => Takes(x.line, "CONSUMABLE")'
  <2> SUFFICES ASSUME x.op = "move", x.pc \in Counting, x.line # None
               PROVE  Takes(x.line, "CONSUMABLE")'
    OBVIOUS
  <2>1. /\ x.line \in Lines /\ Takes(x.line, "CONSUMABLE")
        /\ Held(PurchaseOf(x.line)) \subseteq client[d].locks
    BY <1>1 DEF Subject, Standing, Moving
  <2>2. CASE x.line = l
    BY <1>5, <2>1, <2>2 DEF Takes
  <2>3. CASE x.line # l
    BY <2>1, <2>3 DEF Takes
  <2> QED BY <2>2, <2>3
<1>9. x.op = "update purchase" /\ x.change = "clear" /\ x.pc = "write" => LinesOf(x.on)' # {}
  <2> SUFFICES ASSUME x.op = "update purchase", x.change = "clear", x.pc = "write"
               PROVE  LinesOf(x.on)' # {}
    OBVIOUS
  <2>1. Whole(x.on) \subseteq client[d].locks /\ LinesOf(x.on) # {}
    BY <1>1 DEF Standing, Clearing
  <2>2. PICK k \in Lines : lines[k].state = "live" /\ lines[k].purchase = x.on
    BY <2>1 DEF LinesOf
  <2>3. lines'[k].state = "live" /\ lines'[k].purchase = x.on
    BY <1>3, <1>5, <2>1, <2>2 DEF PurchaseOf
  <2> QED BY <2>3 DEF LinesOf
<1>10. x.op = "remove line" /\ x.pc = "write" =>
        /\ lines'[x.line].applied = 0
        /\ LinesOf(PurchaseOf(x.line)) \ {x.line} \subseteq LinesOf(PurchaseOf(x.line))'
  <2> SUFFICES ASSUME x.op = "remove line", x.pc = "write"
               PROVE  /\ lines'[x.line].applied = 0
                      /\ LinesOf(PurchaseOf(x.line)) \ {x.line} \subseteq LinesOf(PurchaseOf(x.line))'
    OBVIOUS
  <2>1. /\ x.line \in Lines /\ lines[x.line].applied = 0
        /\ Whole(PurchaseOf(x.line)) \subseteq client[d].locks
    BY RemovingLines
  <2>2. lines'[x.line].applied = 0
    BY <1>7, <2>1
  <2>3. PurchaseOf(x.line)' = PurchaseOf(x.line)
    BY <1>3, <2>1 DEF PurchaseOf
  <2>4. LinesOf(PurchaseOf(x.line))' = {k \in Lines : lines'[k].state = "live" /\ lines'[k].purchase = PurchaseOf(x.line)}
    BY <2>3 DEF LinesOf
  <2>5. \A k \in Lines : lines[k].state = "live" /\ lines[k].purchase = PurchaseOf(x.line) =>
                           lines'[k].state = "live"
    BY <1>5, <2>1 DEF PurchaseOf
  <2> QED BY <1>3, <2>2, <2>4, <2>5 DEF LinesOf
<1>11. x.op = "update line" /\ x.pc = "write" =>
         /\ lines'[x.line].state = lines[x.line].state /\ lines'[x.line].kind = lines[x.line].kind
         /\ lines'[x.line].item = lines[x.line].item /\ lines'[x.line].applied = lines[x.line].applied
  <2> SUFFICES ASSUME x.op = "update line", x.pc = "write"
               PROVE  /\ lines'[x.line].state = lines[x.line].state
                      /\ lines'[x.line].kind = lines[x.line].kind
                      /\ lines'[x.line].item = lines[x.line].item
                      /\ lines'[x.line].applied = lines[x.line].applied
    OBVIOUS
  <2>1. /\ x.line \in Lines /\ LineRow(x.line) \subseteq client[d].locks
        /\ \/ Held(PurchaseOf(x.line)) \subseteq client[d].locks
           \/ Whole(PurchaseOf(x.line)) \subseteq client[d].locks
    BY <1>1 DEF Subject, OnLines, Standing, Updating, ShareOf
  <2> QED BY <1>5, <1>6, <2>1
<1>12. x.op = "cancel" /\ x.pc = "write" => lines'[x.line].quantity = lines[x.line].quantity
  <2>1. x.op = "cancel" /\ x.pc = "write" => x.line \in Lines /\ LineRow(x.line) \subseteq client[d].locks
    BY <1>1 DEF Subject, OnLines, Standing, Cancelling
  <2> QED BY <1>6, <2>1
<1>13. x.op = "apply seats" /\ x.pc # "purchase" => lines'[x.line].state = "live"
  <2>1. x.op = "apply seats" /\ x.pc # "purchase" =>
          /\ x.line \in Lines /\ lines[x.line].state = "live"
          /\ Held(PurchaseOf(x.line)) \subseteq client[d].locks
    BY <1>1 DEF Subject, OnLines, Standing, Applying
  <2> QED BY <1>5, <2>1
<1>14. x.op = "apply seats" /\ x.pc \in {"application", "write"} =>
         /\ lines'[x.line].kind = lines[x.line].kind /\ lines'[x.line].item = lines[x.line].item
         /\ lines'[x.line].applied = lines[x.line].applied
  <2>1. x.op = "apply seats" /\ x.pc \in {"application", "write"} =>
          /\ x.line \in Lines /\ LineRow(x.line) \subseteq client[d].locks
          /\ Held(PurchaseOf(x.line)) \subseteq client[d].locks
    BY <1>1 DEF Subject, OnLines, Standing, Applying
  <2> QED BY <1>5, <1>6, <2>1
<1>15. x.op = "link" /\ x.pc # "purchase" => Takes(x.line, "ASSET")'
  <2> SUFFICES ASSUME x.op = "link", x.pc # "purchase" PROVE Takes(x.line, "ASSET")'
    OBVIOUS
  <2>1. /\ x.line \in Lines /\ Takes(x.line, "ASSET")
        /\ Held(PurchaseOf(x.line)) \subseteq client[d].locks
    BY <1>1 DEF Subject, OnLines, Standing, Linking
  <2>2. CASE x.line = l
    BY <1>5, <2>1, <2>2 DEF Takes
  <2>3. CASE x.line # l
    BY <2>1, <2>3 DEF Takes
  <2> QED BY <2>2, <2>3
<1> QED BY <1>4, <1>8, <1>9, <1>10, <1>11, <1>12, <1>13, <1>14, <1>15 DEF ByLines

LEMMA LineUndisturbed ==
    ASSUME ProcurementInv, NEW d \in Clients, NEW x, x = client[d], ByLines(x), BySeats(x),
           movements' = movements, consumables' = consumables, purchases' = purchases,
           assets' = assets
    PROVE  Undisturbed(x)
<1>1. ByMovements(x) /\ ByStock(x) /\ ByAssets(x)
  BY SameMovements, SameAssets DEF ByStock
<1>2. ByPurchases(x)
  BY SamePurchases
<1>3. PurchaseKept(x)
  BY KnownPurchases DEF PurchasesKept
<1> QED BY <1>1, <1>2, <1>3 DEF Undisturbed

LEMMA RemoveLineWriteInv ==
    ASSUME ProcurementInv, NEW c \in Clients, RemoveLineWrite(c)
    PROVE  ProcurementInv'
<1> DEFINE l == client[c].line
           p == PurchaseOf(l)
<1>1. /\ client[c].op = "remove line" /\ client[c].pc = "write" /\ End(c) /\ mix' = mix
      /\ UNCHANGED <<purchases, purchaseOthers>>
      /\ lines' = [lines EXCEPT ![l].state = "deleted"]
  BY DEF RemoveLineWrite, Granted, bounds
<1>2. /\ consumables' = consumables /\ movements' = movements /\ seats' = seats
      /\ purchases' = purchases /\ assets' = assets /\ locations' = locations /\ models' = models
  BY <1>1 DEF purchaseOthers, stockTables
<1>3. TypeOK /\ Subject(client[c]) /\ Removing(client[c]) /\ Kept(c)
  BY <1>1, SoundTables, InvOf, Ends DEF Standing
<1>4. /\ l \in Lines /\ lines[l].state # "none" /\ Whole(p) \subseteq client[c].locks
      /\ Untouched(l) /\ (purchases[p].named \/ LinesOf(p) \ {l} # {})
  BY <1>1, <1>3 DEF Subject, OnLines, Removing
<1>5. lines \in [Lines -> LineRecord] /\ \A i \in Lines : SoundLine(lines[i])
  BY <1>3 DEF TypeOK
<1> HIDE DEF l
<1>6. lines' \in [Lines -> LineRecord]
  <2>1. ASSUME NEW row \in LineRecord PROVE [row EXCEPT !.state = "deleted"] \in LineRecord
    BY DEF LineRecord, States
  <2>2. lines' = [lines EXCEPT ![l] = [lines[l] EXCEPT !.state = "deleted"]]
    BY <1>1
  <2> QED BY <1>4, <1>5, <2>1, <2>2
<1>7. /\ \A k \in Lines : k # l => lines'[k] = lines[k]
      /\ lines'[l].state = "deleted" /\ lines'[l].purchase = lines[l].purchase
      /\ lines'[l].kind = lines[l].kind /\ lines'[l].item = lines[l].item
      /\ lines'[l].applied = lines[l].applied /\ lines'[l].quantity = lines[l].quantity
      /\ lines'[l].cancelled = lines[l].cancelled
  BY <1>1, <1>4, <1>5 DEF LineRecord
<1>8. \A i \in Lines : SoundLine(lines'[i])
  BY <1>5, <1>7 DEF SoundLine
<1>9. TypeOK'
  BY <1>2, <1>3, <1>6, <1>8 DEF TypeOK
<1>10. StockIsLedger' /\ ReturnsWithinDelivery' /\ CountsUnits'
  BY <1>2, SoundTables, StockTablesStay
<1>11. SeatsAreApplied'
  <2>1. \A k \in Lines : lines'[k].applied = lines[k].applied /\ lines'[k].item = lines[k].item
    BY <1>7
  <2> QED BY <1>1, <1>2, <2>1, SoundTables, SeatsStay
<1>12. PurchaseIdentified'
  <2>1. \A q \in Purchases : LinesOf(q) \ {l} \subseteq LinesOf(q)'
    BY <1>7 DEF LinesOf
  <2>2. \A q \in Purchases : q # p => LinesOf(q) \ {l} = LinesOf(q)
    BY DEF LinesOf, PurchaseOf
  <2>3. \A q \in Purchases : purchases[q].state # "none" => purchases[q].named \/ LinesOf(q) # {}
    BY SoundTables DEF PurchaseIdentified
  <2> QED BY <1>2, <1>4, <2>1, <2>2, <2>3 DEF PurchaseIdentified
<1>13. ReceiptsMatchLine'
  <2>1. \A k \in Lines, kind \in Kinds : Takes(k, kind) /\ ~ Untouched(k) => Takes(k, kind)'
    BY <1>4, <1>7 DEF Takes
  <2>2. \A k \in Lines : lines'[k].applied > 0 => lines[k].applied > 0
    BY <1>7
  <2> QED BY <1>1, <1>2, <2>1, <2>2, ReceiptsStay
<1>14. TablesSound'
  BY <1>9, <1>10, <1>11, <1>12, <1>13 DEF TablesSound
<1>15. ASSUME NEW d \in Clients \ {c}, NEW x, x = client[d] PROVE Undisturbed(x)
  <2>1. ByLines(x)
    <3>1. d \in Clients /\ d # c /\ x = client[d]
      BY <1>15
    <3> QED BY <1>4, <1>7, <3>1, LineWritten
  <2>2. BySeats(x)
    BY <1>2 DEF BySeats
  <2> QED BY <1>2, <1>15, <2>1, <2>2, LineUndisturbed
<1> QED BY <1>1, <1>3, <1>14, <1>15, Written

LEMMA UpdateLineWriteInv ==
    ASSUME ProcurementInv, NEW c \in Clients, UpdateLineWrite(c)
    PROVE  ProcurementInv'
<1> DEFINE l == client[c].line
           p == PurchaseOf(l)
<1>0. PICK row \in client[c].staged : lines' = [lines EXCEPT ![l] = row]
  BY DEF UpdateLineWrite
<1>1. /\ client[c].op = "update line" /\ client[c].pc = "write" /\ End(c) /\ mix' = mix
      /\ UNCHANGED <<purchases, purchaseOthers>>
  BY DEF UpdateLineWrite, Granted, bounds
<1>2. /\ consumables' = consumables /\ movements' = movements /\ seats' = seats
      /\ purchases' = purchases /\ assets' = assets /\ locations' = locations /\ models' = models
  BY <1>1 DEF purchaseOthers, stockTables
<1>3. TypeOK /\ Subject(client[c]) /\ Updating(client[c]) /\ Kept(c)
  BY <1>1, SoundTables, InvOf, Ends DEF Standing
<1>4. /\ l \in Lines /\ lines[l].state # "none" /\ LineRow(l) \subseteq client[c].locks
      /\ ShareOf(client[c]) \subseteq client[c].locks /\ NewRow(client[c], row)
  BY <1>1, <1>3 DEF Subject, OnLines, Updating
<1>5. lines \in [Lines -> LineRecord] /\ \A i \in Lines : SoundLine(lines[i])
  BY <1>3 DEF TypeOK
<1>6. /\ row \in LineRecord /\ SoundLine(row) /\ row.state = "live" /\ lines[l].state = "live"
      /\ row.purchase = lines[l].purchase /\ row.applied = lines[l].applied
      /\ row.kind # lines[l].kind => Whole(p) \subseteq client[c].locks /\ Untouched(l)
      /\ row.item # lines[l].item => lines[l].applied = 0 \/ "map line" \in mix
  BY <1>4 DEF NewRow, ShareOf
<1> HIDE DEF l
<1>7. lines'[l] = row /\ \A k \in Lines : k # l => lines'[k] = lines[k]
  BY <1>0, <1>4, <1>5
<1>8. lines' \in [Lines -> LineRecord] /\ \A i \in Lines : SoundLine(lines'[i])
  <2>1. lines' \in [Lines -> LineRecord]
    BY <1>0, <1>5, <1>6
  <2> QED BY <2>1, <1>5, <1>6, <1>7
<1>9. TypeOK'
  BY <1>2, <1>3, <1>8 DEF TypeOK
<1>10. StockIsLedger' /\ ReturnsWithinDelivery' /\ CountsUnits'
  BY <1>2, SoundTables, StockTablesStay
<1>11. SeatsAreApplied'
  <2>1. \A k \in Lines : /\ lines'[k].applied = lines[k].applied
                         /\ \/ lines'[k].item = lines[k].item \/ lines[k].applied = 0
                            \/ "map line" \in mix
    BY <1>6, <1>7
  <2> QED BY <1>1, <1>2, <2>1, SoundTables, SeatsStay
<1>12. PurchaseIdentified'
  <2>1. \A q \in Purchases : LinesOf(q)' = LinesOf(q)
    BY <1>6, <1>7 DEF LinesOf
  <2> QED BY <1>2, <2>1, SoundTables DEF PurchaseIdentified
<1>13. ReceiptsMatchLine'
  <2>1. \A k \in Lines, kind \in Kinds : Takes(k, kind) /\ ~ Untouched(k) => Takes(k, kind)'
    BY <1>6, <1>7 DEF Takes
  <2>2. \A k \in Lines : lines'[k].applied > 0 => lines[k].applied > 0
    BY <1>6, <1>7
  <2> QED BY <1>1, <1>2, <2>1, <2>2, ReceiptsStay
<1>14. TablesSound'
  BY <1>9, <1>10, <1>11, <1>12, <1>13 DEF TablesSound
<1>15. ASSUME NEW d \in Clients \ {c}, NEW x, x = client[d] PROVE Undisturbed(x)
  <2>1. ByLines(x)
    <3>1. d \in Clients /\ d # c /\ x = client[d]
      BY <1>15
    <3>2. lines'[l].state # "none" /\ lines'[l].purchase = lines[l].purchase
      BY <1>6, <1>7
    <3>3. \/ Whole(PurchaseOf(l)) \subseteq client[c].locks
          \/ lines'[l].state = lines[l].state /\ lines'[l].kind = lines[l].kind
      BY <1>6, <1>7
    <3>4. lines'[l].applied = lines[l].applied
      BY <1>6, <1>7
    <3> QED BY <1>4, <1>7, <3>1, <3>2, <3>3, <3>4, LineWritten
  <2>2. BySeats(x)
    BY <1>2 DEF BySeats
  <2> QED BY <1>2, <1>15, <2>1, <2>2, LineUndisturbed
<1> QED BY <1>1, <1>3, <1>14, <1>15, Written
-----------------------------------------------------------------------------
\* Seats that a line applies more are seats its application has more.
LEMMA SeatsGrow ==
    ASSUME ProcurementInv, mix' = mix, NEW l \in Lines, lines[l].item \in Apps,
           NEW n \in 1 .. Ceiling, seats[lines[l].item] + n <= Ceiling,
           lines[l].applied + n <= Ceiling,
           lines' = [lines EXCEPT ![l].applied = @ + n],
           seats' = [seats EXCEPT ![lines[l].item] = seats[lines[l].item] + n]
    PROVE  /\ lines[l].applied + n \in 0 .. Ceiling /\ seats[lines[l].item] + n \in 0 .. Ceiling
           /\ SeatsAreApplied'
<1> DEFINE app == lines[l].item
           f == [k \in Lines |-> lines[k].applied]
           g == [k \in Lines |-> lines'[k].applied]
           more == lines[l].applied + n
<1>1. /\ lines \in [Lines -> LineRecord] /\ seats \in [Apps -> 0 .. Ceiling] /\ SeatsAreApplied
      /\ IsFiniteSet(Lines) /\ IsFiniteSet(Apps) /\ Ceiling \in Nat
  BY SoundTables, ProcurementAssumption DEF TypeOK
<1>2. Bounded(Lines, f) /\ Bounded(Apps, seats)
  BY <1>1 DEF LineRecord, Bounded
<1>6. f[l] = lines[l].applied /\ f[l] \in Nat /\ n \in Nat /\ seats[app] \in Nat
  BY <1>1, <1>2 DEF Bounded
<1>7. more \in 0 .. Ceiling /\ seats[app] + n \in 0 .. Ceiling
  <2>1. seats[app] + n <= Ceiling /\ lines[l].applied + n <= Ceiling
    OBVIOUS
  <2> HIDE DEF app, f
  <2> QED BY <1>1, <1>6, <2>1
<1>8. /\ \A k \in Lines : k # l => lines'[k] = lines[k]
      /\ lines'[l].applied = more /\ lines'[l].item = lines[l].item
  BY <1>1 DEF LineRecord
<1>9. \A k \in Lines : lines'[k].item = lines[k].item
  BY <1>8
<1>3. Bounded(Lines, g) /\ Adds(Lines, l, n, f, g)
  <2> HIDE DEF more
  <2>1. \A k \in Lines : k # l => g[k] = f[k]
    BY <1>8
  <2>2. g[l] = more
    BY <1>8
  <2>3. g[l] = f[l] + n
    BY <1>6, <2>2 DEF more
  <2> HIDE DEF f, g
  <2> QED BY <1>2, <1>7, <2>1, <2>2, <2>3 DEF Bounded, Adds, Agree
<1>4. Bounded(Apps, seats') /\ Adds(Apps, app, n, seats, seats')
  <2> DEFINE to == seats[app] + n
  <2>1. seats' = [seats EXCEPT ![app] = to] /\ to \in 0 .. Ceiling
    BY <1>7
  <2> HIDE DEF to
  <2>2. seats'[app] = to /\ \A a \in Apps : a # app => seats'[a] = seats[a]
    BY <1>1, <2>1
  <2>3. Bounded(Apps, seats')
    BY <1>2, <2>1, <2>2 DEF Bounded
  <2> QED BY <2>2, <2>3 DEF to, Adds, Agree
<1> HIDE DEF f, g, app, more
<1>5. ASSUME NEW S \in SUBSET Lines, l \in S PROVE Sum(S, g) = Sum(S, f) + n
  <2>1. IsFiniteSet(S)
    BY <1>1, <1>5, FS_Subset
  <2>2. Bounded(S, f) /\ Bounded(S, g) /\ Adds(S, l, n, f, g)
    BY <1>2, <1>3 DEF Bounded, Adds, Agree
  <2> QED BY <1>5, <1>6, <2>1, <2>2, SumAdds
<1>10. ASSUME NEW S \in SUBSET Lines, l \notin S PROVE Sum(S, g) = Sum(S, f)
  <2>1. Agree(S, f, g)
    BY <1>3, <1>10 DEF Adds, Agree
  <2> QED BY <2>1, SumSame
<1>11. SeatsInTotal'
  <2>1. Sum(Lines, g) = Sum(Lines, f) + n
    BY <1>5
  <2>2. Sum(Apps, seats') = Sum(Apps, seats) + n
    <3>1. app \in Apps
      BY DEF app
    <3> QED BY <1>1, <1>2, <1>4, <1>6, <3>1, SumAdds
  <2>3. Sum(Apps, seats) = Sum(Lines, f)
    BY <1>1 DEF SeatsAreApplied, SeatsInTotal, f
  <2> QED BY <2>1, <2>2, <2>3 DEF SeatsInTotal, g
<1>12. ASSUME "map line" \notin mix, NEW other \in Apps
       PROVE  seats'[other] = Sum({k \in Lines : lines'[k].item = other}, g)
  <2> DEFINE S == {k \in Lines : lines[k].item = other}
  <2>1. seats[other] = Sum(S, f)
    BY <1>1, <1>12 DEF SeatsAreApplied, SeatsPerApplication, f
  <2>2. {k \in Lines : lines'[k].item = other} = S /\ S \in SUBSET Lines
    BY <1>9
  <2>3. l \in S <=> other = app
    BY DEF app
  <2>4. CASE other = app
    <3>1. Sum(S, g) = Sum(S, f) + n
      BY <1>5, <2>2, <2>3, <2>4
    <3> QED BY <1>4, <2>1, <2>2, <2>4, <3>1 DEF Adds
  <2>5. CASE other # app
    <3>1. Sum(S, g) = Sum(S, f)
      BY <1>10, <2>2, <2>3, <2>5
    <3> QED BY <1>4, <2>1, <2>2, <2>5, <3>1 DEF Adds, Agree
  <2> QED BY <2>4, <2>5
<1> QED BY <1>7, <1>11, <1>12 DEF SeatsAreApplied, SeatsPerApplication, app, more, g

LEMMA ApplyWriteInv ==
    ASSUME ProcurementInv, NEW c \in Clients, ApplyWrite(c)
    PROVE  ProcurementInv'
<1> DEFINE l == client[c].line
           n == client[c].n
           app == lines[l].item
<1>1. /\ client[c].op = "apply seats" /\ client[c].pc = "write" /\ End(c) /\ mix' = mix
      /\ consumables' = consumables /\ movements' = movements
      /\ purchases' = purchases /\ assets' = assets /\ locations' = locations /\ models' = models
      /\ seats' = [seats EXCEPT ![app] = client[c].seen]
      /\ lines' = [lines EXCEPT ![l].applied = @ + n]
  BY DEF ApplyWrite, Granted, bounds
<1>2. TypeOK /\ Subject(client[c]) /\ Applying(client[c]) /\ Kept(c) /\ LocksExclude
  BY <1>1, SoundTables, InvOf, Ends DEF Standing
<1>3. /\ l \in Lines /\ n \in 1 .. Ceiling /\ lines[l].state = "live" /\ lines[l].kind = "LICENSE"
      /\ app \in Apps /\ Held(PurchaseOf(l)) \subseteq client[c].locks
      /\ LineRow(l) \subseteq client[c].locks /\ AppRow(app) \subseteq client[c].locks
      /\ client[c].seen = seats[app] + n /\ client[c].seen <= Ceiling
      /\ lines[l].applied + n <= Ceiling
  BY <1>1, <1>2 DEF Subject, OnLines, Applying
<1>4. /\ lines \in [Lines -> LineRecord] /\ \A i \in Lines : SoundLine(lines[i])
      /\ seats \in [Apps -> 0 .. Ceiling]
  BY <1>2 DEF TypeOK
<1>5. /\ lines[l].applied + n \in 0 .. Ceiling /\ seats[app] + n \in 0 .. Ceiling
      /\ SeatsAreApplied'
  <2> HIDE DEF l, n
  <2> QED BY <1>1, <1>3, SeatsGrow
<1> HIDE DEF l, n
<1>6. lines' \in [Lines -> LineRecord]
  <2> DEFINE k == lines[l].applied + n
  <2>1. lines' = [lines EXCEPT ![l].applied = k] /\ k \in 0 .. Ceiling
    BY <1>1, <1>3, <1>4, <1>5 DEF LineRecord
  <2> HIDE DEF k
  <2> QED BY <1>3, <1>4, <2>1 DEF LineRecord
<1>7. /\ \A k \in Lines : k # l => lines'[k] = lines[k]
      /\ lines'[l].state = "live" /\ lines'[l].purchase = lines[l].purchase
      /\ lines'[l].kind = "LICENSE" /\ lines'[l].item = lines[l].item
      /\ lines'[l].quantity = lines[l].quantity /\ lines'[l].cancelled = lines[l].cancelled
  BY <1>1, <1>3, <1>4 DEF LineRecord
<1>8. \A i \in Lines : SoundLine(lines'[i])
  BY <1>3, <1>4, <1>7 DEF SoundLine
<1>9. TypeOK'
  <2>1. seats' \in [Apps -> 0 .. Ceiling]
    <3> DEFINE to == seats[app] + n
    <3>1. seats' = [seats EXCEPT ![app] = to] /\ to \in 0 .. Ceiling
      BY <1>1, <1>3, <1>5
    <3> HIDE DEF to
    <3> QED BY <1>4, <3>1
  <2> QED BY <1>1, <1>2, <1>6, <1>8, <2>1 DEF TypeOK
<1>10. StockIsLedger' /\ ReturnsWithinDelivery' /\ CountsUnits'
  BY <1>1, SoundTables, StockTablesStay
<1>11. PurchaseIdentified'
  <2>1. \A q \in Purchases : LinesOf(q)' = LinesOf(q)
    BY <1>3, <1>7 DEF LinesOf
  <2> QED BY <1>1, <2>1, SoundTables DEF PurchaseIdentified
<1>12. ReceiptsMatchLine'
  <2>1. \A k \in Lines, kind \in Kinds : Takes(k, kind) /\ ~ Untouched(k) => Takes(k, kind)'
    BY <1>3, <1>7 DEF Takes
  <2>2. \A k \in Lines : lines'[k].applied > 0 => lines[k].applied > 0 \/ Takes(k, "LICENSE")'
    BY <1>7 DEF Takes
  <2> QED BY <1>1, <2>1, <2>2, ReceiptsStay
<1>13. TablesSound'
  BY <1>5, <1>9, <1>10, <1>11, <1>12 DEF TablesSound
<1>14. ASSUME NEW d \in Clients \ {c}, NEW x, x = client[d] PROVE Undisturbed(x)
  <2>1. ByLines(x)
    <3>1. d \in Clients /\ d # c /\ x = client[d]
      BY <1>14
    <3> QED BY <1>3, <1>7, <3>1, LineWritten
  <2>2. BySeats(x)
    <3> SUFFICES ASSUME x.op = "apply seats", x.pc = "write"
                 PROVE  seats'[lines[x.line].item] = seats[lines[x.line].item]
      BY DEF BySeats
    <3>1. Applying(x)
      BY <1>14, InvOf DEF Standing
    <3>2. lines[x.line].item \in Apps /\ AppRow(lines[x.line].item) \subseteq client[d].locks
      BY <1>14, <3>1 DEF Applying
    <3>3. lines[x.line].item # app
      BY <1>2, <1>3, <1>14, <3>2, OneApp
    <3> QED BY <1>1, <1>4, <3>2, <3>3
  <2> QED BY <1>1, <1>14, <2>1, <2>2, LineUndisturbed
<1> QED BY <1>1, <1>2, <1>13, <1>14, Written
-----------------------------------------------------------------------------
(***************************************************************************)
(* The ledger grows by one row.                                              *)
(***************************************************************************)
LEMMA MovementAppended ==
    ASSUME ProcurementInv, NEW row \in MovementRecord, movements' = Append(movements, row)
    PROVE  /\ movements' \in Seq(MovementRecord) /\ Len(movements') = Len(movements) + 1
           /\ Len(movements) \in Nat /\ DOMAIN movements = 1 .. Len(movements)
           /\ DOMAIN movements' = DOMAIN movements \cup {Len(movements) + 1}
           /\ Len(movements) + 1 \notin DOMAIN movements
           /\ \A m \in DOMAIN movements : movements'[m] = movements[m]
           /\ movements'[Len(movements) + 1] = row
<1>1. /\ movements \in Seq(MovementRecord) /\ Len(movements) \in Nat
      /\ DOMAIN movements = 1 .. Len(movements)
  BY TypesOf DEF TypeOK
<1> DEFINE N == Len(movements)
<1>2. /\ movements' \in Seq(MovementRecord) /\ Len(movements') = N + 1
      /\ \A m \in 1 .. N : movements'[m] = movements[m]
      /\ movements'[N + 1] = row
  BY <1>1, AppendProperties
<1>3. DOMAIN movements' = 1 .. (N + 1)
  BY <1>2, LenProperties
<1>4. 1 .. (N + 1) = (1 .. N) \cup {N + 1} /\ N + 1 \notin 1 .. N
  BY <1>1
<1> HIDE DEF N
<1> QED BY <1>1, <1>2, <1>3, <1>4 DEF N

LEMMA ReturnedGrows ==
    ASSUME ProcurementInv, NEW row \in MovementRecord, movements' = Append(movements, row),
           NEW delivery
    PROVE  /\ row.of = delivery => Returned(delivery)' = Returned(delivery) + row.n
           /\ row.of # delivery => Returned(delivery)' = Returned(delivery)
<1> DEFINE N == Len(movements)
           S == {m \in DOMAIN movements : movements[m].of = delivery}
           T == {m \in DOMAIN movements' : movements'[m].of = delivery}
           f == [m \in DOMAIN movements |-> movements[m].n]
           g == [m \in DOMAIN movements' |-> movements'[m].n]
<1>1. Returned(delivery) = Sum(S, f) /\ Returned(delivery)' = Sum(T, g)
  BY DEF Returned, Quantity
<1>2. /\ N \in Nat /\ DOMAIN movements = 1 .. N
      /\ DOMAIN movements' = DOMAIN movements \cup {N + 1} /\ N + 1 \notin DOMAIN movements
      /\ \A m \in DOMAIN movements : movements'[m] = movements[m]
      /\ movements'[N + 1] = row
  BY MovementAppended
<1>3. Bounded(S, f) /\ Agree(S, f, g)
  BY <1>2, TypesOf DEF MovementRecord, Bounded, Agree
<1>4. IsFiniteSet(S) /\ N + 1 \notin S
  <2>1. IsFiniteSet(1 .. N)
    BY <1>2, FS_Interval
  <2> QED BY <1>2, <2>1, FS_Subset
<1>5. g[N + 1] = row.n /\ row.n \in Nat
  BY <1>2, CeilingNat DEF MovementRecord
<1>6. CASE row.of = delivery
  <2>1. T = S \cup {N + 1}
    BY <1>2, <1>6
  <2>2. Sum(S \cup {N + 1}, g) = Sum(S, f) + g[N + 1]
    <3> DEFINE e == N + 1
    <3>1. e \notin S /\ g[e] \in Nat
      BY <1>4, <1>5
    <3> HIDE DEF S, f, g, e
    <3>2. Sum(S \cup {e}, g) = Sum(S, f) + g[e]
      BY <1>3, <1>4, <3>1, SumMore
    <3> QED BY <3>2 DEF e
  <2> HIDE DEF S, T, f, g, N
  <2> QED BY <1>1, <1>5, <1>6, <2>1, <2>2
<1>7. CASE row.of # delivery
  <2>1. T = S
    BY <1>2, <1>7
  <2> HIDE DEF S, T, f, g, N
  <2>2. Sum(S, f) = Sum(S, g)
    BY <1>3, SumSame
  <2> QED BY <1>1, <1>7, <2>1, <2>2
<1> QED BY <1>6, <1>7

\* Nothing gives back a movement yet to come.
LEMMA NothingReturned ==
    ASSUME ProcurementInv
    PROVE  Returned(Len(movements) + 1) = 0
<1> DEFINE N == Len(movements)
           S == {m \in DOMAIN movements : movements[m].of = N + 1}
<1>1. ASSUME NEW m \in DOMAIN movements PROVE movements[m].of # N + 1
  <2>1. N \in Nat /\ m \in 1 .. N /\ movements[m].of \in Nat /\ movements[m].of < m
    BY TypesOf DEF TypeOK, MovementRecord
  <2> DEFINE k == movements[m].of
  <2> HIDE DEF k, N
  <2> QED BY <2>1 DEF k
<1>2. S = {}
  BY <1>1
<1>3. Returned(N + 1) = Sum(S, Quantity)
  BY DEF Returned
<1> HIDE DEF S, N
<1> QED BY <1>2, <1>3, SumNone DEF N

LEMMA LedgerGrows ==
    ASSUME ProcurementInv, NEW row \in MovementRecord, movements' = Append(movements, row),
           NEW level \in 0 .. Ceiling, level = After(consumables[row.item].stock, row),
           consumables' = [consumables EXCEPT ![row.item].stock = level]
    PROVE  StockIsLedger'
<1> DEFINE N == Len(movements)
<1>1. /\ N \in Nat /\ DOMAIN movements = 1 .. N /\ Len(movements') = N + 1
      /\ DOMAIN movements' = DOMAIN movements \cup {N + 1} /\ N + 1 \notin DOMAIN movements
      /\ \A m \in DOMAIN movements : movements'[m] = movements[m]
      /\ movements'[N + 1] = row
  BY MovementAppended
<1>2. consumables \in [Items -> ConsumableRecord] /\ StockIsLedger /\ row.item \in Items
  BY SoundTables DEF TypeOK, MovementRecord
<1>3. ASSUME NEW i \in Items
      PROVE  Replays(movements', i, consumables'[i].stock)
  <2> DEFINE stock == consumables'[i].stock
  <2>1. stock \in 0 .. Ceiling
    BY <1>2 DEF ConsumableRecord
  <2>2. stock = IF row.item = i THEN After(consumables[i].stock, row) ELSE consumables[i].stock
    BY <1>2 DEF ConsumableRecord
  <2>3. PICK old \in [0 .. N -> 0 .. Ceiling] :
          /\ old[0] = 0
          /\ \A m \in DOMAIN movements :
               old[m] = IF movements[m].item = i THEN After(old[m - 1], movements[m]) ELSE old[m - 1]
          /\ old[N] = consumables[i].stock
    BY <1>2 DEF StockIsLedger, Replays
  <2> DEFINE new == [k \in 0 .. N + 1 |-> IF k = N + 1 THEN stock ELSE old[k]]
  <2>4. /\ \A k \in 0 .. N : new[k] = old[k]
        /\ new[N + 1] = stock /\ new \in [0 .. N + 1 -> 0 .. Ceiling]
    <3>1. \A k \in 0 .. N + 1 : k = N + 1 \/ k \in 0 .. N
      BY <1>1
    <3>2. \A k \in 0 .. N : k \in 0 .. N + 1 /\ k # N + 1
      BY <1>1
    <3>3. N + 1 \in 0 .. N + 1
      BY <1>1
    <3> HIDE DEF stock, N
    <3> QED BY <2>1, <3>1, <3>2, <3>3
  <2> HIDE DEF stock, new
  <2>5. new[0] = 0
    <3>1. 0 \in 0 .. N
      BY <1>1
    <3> QED BY <2>3, <2>4, <3>1
  <2>6. ASSUME NEW m \in DOMAIN movements
        PROVE  new[m] = IF movements'[m].item = i THEN After(new[m - 1], movements'[m]) ELSE new[m - 1]
    <3>1. m \in 0 .. N /\ m - 1 \in 0 .. N
      BY <1>1
    <3> QED BY <1>1, <2>3, <2>4, <3>1
  <2>7. new[N + 1] = IF row.item = i THEN After(new[N], row) ELSE new[N]
    <3>1. N \in 0 .. N
      BY <1>1
    <3> QED BY <2>2, <2>3, <2>4, <3>1
  <2>8. (N + 1) - 1 = N
    BY <1>1
  <2>9. \A m \in DOMAIN movements' :
          new[m] = IF movements'[m].item = i THEN After(new[m - 1], movements'[m]) ELSE new[m - 1]
    BY <1>1, <2>6, <2>7, <2>8
  <2> HIDE DEF N
  <2> QED BY <1>1, <2>4, <2>5, <2>9 DEF Replays, stock
<1> QED BY <1>3 DEF StockIsLedger

LEMMA RecordMovementInv ==
    ASSUME ProcurementInv, NEW c \in Clients, RecordMovement(c)
    PROVE  ProcurementInv'
<1> DEFINE row == MovementRow(client[c])
           N == Len(movements)
<1>1. /\ client[c].op = "move" /\ client[c].pc = "insert" /\ End(c) /\ mix' = mix
      /\ movements' = Append(movements, row)
      /\ consumables' = [consumables EXCEPT ![client[c].on].stock = client[c].seen]
      /\ seats' = seats /\ purchases' = purchases /\ lines' = lines
      /\ assets' = assets /\ locations' = locations /\ models' = models
  BY DEF RecordMovement, Granted, bounds, stockOthers
<1>2. TypeOK /\ Subject(client[c]) /\ Moving(client[c]) /\ Kept(c) /\ LocksExclude
  BY <1>1, SoundTables, InvOf, Ends DEF Standing
<1>3. /\ row \in MovementRecord
      /\ row.of = client[c].of /\ row.line = client[c].line /\ row.n = client[c].n
      /\ row.item = client[c].on /\ row.target = client[c].target /\ row.type = client[c].change
  BY <1>1, <1>2 DEF Subject, MovementRow, MovementRecord
<1>4. /\ row.of # None => /\ row.of \in DOMAIN movements
                          /\ DeliveryLock(row.of) \subseteq client[c].locks
                          /\ Returned(row.of) + row.n <= movements[row.of].n
      /\ row.line # None => /\ Held(PurchaseOf(row.line)) \subseteq client[c].locks
                            /\ row.line \in Lines /\ Takes(row.line, "CONSUMABLE")
                            /\ row.type = "IN" /\ row.n # 0
  BY <1>1, <1>2, <1>3 DEF Moving, Counting, Subject
<1>5. /\ client[c].on \in Items /\ ItemRow(client[c].on) \subseteq client[c].locks
      /\ client[c].seen \in 0 .. Ceiling
      /\ client[c].seen = After(consumables[client[c].on].stock, row)
  BY <1>1, <1>2 DEF Moving, Subject
<1> HIDE DEF row
<1>6. /\ N \in Nat /\ DOMAIN movements = 1 .. N /\ Len(movements') = N + 1
      /\ DOMAIN movements' = DOMAIN movements \cup {N + 1} /\ N + 1 \notin DOMAIN movements
      /\ \A m \in DOMAIN movements : movements'[m] = movements[m]
      /\ movements'[N + 1] = row /\ movements' \in Seq(MovementRecord)
  BY <1>1, <1>3, MovementAppended
<1>7. StockIsLedger'
  BY <1>1, <1>3, <1>5, LedgerGrows
<1>8. TypeOK'
  <2>1. consumables' \in [Items -> ConsumableRecord]
    BY <1>1, <1>2, <1>5 DEF TypeOK, ConsumableRecord
  <2>2. row.of < N + 1
    <3>1. row.of \in 0 .. N
      BY <1>4, <1>6 DEF None
    <3> DEFINE k == row.of
    <3> HIDE DEF k, N
    <3> QED BY <1>6, <3>1 DEF k
  <2>3. \A m \in DOMAIN movements' : movements'[m].of < m
    <3>1. \A m \in DOMAIN movements : movements[m].of < m
      BY <1>2 DEF TypeOK
    <3> HIDE DEF N
    <3> QED BY <1>6, <2>2, <3>1
  <2> QED BY <1>1, <1>2, <1>6, <2>1, <2>3 DEF TypeOK
<1>9. ReturnsWithinDelivery'
  <2>1. ASSUME NEW m \in DOMAIN movements, movements[m].target # {}
        PROVE  Returned(m)' <= movements[m].n
    <3>1. Returned(m) <= movements[m].n
      BY <2>1, SoundTables DEF ReturnsWithinDelivery
    <3>2. m # None
      BY <1>6 DEF None
    <3> QED BY <1>1, <1>3, <1>4, <3>1, <3>2, ReturnedGrows
  <2>2. PICK e : e = N + 1
    OBVIOUS
  <2>3. row.of # e
    <3>1. e # None
      BY <1>6, <2>2 DEF None
    <3> HIDE DEF N
    <3> QED BY <1>4, <1>6, <2>2, <3>1
  <2>4. Returned(e)' = 0
    <3>1. Returned(e) = 0
      BY <2>2, NothingReturned
    <3> QED BY <1>1, <1>3, <2>3, <3>1, ReturnedGrows
  <2>5. 0 <= row.n
    <3>1. row.n \in 0 .. Ceiling
      BY <1>3 DEF MovementRecord
    <3> QED BY <3>1, CeilingNat
  <2> SUFFICES ASSUME NEW m \in DOMAIN movements', movements'[m].target # {}
               PROVE  Returned(m)' <= movements'[m].n
    BY DEF ReturnsWithinDelivery
  <2> HIDE DEF N
  <2>6. CASE m \in DOMAIN movements
    BY <1>6, <2>1, <2>6
  <2>7. CASE m = e
    BY <1>6, <2>2, <2>4, <2>5, <2>7
  <2> QED BY <1>6, <2>2, <2>6, <2>7
<1>10. CountsUnits'
  <2>1. CountsUnits
    BY SoundTables
  <2> QED BY <1>4, <1>6, <2>1 DEF CountsUnits
<1>11. SeatsAreApplied' /\ PurchaseIdentified'
  BY <1>1, SoundTables DEF SeatsAreApplied, SeatsInTotal, SeatsPerApplication, PurchaseIdentified, LinesOf
<1>12. ReceiptsMatchLine'
  <2>1. ReceiptsMatchLine
    BY SoundTables
  <2>2. \A m \in DOMAIN movements' : movements'[m].line # None =>
          lines'[movements'[m].line].state = "live" /\ lines'[movements'[m].line].kind = "CONSUMABLE"
    <3> SUFFICES ASSUME NEW m \in DOMAIN movements', movements'[m].line # None
                 PROVE  Takes(movements'[m].line, "CONSUMABLE")
      BY <1>1 DEF Takes
    <3>1. CASE m \in DOMAIN movements
      <4>1. Takes(movements[m].line, "CONSUMABLE")
        BY <1>6, <2>1, <3>1 DEF ReceiptsMatchLine, Takes
      <4> QED BY <1>6, <3>1, <4>1
    <3>2. CASE m \notin DOMAIN movements
      <4>1. movements'[m] = row
        BY <1>6, <3>2
      <4> QED BY <1>4, <4>1
    <3> QED BY <3>1, <3>2
  <2> QED BY <1>1, <2>1, <2>2 DEF ReceiptsMatchLine, LiveAssets
<1>13. TablesSound'
  BY <1>7, <1>8, <1>9, <1>10, <1>11, <1>12 DEF TablesSound
<1>14. ASSUME NEW d \in Clients \ {c}, NEW x, x = client[d] PROVE Undisturbed(x)
  <2>1. Subject(x) /\ Standing(x)
    BY <1>14, InvOf
  <2>2. ByMovements(x)
    <3>1. x.op = "move" /\ x.pc \in Counting /\ x.of # None => Returned(x.of)' = Returned(x.of)
      <4> SUFFICES ASSUME x.op = "move", x.pc \in Counting, x.of # None
                   PROVE  Returned(x.of)' = Returned(x.of)
        OBVIOUS
      <4>1. DeliveryLock(x.of) \subseteq client[d].locks
        BY <1>14, <2>1 DEF Standing, Moving
      <4>2. row.of # x.of
        BY <1>2, <1>4, <1>14, <4>1, OneReturn
      <4> QED BY <1>1, <1>3, <4>2, ReturnedGrows
    <3>2. Replaces(x) => \A m \in DOMAIN movements' :
                           movements'[m].line = x.line => m \in DOMAIN movements
      <4> SUFFICES ASSUME Replaces(x) PROVE row.line # x.line
        BY <1>6
      <4>1. x.line \in Lines /\ PurchaseOf(x.line) \in Purchases
            /\ Whole(PurchaseOf(x.line)) \subseteq client[d].locks
        BY <1>14, ReplacesLine
      <4>2. x.line # None
        BY <4>1, ProcurementAssumption
      <4> QED BY <1>2, <1>4, <1>14, <4>1, <4>2, OneWhole
    <3> QED BY <1>6, <3>1, <3>2 DEF ByMovements
  <2>3. ByStock(x)
    <3> SUFFICES ASSUME x.op = "move", x.pc = "insert"
                 PROVE  consumables'[x.on].stock = consumables[x.on].stock
      BY DEF ByStock
    <3>1. x.on \in Items /\ ItemRow(x.on) \subseteq client[d].locks
      BY <1>14, <2>1 DEF Standing, Moving, Subject
    <3>2. x.on # client[c].on
      BY <1>2, <1>5, <1>14, <3>1, OneItem
    <3> QED BY <1>1, <1>2, <3>1, <3>2 DEF TypeOK
  <2>4. ByLines(x) /\ ByAssets(x) /\ ByPurchases(x) /\ PurchaseKept(x) /\ BySeats(x)
    <3>1. ByLines(x)
      BY <1>1, <1>14, SameLines DEF SameLine, SameQuantity
    <3>2. ByAssets(x) /\ ByPurchases(x)
      BY <1>1, <1>14, SameAssets, SamePurchases
    <3>3. PurchaseKept(x) /\ BySeats(x)
      BY <1>1, <1>14, KnownPurchases DEF PurchasesKept, BySeats
    <3> QED BY <3>1, <3>2, <3>3
  <2> QED BY <2>2, <2>3, <2>4 DEF Undisturbed
<1> QED BY <1>1, <1>2, <1>13, <1>14, Written
-----------------------------------------------------------------------------
(***************************************************************************)
(* Every step keeps the invariant.                                           *)
(***************************************************************************)
LEMMA StockStepInv ==
    ASSUME ProcurementInv, NEW c \in Clients, StockStep(c)
    PROVE  ProcurementInv'
<1>1. CASE PostIn(c) \/ PostOut(c) \/ PostAdjustment(c) \/ PostDelivery(c)
  <2>1. Kept(c)
    BY <1>1, PostsKept
  <2>2. UNCHANGED <<tables, mix>>
    BY <1>1 DEF PostIn, PostOut, PostAdjustment, PostDelivery, Begin
  <2> QED BY <2>1, <2>2, Quiet
<1>2. CASE PostReturn(c) \/ ReceiveStock(c)
  <2>1. Kept(c)
    BY <1>2, ReturnsKept
  <2>2. UNCHANGED <<tables, mix>>
    BY <1>2 DEF PostReturn, ReceiveStock, Begin
  <2> QED BY <2>1, <2>2, Quiet
<1>3. CASE CheckTarget(c) \/ LockReturnableDelivery(c) \/ ReceiveBeforeWrite(c) \/ ReadCeiling(c)
  <2>1. Kept(c)
    BY <1>3, MovesKept
  <2>2. UNCHANGED <<tables, mix>>
    BY <1>3 DEF CheckTarget, LockReturnableDelivery, ReceiveBeforeWrite, ReadCeiling, bounds
  <2> QED BY <2>1, <2>2, Quiet
<1>4. CASE MoveStock(c)
  <2>1. UNCHANGED <<tables, mix>>
    BY <1>4 DEF MoveStock, bounds
  <2> QED BY <1>4, <2>1, MoveStockKept, Quiet
<1>5. CASE RecordMovement(c)
  BY <1>5, RecordMovementInv
<1>6. CASE ArchiveItem(c) \/ RestoreItem(c)
  BY <1>6, ItemsInv
<1> QED BY <1>1, <1>2, <1>3, <1>4, <1>5, <1>6 DEF StockStep

LEMMA PurchaseStepInv ==
    ASSUME ProcurementInv, NEW c \in Clients, PurchaseStep(c)
    PROVE  ProcurementInv'
<1>1. CASE CreateRead(c) \/ RemoveRead(c) \/ AddLineRead(c) \/ ClearHeader(c) \/ DeliverTo(c)
  <2>1. Kept(c)
    BY <1>1, PurchaseBeginsKept
  <2>2. UNCHANGED <<tables, mix>>
    BY <1>1 DEF CreateRead, RemoveRead, AddLineRead, ClearHeader, DeliverTo, Begin
  <2> QED BY <2>1, <2>2, Quiet
<1>2. CASE UpdateLineRead(c) \/ RemoveLineRead(c) \/ CancelRead(c) \/ ApplyRead(c)
  <2>1. Kept(c)
    BY <1>2, LineBeginsKept
  <2>2. UNCHANGED <<tables, mix>>
    BY <1>2 DEF UpdateLineRead, RemoveLineRead, CancelRead, ApplyRead, Begin
  <2> QED BY <2>1, <2>2, Quiet
<1>3. CASE CreateRefused(c)
  <2>1. UNCHANGED <<tables, mix>>
    BY <1>3 DEF CreateRefused, bounds
  <2> QED BY <1>3, <2>1, PlainReceivingKept, Quiet
<1>4. CASE UpdateLockLocation(c) \/ UpdateCheck(c)
  <2>1. Kept(c)
    BY <1>4, UpdatePurchaseKept
  <2>2. UNCHANGED <<tables, mix>>
    BY <1>4 DEF UpdateLockLocation, UpdateCheck, bounds
  <2> QED BY <2>1, <2>2, Quiet
<1>5. CASE UpdateLineLock(c) \/ UpdateLineCheck(c)
  <2>1. Kept(c)
    BY <1>5, UpdateLineKept
  <2>2. UNCHANGED <<tables, mix>>
    BY <1>5 DEF UpdateLineLock, UpdateLineCheck, bounds
  <2> QED BY <2>1, <2>2, Quiet
<1>6. CASE RemoveLineCheck(c)
  <2>1. UNCHANGED <<tables, mix>>
    BY <1>6 DEF RemoveLineCheck, bounds
  <2> QED BY <1>6, <2>1, RemoveLineKept, Quiet
<1>7. CASE CancelLock(c) \/ CancelCheck(c)
  <2>1. Kept(c)
    BY <1>7, CancelKept
  <2>2. UNCHANGED <<tables, mix>>
    BY <1>7 DEF CancelLock, CancelCheck, bounds
  <2> QED BY <2>1, <2>2, Quiet
<1>8. CASE ApplyLockLine(c) \/ ApplyLockApplication(c) \/ ApplyCheck(c)
  <2>1. Kept(c)
    BY <1>8, ApplyKept
  <2>2. UNCHANGED <<tables, mix>>
    BY <1>8 DEF ApplyLockLine, ApplyLockApplication, ApplyCheck, bounds
  <2> QED BY <2>1, <2>2, Quiet
<1>9. CASE CreateInsert(c) \/ AddLineInsert(c)
  BY <1>9, InsertsInv
<1>10. CASE UpdateWrite(c) \/ RemoveWrite(c) \/ RestorePurchase(c)
  BY <1>10, HeadersInv
<1>11. CASE UpdateLineWrite(c) \/ RemoveLineWrite(c) \/ CancelWrite(c) \/ ApplyWrite(c)
  BY <1>11, UpdateLineWriteInv, RemoveLineWriteInv, CancelWriteInv, ApplyWriteInv
<1> QED BY <1>1, <1>2, <1>3, <1>4, <1>5, <1>6, <1>7, <1>8, <1>9, <1>10, <1>11 DEF PurchaseStep

LEMMA ReceivingStepInv ==
    ASSUME ProcurementInv, NEW c \in Clients, ReceivingStep(c)
    PROVE  ProcurementInv'
<1>1. CASE LinkRead(c)
  <2>1. UNCHANGED <<tables, mix>>
    BY <1>1 DEF LinkRead, Begin
  <2> QED BY <1>1, <2>1, LineBeginsKept, Quiet
<1>2. CASE UnlinkRead(c) \/ CreateAsset(c) \/ ReceiveUnits(c) \/ FromAssets(c)
  <2>1. Kept(c)
    BY <1>2, ReceivingBeginsKept
  <2>2. UNCHANGED <<tables, mix>>
    BY <1>2 DEF UnlinkRead, CreateAsset, ReceiveUnits, FromAssets, Begin
  <2> QED BY <2>1, <2>2, Quiet
<1>3. CASE \/ LinkCheck(c) \/ LinkAssets(c) \/ LinkApplied(c) \/ LinkWritten(c) \/ LinkEvent(c)
           \/ LockAssets(c, "link")
  <2>1. Kept(c)
    BY <1>3, LinkKept
  <2>2. UNCHANGED <<tables, mix>>
    BY <1>3 DEF LinkCheck, LinkAssets, LinkApplied, LinkWritten, LinkEvent, LockAssets, bounds
  <2> QED BY <2>1, <2>2, Quiet
<1>4. CASE \/ UnitCheck(c) \/ UnitsEvent(c) \/ UnlinkAssets(c) \/ FromAssetsCheck(c)
           \/ FromAssetsRefused(c) \/ FromAssetsGather(c) \/ FromAssetsModel(c)
           \/ LockAssets(c, "unlink") \/ LockAssets(c, "from assets")
  <2>1. Kept(c)
    BY <1>4, PlainReceivingKept
  <2>2. UNCHANGED <<tables, mix>>
    BY <1>4 DEF UnitCheck, UnitsEvent, UnlinkAssets, FromAssetsCheck, FromAssetsRefused,
                 FromAssetsGather, FromAssetsModel, LockAssets, bounds
  <2> QED BY <2>1, <2>2, Quiet
<1>5. CASE LinkCommit(c) \/ UnlinkCommit(c) \/ UnitInsert(c) \/ FromAssetsCommit(c)
  BY <1>5, LinkCommitInv, AssetWritesInv, UnitInsertInv, FromAssetsInv
<1> QED BY <1>1, <1>2, <1>3, <1>4, <1>5 DEF ReceivingStep

LEMMA PlaceStepInv ==
    ASSUME ProcurementInv, NEW c \in Clients, PlaceStep(c)
    PROVE  ProcurementInv'
<1>1. CASE Reparent(c) \/ DeleteLocation(c) \/ DeleteModel(c) \/ MoveAsset(c) \/ ChangeModel(c)
  <2>1. Kept(c)
    BY <1>1, PlaceBeginsKept
  <2>2. UNCHANGED <<tables, mix>>
    BY <1>1 DEF Reparent, DeleteLocation, DeleteModel, MoveAsset, ChangeModel, Begin
  <2> QED BY <2>1, <2>2, Quiet
<1>2. CASE \/ DeleteLockTree(c) \/ DeleteLockRow(c) \/ DeleteLockChild(c) \/ DeleteScanPurchases(c)
           \/ DeleteLockPurchase(c) \/ DeleteScanAssets(c) \/ DeleteLockAsset(c) \/ DeleteRefused(c)
           \/ ReparentCheck(c)
  <2>1. Kept(c)
    BY <1>2, DeletesKept
  <2>2. UNCHANGED <<tables, mix>>
    BY <1>2 DEF DeleteLockTree, DeleteLockRow, DeleteLockChild, DeleteScanPurchases,
         DeleteLockPurchase, DeleteScanAssets, DeleteLockAsset, DeleteRefused, ReparentCheck, bounds
  <2> QED BY <2>1, <2>2, Quiet
<1>3. CASE \/ ModelLockRow(c) \/ ModelScanPurchases(c) \/ ModelLockPurchase(c) \/ ModelScanAssets(c)
           \/ ModelLockAsset(c) \/ ModelScanLines(c) \/ ModelLockLine(c) \/ ModelRefused(c)
  <2>1. Kept(c)
    BY <1>3, ModelDeletesKept
  <2>2. UNCHANGED <<tables, mix>>
    BY <1>3 DEF ModelLockRow, ModelScanPurchases, ModelLockPurchase, ModelScanAssets,
         ModelLockAsset, ModelScanLines, ModelLockLine, ModelRefused, bounds
  <2> QED BY <2>1, <2>2, Quiet
<1>4. CASE AssetLockLocation(c) \/ AssetCheck(c)
  <2>1. Kept(c)
    BY <1>4, PlainReceivingKept
  <2>2. UNCHANGED <<tables, mix>>
    BY <1>4 DEF AssetLockLocation, AssetCheck, bounds
  <2> QED BY <2>1, <2>2, Quiet
<1>5. CASE CreateLocation(c) \/ RestoreLocation(c) \/ ReparentWrite(c) \/ RestoreModel(c)
  BY <1>5, LocationsInv
<1>6. CASE DeleteCommit(c) \/ ModelCommit(c)
  BY <1>6, DeleteCommitInv, ModelCommitInv
<1>7. CASE RemoveAsset(c) \/ RestoreAsset(c) \/ AssetWrite(c)
  BY <1>7, AssetWritesInv
<1> QED BY <1>1, <1>2, <1>3, <1>4, <1>5, <1>6, <1>7 DEF PlaceStep

LEMMA StutterInv ==
    ASSUME ProcurementInv, UNCHANGED procurementVars
    PROVE  ProcurementInv'
<1>1. /\ consumables' = consumables /\ movements' = movements /\ seats' = seats
      /\ purchases' = purchases /\ lines' = lines /\ assets' = assets /\ locations' = locations
      /\ models' = models /\ client' = client /\ mix' = mix
  BY DEF procurementVars, tables, stockTables
<1>2. TypeOK'
  BY <1>1, SoundTables DEF TypeOK
<1>3. Modest
  BY <1>1, SameLinesModest DEF PurchasesKept
<1>4. PurchaseIdentified' /\ AssetsSound
  BY <1>1, SoundTables, SameAssetsSound DEF PurchaseIdentified, LinesOf
<1>5. \A d \in Clients : \A x : x = client[d] => ByAssets(x) /\ ByPurchases(x)
  BY <1>1, SameAssets, SamePurchases
<1> QED BY <1>1, <1>2, <1>3, <1>4, <1>5, ModestAlone

LEMMA NextInv ==
    ASSUME ProcurementInv, [Next]_procurementVars
    PROVE  ProcurementInv'
<1>1. ASSUME NEW c \in Clients, Work(c)
      PROVE  ProcurementInv'
  BY <1>1, StockStepInv, PurchaseStepInv, ReceivingStepInv, PlaceStepInv DEF Work
<1>2. ASSUME NEW c \in Clients, Fail(c)
      PROVE  ProcurementInv'
  <2>1. End(c) /\ UNCHANGED <<tables, mix>>
    BY <1>2 DEF Fail
  <2> QED BY <2>1, InvOf, Ends, Quiet
<1>3. CASE UNCHANGED procurementVars
  BY <1>3, StutterInv
<1> QED BY <1>1, <1>2, <1>3 DEF Next
-----------------------------------------------------------------------------
LEMMA InitTables ==
    ASSUME NEW s \in Starts, consumables = s.consumables, movements = s.movements,
           seats = [app \in Apps |-> 0], purchases = s.purchases, lines = s.lines,
           assets = s.assets, locations = s.locations, models = s.models
    PROVE  TablesSound
<1>1. /\ consumables \in [Items -> ConsumableRecord] /\ movements \in Seq(MovementRecord)
      /\ \A m \in DOMAIN movements : movements[m].of = None /\ movements[m].line = None
      /\ \A i \in Items : Replays(movements, i, consumables[i].stock)
      /\ purchases \in [Purchases -> PurchaseRecord] /\ lines \in [Lines -> LineRecord]
      /\ \A l \in Lines : SoundLine(lines[l]) /\ lines[l].applied = 0
      /\ assets \in [Assets -> AssetRecord]
      /\ locations \in [Locations -> LocationRecord] /\ models \in [Models -> {"live", "deleted"}]
  BY StartsAssumption
<1>2. /\ \A p \in Purchases : purchases[p].state # "none" =>
           \/ purchases[p].named
           \/ \E l \in Lines : lines[l].state = "live" /\ lines[l].purchase = p
      /\ \A a \in Assets : assets[a].state = "live" /\ assets[a].line # None =>
           lines[assets[a].line].state = "live" /\ lines[assets[a].line].kind = "ASSET"
  BY StartsAssumption
<1>3. /\ Len(movements) \in Nat /\ DOMAIN movements = 1 .. Len(movements)
      /\ \A m \in DOMAIN movements : movements[m] \in MovementRecord
  BY <1>1, LenProperties, ElementOfSeq
<1>4. \A m \in DOMAIN movements : m \in Nat /\ m # None /\ movements[m].of < m
  BY <1>1, <1>3 DEF None
<1>5. TypeOK
  <2>1. seats \in [Apps -> 0 .. Ceiling]
    BY CeilingNat
  <2> QED BY <1>1, <1>4, <2>1 DEF TypeOK
<1>6. StockIsLedger
  BY <1>1 DEF StockIsLedger
<1>7. ReturnsWithinDelivery
  <2> SUFFICES ASSUME NEW m \in DOMAIN movements PROVE Returned(m) <= movements[m].n
    BY DEF ReturnsWithinDelivery
  <2>1. {k \in DOMAIN movements : movements[k].of = m} = {}
    BY <1>1, <1>4
  <2>2. Returned(m) = 0
    BY <2>1, SumNone DEF Returned
  <2>3. movements[m].n \in 0 .. Ceiling
    BY <1>3 DEF MovementRecord
  <2> QED BY <2>2, <2>3, CeilingNat
<1>8. SeatsAreApplied
  <2> DEFINE f == [l \in Lines |-> lines[l].applied]
  <2>1. (\A l \in Lines : f[l] = 0) /\ (\A app \in Apps : seats[app] = 0)
    BY <1>1
  <2> HIDE DEF f
  <2>2. Sum(Lines, f) = 0 /\ Sum(Apps, seats) = 0
    BY <2>1, SumZeros
  <2>3. \A app \in Apps : Sum({l \in Lines : lines[l].item = app}, f) = 0
    BY <2>1, SumZeros
  <2> QED BY <2>1, <2>2, <2>3 DEF SeatsAreApplied, SeatsInTotal, SeatsPerApplication, f
<1>9. PurchaseIdentified
  BY <1>2 DEF PurchaseIdentified, LinesOf
<1>10. ReceiptsMatchLine
  <2>1. \A l \in Lines : ~ (lines[l].applied > 0)
    BY <1>1
  <2> QED BY <1>1, <1>2, <2>1 DEF ReceiptsMatchLine, LiveAssets
<1>11. CountsUnits
  BY <1>1 DEF CountsUnits
<1> QED BY <1>5, <1>6, <1>7, <1>8, <1>9, <1>10, <1>11 DEF TablesSound

LEMMA InitInv ==
    ASSUME Init
    PROVE  ProcurementInv
<1>1. TablesSound
  <2>1. PICK s \in Starts :
          /\ consumables = s.consumables /\ movements = s.movements
          /\ seats = [app \in Apps |-> 0]
          /\ purchases = s.purchases /\ lines = s.lines /\ assets = s.assets
          /\ locations = s.locations /\ models = s.models
    BY DEF Init
  <2> QED BY <2>1, InitTables
<1>2. client = [c \in Clients |-> Idle] /\ Idle.locks = {} /\ Idle.op = "none"
  BY DEF Init, Idle
<1>3. Subject(Idle)
  BY DEF Subject, Idle, OnLines
<1>4. \A c \in Clients : Subject(client[c]) /\ Standing(client[c])
  BY <1>2, <1>3 DEF Standing
<1>5. Shape /\ LocksExclude
  BY <1>2 DEF Shape, LocksExclude
<1> QED BY <1>1, <1>4, <1>5 DEF ProcurementInv

\* What a request holds and has checked stays true until its commit, whatever
\* the other handlers do: the invariant every theorem below rests on.
THEOREM ProcurementKept == Spec => []ProcurementInv
<1>1. Init => ProcurementInv
  BY InitInv
<1>2. ProcurementInv /\ [Next]_procurementVars => ProcurementInv'
  BY NextInv
<1> QED BY <1>1, <1>2, PTL DEF Spec

\* The rows keep their types: no stock falls below zero or overflows its column,
\* no line has more units cancelled than ordered or an item of another kind.
THEOREM ProcurementTypes == Spec => []TypeOK
<1>1. ProcurementInv => TypeOK
  BY SoundTables
<1> QED BY <1>1, ProcurementKept, PTL

\* However movements, receipts and recounts cross, the stock of a consumable
\* replays from its ledger (ConsumablesService: MoveStock and RecordMovement).
THEOREM StockFollowsLedger == Spec => []StockIsLedger
<1>1. ProcurementInv => StockIsLedger
  BY SoundTables
<1> QED BY <1>1, ProcurementKept, PTL

\* Crossing returns of one delivery give back at most what was delivered
\* (lockReturnableDelivery).
THEOREM ReturnsNeverExceed == Spec => []ReturnsWithinDelivery
<1>1. ProcurementInv => ReturnsWithinDelivery
  BY SoundTables
<1> QED BY <1>1, ProcurementKept, PTL

\* An application has exactly the seats its lines applied, also when several
\* lines are applied to it at once (PurchaseLicenseService.apply).
THEOREM SeatsMatchLines == Spec => []SeatsAreApplied
<1>1. ProcurementInv => SeatsAreApplied
  BY SoundTables
<1> QED BY <1>1, ProcurementKept, PTL

\* Clearing a header and removing a line, at once, never leave a purchase with
\* neither (PurchasesService.update, PurchaseLinesService.remove).
THEOREM PurchasesStayIdentified == Spec => []PurchaseIdentified
<1>1. ProcurementInv => PurchaseIdentified
  BY SoundTables
<1> QED BY <1>1, ProcurementKept, PTL

\* What arrived on a line stays on a live line of its kind, however receipts,
\* links, seats, removals and changes of kind cross.
THEOREM ReceiptsStayOnTheirLine == Spec => []ReceiptsMatchLine
<1>1. ProcurementInv => ReceiptsMatchLine
  BY SoundTables
<1> QED BY <1>1, ProcurementKept, PTL
=============================================================================
