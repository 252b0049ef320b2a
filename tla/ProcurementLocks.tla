------------------------- MODULE ProcurementLocks -------------------------
(***************************************************************************)
(* The order in which the requests take their locks, and what follows for   *)
(* those that wait for one another: a circle has a delete of a location or   *)
(* of a model in it, however many requests and rows there are.               *)
(***************************************************************************)
EXTENDS ProcurementSafety, WellFoundedInduction

\* Which table a lock is on, and how strong it is.
Modes(rows) == {<<row[1], row[3]>> : row \in rows}

\* What a request has locked, and what it asks for, while it is at pc.
At(x, pc, held, asked) ==
    x.pc = pc => Modes(x.locks) \subseteq held /\ Modes(x.wants) \subseteq asked

TreeKind == <<"tree", "update">>
PlaceKind == <<"location", "share">>
ReturnKind == <<"movement", "update">>
ShareKind == <<"purchase", "key share">>
WholeKind == <<"purchase", "update">>
ItemKind == <<"consumable", "no key update">>
AssetKind == <<"asset", "update">>
LineKind == <<"line", "update">>
LineRefKind == <<"line", "key share">>
AppKind == <<"application", "update">>
ModelRefKind == <<"model", "key share">>

MoveOrder(x) ==
    LET begun == {ReturnKind, ShareKind} IN
    /\ x.pc \in {"target", "delivery", "purchase", "ceiling", "stock", "insert"}
    /\ At(x, "target", {}, {})
    /\ At(x, "delivery", {}, {ReturnKind})
    /\ At(x, "purchase", {}, {ShareKind})
    /\ At(x, "ceiling", begun, {})
    /\ At(x, "stock", begun, {ItemKind})
    /\ At(x, "insert", begun \cup {ItemKind},
          {LineRefKind, <<"movement", "key share">>, <<"location", "key share">>, <<"asset", "key share">>})
    /\ x.pc = "insert" => \A w \in x.wants : w[1] = "movement" =>
         w[2] # None /\ DeliveryLock(w[2]) \subseteq x.locks

HeaderOrder(x) ==
    /\ x.pc \in {"location", "purchase", "write"}
    /\ At(x, "location", {}, {PlaceKind})
    /\ At(x, "purchase", {PlaceKind}, {WholeKind})
    /\ At(x, "write", {PlaceKind, WholeKind}, {PlaceKind, <<"purchase", "no key update">>})
    /\ \A r \in x.locks \cup x.wants : r[1] = "purchase" => r[2] = x.on

EditOrder(x) ==
    LET share == {IF x.change = "change kind" THEN WholeKind ELSE ShareKind} IN
    /\ x.pc \in {"purchase", "line", "write"}
    /\ At(x, "purchase", {}, share)
    /\ At(x, "line", share, {LineKind})
    /\ At(x, "write", share \cup {LineKind},
          IF x.change = "change kind" THEN {} ELSE {ModelRefKind, <<"application", "key share">>})

DropOrder(x) ==
    /\ x.pc \in {"purchase", "write"}
    /\ At(x, "purchase", {}, {WholeKind})
    /\ At(x, "write", {WholeKind}, {<<"line", "no key update">>})

CancelOrder(x) ==
    /\ x.pc \in {"first", "line", "write"}
    /\ At(x, "first", {}, {ShareKind})
    /\ At(x, "line", {ShareKind}, {LineKind, ShareKind})
    /\ At(x, "write", {ShareKind, LineKind}, {})

ApplyOrder(x) ==
    /\ x.pc \in {"purchase", "line", "application", "write"}
    /\ At(x, "purchase", {}, {ShareKind})
    /\ At(x, "line", {ShareKind}, {LineKind})
    /\ At(x, "application", {ShareKind, LineKind}, {AppKind})
    /\ At(x, "write", {ShareKind, LineKind, AppKind}, {})

LinkOrder(x) ==
    LET own == {ShareKind, AssetKind} IN
    /\ x.pc \in {"purchase", "assets", "model", "line", "events"}
    /\ At(x, "purchase", {}, {ShareKind})
    /\ At(x, "assets", own, {AssetKind})
    /\ At(x, "model", own, {ModelRefKind})
    /\ At(x, "line", own \cup {ModelRefKind}, {LineRefKind})
    /\ At(x, "events", own \cup {ModelRefKind, LineRefKind}, {ShareKind})

UnlinkOrder(x) ==
    /\ x.pc \in {"assets", "event"}
    /\ At(x, "assets", {AssetKind}, {AssetKind})
    /\ At(x, "event", {AssetKind}, {ShareKind})

UnitOrder(x) ==
    /\ x.pc \in {"location", "insert", "event"}
    /\ At(x, "location", {}, {PlaceKind})
    /\ At(x, "insert", {PlaceKind}, {ModelRefKind, LineRefKind})
    /\ At(x, "event", {}, {ShareKind})

GatherOrder(x) ==
    /\ x.pc \in {"references", "assets", "models"}
    /\ At(x, "references", {}, {PlaceKind})
    /\ At(x, "assets", {PlaceKind, AssetKind}, {AssetKind})
    /\ At(x, "models", {PlaceKind, AssetKind, ModelRefKind}, {ModelRefKind})

ReparentOrder(x) ==
    /\ x.pc \in {"tree", "write"}
    /\ At(x, "tree", {}, {TreeKind})
    /\ At(x, "write", {TreeKind}, {<<"location", "no key update">>})

AssetOrder(x) ==
    /\ x.pc \in {"location", "asset", "write"}
    /\ At(x, "location", {}, {PlaceKind}) /\ (x.pc = "location" => x.on \in Assets)
    /\ At(x, "asset", {PlaceKind}, {AssetKind})
    /\ At(x, "write", {PlaceKind, AssetKind}, {ModelRefKind})

\* Assets are locked in the order of their ids.
InTurn(x) ==
    /\ x.ids \subseteq Assets
    /\ x.wants = FirstRow("asset", "update", x.ids)
    /\ \A h \in x.locks : h[1] = "asset" => h[2] \in Assets /\ \A i \in x.ids : h[2] < i

\* One lock, and then the end.
Brief == {"create purchase", "remove purchase", "add line"}

BriefKinds == {PlaceKind, ShareKind, <<"purchase", "no key update">>}

LineOps == {"update line", "cancel", "apply seats", "link"}

OtherOps == {"move", "update purchase", "remove line", "unlink", "units", "from assets", "reparent", "asset"}

Deletes == {"delete location", "delete model"}

Orderly(x) ==
    /\ x.op \in {"none"} \cup Brief \cup LineOps \cup OtherOps \cup Deletes
    /\ x.op = "none" => x.locks = {} /\ x.wants = {}
    /\ x.op \in Brief => x.locks = {} /\ Modes(x.wants) \subseteq BriefKinds
    /\ x.op = "move" => MoveOrder(x)
    /\ x.op = "update purchase" => HeaderOrder(x)
    /\ x.op = "update line" => EditOrder(x)
    /\ x.op = "remove line" => DropOrder(x)
    /\ x.op = "cancel" => CancelOrder(x)
    /\ x.op = "apply seats" => ApplyOrder(x)
    /\ x.op = "link" => LinkOrder(x)
    /\ x.op = "unlink" => UnlinkOrder(x)
    /\ x.op = "units" => UnitOrder(x)
    /\ x.op = "from assets" => GatherOrder(x)
    /\ x.op = "reparent" => ReparentOrder(x)
    /\ x.op = "asset" => AssetOrder(x)
    /\ x.op \in {"link", "unlink", "from assets"} /\ x.pc = "assets" => InTurn(x)
    /\ x.op \notin Deletes => \A w \in x.wants : w[1] = "asset" => w[2] \in Assets
    /\ x.op \in LineOps \cup {"remove line"} =>
         \A r \in x.locks \cup x.wants : r[1] = "line" => r[2] = x.line

OrderInv == \A c \in Clients : Orderly(client[c])
-----------------------------------------------------------------------------
(***************************************************************************)
(* Kinds of locks.                                                          *)
(***************************************************************************)
LEMMA ModesOf ==
    /\ Modes({}) = {}
    /\ \A A, B : Modes(A \cup B) = Modes(A) \cup Modes(B)
    /\ \A t, m : Modes({}) \subseteq {<<t, m>>}
BY DEF Modes

LEMMA ModesRow ==
    ASSUME NEW t, NEW id, NEW m
    PROVE  Modes(Row(t, id, m)) \subseteq {<<t, m>>}
BY DEF Modes, Row

LEMMA ModesFirst ==
    ASSUME NEW t, NEW S, NEW m
    PROVE  Modes(FirstRow(t, m, S)) \subseteq {<<t, m>>}
BY DEF Modes, FirstRow

LEMMA ModeIn ==
    ASSUME NEW rows, NEW row \in rows, NEW K, Modes(rows) \subseteq K
    PROVE  <<row[1], row[3]>> \in K
BY DEF Modes

\* The rows of one table that a set of locks is on.
LEMMA RowOnly == ASSUME NEW t, NEW id, NEW m, NEW r \in Row(t, id, m) PROVE r = <<t, id, m>>
BY DEF Row

LEMMA RowParts == ASSUME NEW t, NEW id, NEW m, NEW r \in Row(t, id, m) PROVE r[1] = t /\ r[2] = id /\ r[3] = m /\ id # None
BY DEF Row

LEMMA LockIs == ASSUME NEW t, NEW id, NEW m, NEW w, w = <<t, id, m>> PROVE w[1] = t /\ w[2] = id /\ w[3] = m
OBVIOUS

LEMMA MinIs ==
    ASSUME NEW S \in SUBSET Nat, S # {}
    PROVE  Ids!Min(S) \in S /\ \A i \in S : Ids!Min(S) <= i
<1>1. IsWellFoundedOn(OpToRel(<, Nat), Nat)
  BY NatLessThanWellFounded
<1>2. PICK n \in S : \A m \in S : ~ (<<m, n>> \in OpToRel(<, Nat))
  BY <1>1, WFMin
<1>3. OpToRel(<, Nat) = {p \in Nat \X Nat : p[1] < p[2]}
  BY Zenon DEF OpToRel
<1>4. ASSUME NEW m \in S PROVE n <= m
  <2>1. ~ (<<m, n>> \in {p \in Nat \X Nat : p[1] < p[2]})
    BY <1>2, <1>3
  <2> QED BY <2>1
<1> QED BY <1>4 DEF Ids!Min

\* rows are locks of one kind.
Only(rows, kind) == Modes(rows) \subseteq {kind} /\ \A w \in rows : w[1] = kind[1]

LEMMA RowOfKind ==
    ASSUME NEW t, NEW id, NEW m
    PROVE  Only(Row(t, id, m), <<t, m>>) /\ \A w \in Row(t, id, m) : w[2] = id
<1>1. \A w \in Row(t, id, m) : w = <<t, id, m>>
  BY DEF Row
<1>2. Modes(Row(t, id, m)) \subseteq {<<t, m>>}
  BY <1>1 DEF Modes
<1> QED BY <1>1, <1>2 DEF Only

LEMMA ItemRowIs == ASSUME NEW id PROVE Only(ItemRow(id), ItemKind) /\ \A w \in ItemRow(id) : w[2] = id
BY RowOfKind DEF ItemRow, ItemKind

LEMMA DeliveryLockIs == ASSUME NEW id PROVE Only(DeliveryLock(id), ReturnKind) /\ \A w \in DeliveryLock(id) : w[2] = id
BY RowOfKind DEF DeliveryLock, ReturnKind

LEMMA HeldIs == ASSUME NEW id PROVE Only(Held(id), ShareKind) /\ \A w \in Held(id) : w[2] = id
BY RowOfKind DEF Held, ShareKind

LEMMA WholeIs == ASSUME NEW id PROVE Only(Whole(id), WholeKind) /\ \A w \in Whole(id) : w[2] = id
BY RowOfKind DEF Whole, WholeKind

LEMMA PlaceIs == ASSUME NEW id PROVE Only(Place(id), PlaceKind) /\ \A w \in Place(id) : w[2] = id
BY RowOfKind DEF Place, PlaceKind

LEMMA LineRowIs == ASSUME NEW id PROVE Only(LineRow(id), LineKind) /\ \A w \in LineRow(id) : w[2] = id
BY RowOfKind DEF LineRow, LineKind

LEMMA AppRowIs == ASSUME NEW id PROVE Only(AppRow(id), AppKind) /\ \A w \in AppRow(id) : w[2] = id
BY RowOfKind DEF AppRow, AppKind

LEMMA TreeIs == Only(Tree, TreeKind)
BY DEF Only, Modes, Tree, TreeKind

LEMMA FirstIs == ASSUME NEW S PROVE Only(FirstRow("asset", "update", S), AssetKind)
<1>1. \A w \in FirstRow("asset", "update", S) : w = <<"asset", Ids!Min(S), "update">>
  BY DEF FirstRow
<1>2. Modes(FirstRow("asset", "update", S)) \subseteq {AssetKind}
  BY ModesFirst DEF AssetKind
<1> QED BY <1>1, <1>2 DEF Only, AssetKind

\* The table of each kind.
LEMMA KindTables ==
    /\ TreeKind[1] = "tree" /\ PlaceKind[1] = "location" /\ ReturnKind[1] = "movement"
    /\ ShareKind[1] = "purchase" /\ WholeKind[1] = "purchase" /\ ItemKind[1] = "consumable"
    /\ AssetKind[1] = "asset" /\ LineKind[1] = "line" /\ LineRefKind[1] = "line"
    /\ AppKind[1] = "application" /\ ModelRefKind[1] = "model"
BY DEF TreeKind, PlaceKind, ReturnKind, ShareKind, WholeKind, ItemKind, AssetKind, LineKind,
       LineRefKind, AppKind, ModelRefKind

LEMMA OnlyNone == ASSUME NEW kind PROVE Only({}, kind)
BY ModesOf DEF Only
-----------------------------------------------------------------------------
(***************************************************************************)
(* Requests that begin, go on and end.                                      *)
(***************************************************************************)
LEMMA IdleOrderly == Orderly(Idle)
<1>1. Idle.op = "none" /\ Idle.locks = {} /\ Idle.wants = {}
  BY DEF Idle
<1> HIDE DEF Idle
<1> QED BY <1>1 DEF Orderly, Brief, LineOps, Deletes

LEMMA EndOrderly ==
    ASSUME Shape, NEW c \in Clients, End(c)
    PROVE  Orderly(client'[c])
BY EndedAs, IdleOrderly

\* A delete takes its locks in an order of its own.
LEMMA DeleteOrderly == ASSUME NEW r, r.op \in Deletes PROVE Orderly(r)
BY DEF Orderly, Deletes, Brief, LineOps

\* r is what x becomes when it has the locks it asked for, and asks for wants.
Steps(r, x, pc, wants) ==
    /\ Alike(r, x) /\ r.pc = pc /\ r.wants = wants /\ r.locks = x.locks \cup x.wants

LEMMA OnwardSteps ==
    ASSUME NEW c \in Clients, DOMAIN client[c] = DOMAIN Idle, NEW pc, NEW wants
    PROVE  Steps(Onward(c, pc, wants), client[c], pc, wants)
BY OnwardAs DEF Steps

LEMMA GoSteps ==
    ASSUME ProcurementInv, NEW c \in Clients, NEW pc, NEW wants, Go(c, pc, wants)
    PROVE  \E r : client'[c] = r /\ Steps(r, client[c], pc, wants)
<1>1. Shape /\ DOMAIN client[c] = DOMAIN Idle
  BY InvOf
<1>2. client' = [client EXCEPT ![c] = Onward(c, pc, wants)]
  BY DEF Go
<1> QED BY <1>1, <1>2, OnwardSteps, IsSet

LEMMA StepModes ==
    ASSUME NEW r, NEW x, NEW pc, NEW wants, Steps(r, x, pc, wants)
    PROVE  Modes(r.locks) = Modes(x.locks) \cup Modes(x.wants)
BY ModesOf DEF Steps
-----------------------------------------------------------------------------
(***************************************************************************)
(* Movements.                                                               *)
(***************************************************************************)
LEMMA MoveOrderly ==
    ASSUME NEW r, r.op = "move", MoveOrder(r),
           \A w \in r.wants : w[1] = "asset" => w[2] \in Assets
    PROVE  Orderly(r)
BY DEF Orderly, Deletes, Brief, LineOps, OtherOps

LEMMA MoveBeginsOrderly ==
    ASSUME NEW r, r.op = "move", r.locks = {},
           \/ r.pc \in {"target", "ceiling"} /\ r.wants = {}
           \/ \E id : r.pc = "stock" /\ r.wants = ItemRow(id)
           \/ \E id : r.pc = "delivery" /\ r.wants = DeliveryLock(id)
           \/ \E id : r.pc = "purchase" /\ r.wants = Held(id)
    PROVE  Orderly(r)
<1>1. Modes(r.locks) = {}
  BY ModesOf
<1>2. CASE r.pc \in {"target", "ceiling"} /\ r.wants = {}
  <2>1. MoveOrder(r)
    BY <1>1, <1>2, ModesOf DEF MoveOrder, At
  <2> QED BY <1>2, <2>1, MoveOrderly
<1>3. CASE \E id : r.pc = "stock" /\ r.wants = ItemRow(id)
  <2>1. Modes(r.wants) \subseteq {ItemKind} /\ \A w \in r.wants : w[1] = "consumable"
    BY <1>3, ItemRowIs, KindTables DEF Only
  <2>2. MoveOrder(r)
    BY <1>1, <1>3, <2>1 DEF MoveOrder, At
  <2> QED BY <2>1, <2>2, MoveOrderly
<1>4. CASE \E id : r.pc = "delivery" /\ r.wants = DeliveryLock(id)
  <2>1. Modes(r.wants) \subseteq {ReturnKind} /\ \A w \in r.wants : w[1] = "movement"
    BY <1>4, DeliveryLockIs, KindTables DEF Only
  <2>2. MoveOrder(r)
    BY <1>1, <1>4, <2>1 DEF MoveOrder, At
  <2> QED BY <2>1, <2>2, MoveOrderly
<1>5. CASE \E id : r.pc = "purchase" /\ r.wants = Held(id)
  <2>1. Modes(r.wants) \subseteq {ShareKind} /\ \A w \in r.wants : w[1] = "purchase"
    BY <1>5, HeldIs, KindTables DEF Only
  <2>2. MoveOrder(r)
    BY <1>1, <1>5, <2>1 DEF MoveOrder, At
  <2> QED BY <2>1, <2>2, MoveOrderly
<1> QED BY <1>2, <1>3, <1>4, <1>5

LEMMA PostsOrderly ==
    ASSUME ProcurementInv, NEW c \in Clients,
           \/ PostIn(c) \/ PostOut(c) \/ PostAdjustment(c) \/ PostDelivery(c)
           \/ PostReturn(c) \/ ReceiveStock(c)
    PROVE  Orderly(client'[c])
<1>0. Shape
  BY InvOf
<1>1. CASE PostIn(c)
  <2>1. PICK i \in Items, n \in 1 .. Ceiling :
          client' = [client EXCEPT ![c] = [Movement("IN", i, n) EXCEPT !.pc = "ceiling"]]
    BY <1>1 DEF PostIn, Begin
  <2> DEFINE r == [Movement("IN", i, n) EXCEPT !.pc = "ceiling"]
  <2>2. r.op = "move" /\ r.pc = "ceiling" /\ r.locks = {} /\ r.wants = {}
    BY DEF Movement, Idle
  <2>3. client'[c] = r
    BY <1>0, <2>1, IsSet
  <2> HIDE DEF r
  <2> QED BY <2>2, <2>3, MoveBeginsOrderly
<1>2. CASE PostOut(c) \/ PostAdjustment(c)
  <2>1. PICK i, n, type :
          client' = [client EXCEPT ![c] = [Movement(type, i, n) EXCEPT !.pc = "stock", !.wants = ItemRow(i)]]
    BY <1>2 DEF PostOut, PostAdjustment, Begin
  <2> DEFINE w == ItemRow(i)
             r == [Movement(type, i, n) EXCEPT !.pc = "stock", !.wants = w]
  <2>2. r.op = "move" /\ r.pc = "stock" /\ r.locks = {} /\ r.wants = w
    <3> HIDE DEF w
    <3> QED BY DEF Movement, Idle
  <2>3. client'[c] = r
    BY <1>0, <2>1, IsSet
  <2> HIDE DEF r
  <2> QED BY <2>2, <2>3, MoveBeginsOrderly
<1>3. CASE PostDelivery(c)
  <2>0. PICK i \in Items, n \in 1 .. Ceiling,
             row \in {"location"} \X Known(locations, Locations) \cup {"asset"} \X Known(assets, Assets) :
          Begin(c, "deliver", [Movement("OUT", i, n) EXCEPT !.pc = "target", !.target = {row}])
    BY <1>3 DEF PostDelivery
  <2>1. client' = [client EXCEPT ![c] = [Movement("OUT", i, n) EXCEPT !.pc = "target", !.target = {row}]]
    BY <2>0 DEF Begin
  <2> DEFINE r == [Movement("OUT", i, n) EXCEPT !.pc = "target", !.target = {row}]
  <2>2. r.op = "move" /\ r.pc = "target" /\ r.locks = {} /\ r.wants = {}
    BY DEF Movement, Idle
  <2>3. client'[c] = r
    BY <1>0, <2>1, IsSet
  <2> HIDE DEF r
  <2> QED BY <2>2, <2>3, MoveBeginsOrderly
<1>4. CASE PostReturn(c)
  <2>1. PICK i, m, n :
          client' = [client EXCEPT ![c] = [Movement("IN", i, n) EXCEPT
                                            !.pc = "delivery", !.of = m, !.wants = DeliveryLock(m)]]
    BY <1>4 DEF PostReturn, Begin
  <2> DEFINE w == DeliveryLock(m)
             r == [Movement("IN", i, n) EXCEPT !.pc = "delivery", !.of = m, !.wants = w]
  <2>2. r.op = "move" /\ r.pc = "delivery" /\ r.locks = {} /\ r.wants = w
    <3> HIDE DEF w
    <3> QED BY DEF Movement, Idle
  <2>3. client'[c] = r
    BY <1>0, <2>1, IsSet
  <2> HIDE DEF r
  <2> QED BY <2>2, <2>3, MoveBeginsOrderly
<1>5. CASE ReceiveStock(c)
  <2>0. PICK l \in Lines, n \in 1 .. Ceiling :
          Begin(c, "receive stock",
            [Movement("IN", lines[l].item, n) EXCEPT
               !.pc = "purchase", !.line = l,
               !.wants = Row("purchase", lines[l].purchase, "key share")])
    BY <1>5 DEF ReceiveStock
  <2> DEFINE i == lines[l].item
             p == lines[l].purchase
             w == Held(p)
             r == [Movement("IN", i, n) EXCEPT !.pc = "purchase", !.line = l, !.wants = w]
  <2>1. client' = [client EXCEPT ![c] = r]
    BY <2>0 DEF Begin, Held
  <2>2. r.op = "move" /\ r.pc = "purchase" /\ r.locks = {} /\ r.wants = w
    <3> HIDE DEF w, i
    <3> QED BY DEF Movement, Idle
  <2>3. client'[c] = r
    BY <1>0, <2>1, IsSet
  <2> HIDE DEF r, p
  <2> QED BY <2>2, <2>3, MoveBeginsOrderly
<1> QED BY <1>1, <1>2, <1>3, <1>4, <1>5

LEMMA ReferencesAre ==
    ASSUME NEW x, x.target \subseteq Targets
    PROVE  \A w \in References(x) :
              \/ w[1] = "line" /\ w[3] = "key share"
              \/ w[1] = "movement" /\ w[3] = "key share" /\ w[2] = x.of /\ x.of # None
              \/ w[1] = "location" /\ w[3] = "key share"
              \/ w[1] = "asset" /\ w[3] = "key share" /\ w[2] \in Assets
<1> DEFINE T == {<<row[1], row[2], "key share">> : row \in x.target}
<1>1. ASSUME NEW w \in Row("line", x.line, "key share") PROVE w[1] = "line" /\ w[3] = "key share"
  <2>1. w = <<"line", x.line, "key share">>
    BY DEF Row
  <2> QED BY <2>1, LockIs
<1>2. ASSUME NEW w \in Row("movement", x.of, "key share")
      PROVE  w[1] = "movement" /\ w[3] = "key share" /\ w[2] = x.of /\ x.of # None
  <2>1. w = <<"movement", x.of, "key share">> /\ x.of # None
    BY DEF Row
  <2> QED BY <2>1, LockIs
<1>3. \A row \in x.target : row[1] = "location" \/ (row[1] = "asset" /\ row[2] \in Assets)
  BY DEF Targets
<1>4. ASSUME NEW w, w \in T
      PROVE  w[3] = "key share" /\ (w[1] = "location" \/ (w[1] = "asset" /\ w[2] \in Assets))
  <2>1. PICK row \in x.target : w = <<row[1], row[2], "key share">>
    BY <1>4
  <2>2. w[1] = row[1] /\ w[2] = row[2] /\ w[3] = "key share"
    BY <2>1, LockIs
  <2> QED BY <1>3, <2>2
<1>5. References(x) = Row("line", x.line, "key share") \cup Row("movement", x.of, "key share") \cup T
  BY Zenon DEF References
<1> HIDE DEF T
<1> QED BY <1>1, <1>2, <1>4, <1>5

LEMMA MovesOrderly ==
    ASSUME ProcurementInv, NEW c \in Clients, Orderly(client[c]),
           \/ CheckTarget(c) \/ LockReturnableDelivery(c) \/ ReceiveBeforeWrite(c)
           \/ ReadCeiling(c) \/ MoveStock(c)
    PROVE  Orderly(client'[c])
<1> DEFINE x == client[c]
           begun == {ReturnKind, ShareKind}
<1>0. Shape /\ DOMAIN x = DOMAIN Idle /\ Moving(x)
  <2>1. x.op = "move"
    BY DEF CheckTarget, LockReturnableDelivery, ReceiveBeforeWrite, ReadCeiling, MoveStock, Granted
  <2> QED BY <2>1, InvOf DEF Standing
<1>1. x.op = "move" /\ MoveOrder(x) /\ x.target \subseteq Targets
  <2>1. x.op = "move"
    BY DEF CheckTarget, LockReturnableDelivery, ReceiveBeforeWrite, ReadCeiling, MoveStock, Granted
  <2> QED BY <2>1, InvOf DEF Orderly, Subject
<1>2. CASE \/ End(c)
           \/ \E wants : \E pc \in {"ceiling", "stock"} :
                /\ pc = "ceiling" => x.pc \in {"delivery", "purchase"} /\ wants = {}
                /\ pc = "stock" => x.pc \in {"target", "ceiling"} /\ wants = ItemRow(x.on)
                /\ Go(c, pc, wants)
  <2>1. CASE End(c)
    BY <1>0, <2>1, EndOrderly
  <2>2. ASSUME NEW pc \in {"ceiling", "stock"}, NEW wants, Go(c, pc, wants),
               pc = "ceiling" => x.pc \in {"delivery", "purchase"} /\ wants = {},
               pc = "stock" => x.pc \in {"target", "ceiling"} /\ wants = ItemRow(x.on)
        PROVE  Orderly(client'[c])
    <3>1. PICK r : client'[c] = r /\ Steps(r, x, pc, wants)
      BY <2>2, GoSteps
    <3>2. r.op = "move" /\ r.pc = pc /\ r.wants = wants /\ Modes(r.locks) = Modes(x.locks) \cup Modes(x.wants)
      BY <1>1, <3>1, StepModes DEF Steps, Alike
    <3>3. /\ Modes(r.locks) \subseteq begun
          /\ pc = "stock" => Only(r.wants, ItemKind)
          /\ pc = "ceiling" => r.wants = {}
      BY <1>1, <2>2, <3>2, ItemRowIs, ModesOf DEF MoveOrder, At
    <3>5. \A w \in r.wants : w[1] = "consumable"
      BY <3>3, KindTables DEF Only
    <3>4. MoveOrder(r)
      BY <2>2, <3>2, <3>3, ModesOf DEF MoveOrder, At, Only
    <3> QED BY <3>1, <3>2, <3>4, <3>5, MoveOrderly
  <2> QED BY <1>2, <2>1, <2>2
<1>3. CASE CheckTarget(c)
  <2>1. x.pc = "target" /\ (Go(c, "stock", ItemRow(x.on)) \/ End(c))
    BY <1>3 DEF CheckTarget, Granted
  <2> QED BY <1>2, <2>1
<1>4. CASE LockReturnableDelivery(c)
  <2>1. x.pc = "delivery" /\ (Go(c, "ceiling", {}) \/ End(c))
    BY <1>4 DEF LockReturnableDelivery, Granted
  <2> QED BY <1>2, <2>1
<1>5. CASE ReceiveBeforeWrite(c)
  <2>1. x.pc = "purchase" /\ (Go(c, "ceiling", {}) \/ End(c))
    BY <1>5 DEF ReceiveBeforeWrite, Granted
  <2> QED BY <1>2, <2>1
<1>6. CASE ReadCeiling(c)
  <2>1. x.pc = "ceiling" /\ (Go(c, "stock", ItemRow(x.on)) \/ End(c))
    BY <1>6 DEF ReadCeiling, Granted
  <2> QED BY <1>2, <2>1
<1>7. CASE MoveStock(c)
  <2>1. x.pc = "stock"
    BY <1>7 DEF MoveStock, Granted
  <2>2. CASE End(c)
    BY <1>0, <2>2, EndOrderly
  <2>3. CASE ~ End(c)
    <3> DEFINE wants == References(x)
    <3>1. PICK level : client' = [client EXCEPT ![c] = [Onward(c, "insert", wants) EXCEPT !.seen = level]]
      BY <1>7, <2>3 DEF MoveStock
    <3> DEFINE y == Onward(c, "insert", wants)
               r == [y EXCEPT !.seen = level]
    <3>2. Steps(y, x, "insert", wants)
      BY <1>0, OnwardSteps
    <3>3. DOMAIN y = DOMAIN Idle
      BY <3>2 DEF Steps, Alike
    <3>4. client'[c] = r
      BY <1>0, <3>1, IsSet
    <3>5. r.op = y.op /\ r.pc = y.pc /\ r.wants = y.wants /\ r.locks = y.locks /\ r.of = y.of
      <4> HIDE DEF y
      <4> QED BY <3>3 DEF Idle
    <3> HIDE DEF r, y
    <3>6. /\ r.op = "move" /\ r.pc = "insert" /\ r.wants = wants /\ x.locks \subseteq r.locks
          /\ r.locks = x.locks \cup x.wants
      BY <1>1, <3>2, <3>5 DEF Steps, Alike
    <3>6a. Modes(r.locks) = Modes(x.locks) \cup Modes(x.wants)
      BY <3>6, ModesOf
    <3>7. \A w \in wants : \/ w[1] = "line" /\ w[3] = "key share"
                           \/ w[1] = "movement" /\ w[3] = "key share" /\ w[2] = x.of /\ x.of # None
                           \/ w[1] = "location" /\ w[3] = "key share"
                           \/ w[1] = "asset" /\ w[3] = "key share" /\ w[2] \in Assets
      BY <1>1, ReferencesAre
    <3> HIDE DEF wants
    <3>8. Modes(r.wants) \subseteq {LineRefKind, <<"movement", "key share">>,
                                    <<"location", "key share">>, <<"asset", "key share">>}
      BY <3>6, <3>7 DEF Modes, LineRefKind
    <3>9. \A w \in r.wants : w[1] = "movement" => w[2] # None /\ DeliveryLock(w[2]) \subseteq r.locks
      BY <1>0, <2>1, <3>6, <3>7 DEF Moving, Counting
    <3>10. Modes(r.locks) \subseteq begun \cup {ItemKind}
      BY <1>1, <2>1, <3>6a DEF MoveOrder, At
    <3>11. MoveOrder(r)
      BY <3>6, <3>8, <3>9, <3>10 DEF MoveOrder, At
    <3> QED BY <3>4, <3>6, <3>7, <3>11, MoveOrderly
  <2> QED BY <2>2, <2>3
<1> QED BY <1>3, <1>4, <1>5, <1>6, <1>7
-----------------------------------------------------------------------------
(***************************************************************************)
(* Purchases and lines.                                                     *)
(***************************************************************************)
LEMMA BriefOrderly ==
    ASSUME NEW r, r.op \in Brief, r.locks = {}, NEW kind \in BriefKinds, Only(r.wants, kind)
    PROVE  Orderly(r)
<1>1. kind[1] # "asset"
  <2>1. <<"purchase", "no key update">>[1] = "purchase"
    OBVIOUS
  <2>2. kind = PlaceKind \/ kind = ShareKind \/ kind[1] = "purchase"
    BY <2>1 DEF BriefKinds
  <2> QED BY <2>2, KindTables
<1>2. Modes(r.wants) \subseteq BriefKinds /\ \A w \in r.wants : w[1] # "asset"
  BY <1>1 DEF Only
<1> QED BY <1>2 DEF Orderly, Brief, Deletes, LineOps, OtherOps

LEMMA HeaderOrderly ==
    ASSUME NEW r, r.op = "update purchase", HeaderOrder(r)
    PROVE  Orderly(r)
<1>1. \A w \in r.wants : w[1] # "asset"
  <2> SUFFICES ASSUME NEW w \in r.wants, w[1] = "asset" PROVE FALSE
    OBVIOUS
  <2>1. <<w[1], w[3]>> \in Modes(r.wants)
    BY DEF Modes
  <2>2. <<w[1], w[3]>> \in {PlaceKind, WholeKind, <<"purchase", "no key update">>}
    BY <2>1 DEF HeaderOrder, At
  <2> QED BY <2>2 DEF PlaceKind, WholeKind
<1> QED BY <1>1 DEF Orderly, Brief, Deletes, LineOps, OtherOps

LEMMA HeadersOrderly ==
    ASSUME ProcurementInv, NEW c \in Clients, Orderly(client[c]),
           \/ CreateRead(c) \/ RemoveRead(c) \/ AddLineRead(c) \/ ClearHeader(c) \/ DeliverTo(c)
           \/ UpdateLockLocation(c) \/ UpdateCheck(c)
    PROVE  Orderly(client'[c])
<1> DEFINE x == client[c]
           nku == <<"purchase", "no key update">>
<1>0. Shape /\ DOMAIN x = DOMAIN Idle
  BY InvOf
<1>1. CASE CreateRead(c)
  <2>1. PICK to : client' = [client EXCEPT ![c] =
          [Idle EXCEPT !.op = "create purchase", !.pc = "references", !.to = to, !.wants = Place(to)]]
    BY <1>1 DEF CreateRead, Begin
  <2> DEFINE w == Place(to)
             r == [Idle EXCEPT !.op = "create purchase", !.pc = "references", !.to = to, !.wants = w]
  <2>2. r.op = "create purchase" /\ r.locks = {} /\ r.wants = w
    <3> HIDE DEF w
    <3> QED BY DEF Idle
  <2>3. client'[c] = r
    BY <1>0, <2>1, IsSet
  <2> HIDE DEF r
  <2>4. PlaceKind \in BriefKinds /\ Only(w, PlaceKind) /\ r.op \in Brief
    BY <2>2, PlaceIs DEF BriefKinds, Brief
  <2> HIDE DEF w
  <2> QED BY <2>2, <2>3, <2>4, BriefOrderly
<1>2. CASE RemoveRead(c)
  <2>1. PICK p : client' = [client EXCEPT ![c] =
          [Idle EXCEPT !.op = "remove purchase", !.pc = "write", !.on = p,
                       !.wants = Row("purchase", p, "no key update")]]
    BY <1>2 DEF RemoveRead, Begin
  <2> DEFINE w == Row("purchase", p, "no key update")
             r == [Idle EXCEPT !.op = "remove purchase", !.pc = "write", !.on = p, !.wants = w]
  <2>2. r.op = "remove purchase" /\ r.locks = {} /\ r.wants = w
    <3> HIDE DEF w
    <3> QED BY DEF Idle
  <2>3. client'[c] = r
    BY <1>0, <2>1, IsSet
  <2> HIDE DEF r
  <2>4. nku \in BriefKinds /\ Only(w, nku) /\ r.op \in Brief
    BY <2>2, RowOfKind DEF BriefKinds, Brief
  <2> HIDE DEF w
  <2> QED BY <2>2, <2>3, <2>4, BriefOrderly
<1>3. CASE AddLineRead(c)
  <2>1. PICK p : client' = [client EXCEPT ![c] =
          [Idle EXCEPT !.op = "add line", !.pc = "insert", !.on = p, !.wants = Held(p)]]
    BY <1>3 DEF AddLineRead, Begin
  <2> DEFINE w == Held(p)
             r == [Idle EXCEPT !.op = "add line", !.pc = "insert", !.on = p, !.wants = w]
  <2>2. r.op = "add line" /\ r.locks = {} /\ r.wants = w
    <3> HIDE DEF w
    <3> QED BY DEF Idle
  <2>3. client'[c] = r
    BY <1>0, <2>1, IsSet
  <2> HIDE DEF r
  <2>4. ShareKind \in BriefKinds /\ Only(w, ShareKind) /\ r.op \in Brief
    BY <2>2, HeldIs DEF BriefKinds, Brief
  <2> HIDE DEF w
  <2> QED BY <2>2, <2>3, <2>4, BriefOrderly
<1>4. CASE ClearHeader(c)
  <2>1. PICK p : client' = [client EXCEPT ![c] =
          [Idle EXCEPT !.op = "update purchase", !.pc = "purchase",
                       !.change = "clear", !.on = p, !.wants = UpdateLock(p)]]
    BY <1>4 DEF ClearHeader, Begin
  <2> DEFINE w == UpdateLock(p)
             r == [Idle EXCEPT !.op = "update purchase", !.pc = "purchase",
                               !.change = "clear", !.on = p, !.wants = w]
  <2>2. r.op = "update purchase" /\ r.pc = "purchase" /\ r.on = p /\ r.locks = {} /\ r.wants = w
    <3> HIDE DEF w
    <3> QED BY DEF Idle
  <2>3. client'[c] = r
    BY <1>0, <2>1, IsSet
  <2>5. Modes(w) \subseteq {WholeKind} /\ \A row \in w : row[2] = p
    BY WholeIs DEF Only, UpdateLock
  <2> HIDE DEF r, w
  <2>4. HeaderOrder(r)
    BY <2>2, <2>5, ModesOf DEF HeaderOrder, At
  <2> QED BY <2>2, <2>3, <2>4, HeaderOrderly
<1>5. CASE DeliverTo(c)
  <2>1. PICK p, to : client' = [client EXCEPT ![c] =
          [Idle EXCEPT !.op = "update purchase", !.pc = "location", !.change = "deliver",
                       !.on = p, !.to = to, !.wants = Place(to)]]
    BY <1>5 DEF DeliverTo, Begin
  <2> DEFINE w == Place(to)
             r == [Idle EXCEPT !.op = "update purchase", !.pc = "location", !.change = "deliver",
                               !.on = p, !.to = to, !.wants = w]
  <2>2. r.op = "update purchase" /\ r.pc = "location" /\ r.on = p /\ r.locks = {} /\ r.wants = w
    <3> HIDE DEF w
    <3> QED BY DEF Idle
  <2>3. client'[c] = r
    BY <1>0, <2>1, IsSet
  <2>5. Modes(w) \subseteq {PlaceKind} /\ \A row \in w : row[1] # "purchase"
    BY PlaceIs, KindTables DEF Only
  <2> HIDE DEF r, w
  <2>4. HeaderOrder(r)
    BY <2>2, <2>5, ModesOf DEF HeaderOrder, At
  <2> QED BY <2>2, <2>3, <2>4, HeaderOrderly
<1>6. CASE UpdateLockLocation(c)
  <2>1. /\ x.op = "update purchase" /\ x.pc = "location" /\ HeaderOrder(x)
    BY <1>6 DEF UpdateLockLocation, Granted, Orderly
  <2> DEFINE w == Whole(x.on)
             y == Onward(c, "purchase", w)
             z == [x EXCEPT !.pc = "purchase", !.wants = w]
  <2>2. \E r : client'[c] = r /\ (r = y \/ r = z)
    BY <1>0, <1>6, IsSet DEF UpdateLockLocation, UpdateLock
  <2>3. Steps(y, x, "purchase", w)
    BY <1>0, OnwardSteps
  <2>4. Alike(z, x) /\ z.pc = "purchase" /\ z.wants = w /\ z.locks = x.locks
    <3> HIDE DEF w
    <3> QED BY <1>0 DEF Idle, Alike
  <2> HIDE DEF y, z
  <2>5. PICK r : /\ client'[c] = r /\ Alike(r, x) /\ r.pc = "purchase" /\ r.wants = w
                 /\ r.locks \subseteq x.locks \cup x.wants
                 /\ Modes(r.locks) \subseteq Modes(x.locks) \cup Modes(x.wants)
    BY <2>2, <2>3, <2>4, StepModes DEF Steps
  <2>6. r.op = "update purchase" /\ r.on = x.on
    BY <2>1, <2>5 DEF Alike
  <2>8. Modes(w) \subseteq {WholeKind} /\ \A row \in w : row[2] = x.on
    BY WholeIs DEF Only
  <2> HIDE DEF w
  <2>7. HeaderOrder(r)
    BY <2>1, <2>5, <2>6, <2>8 DEF HeaderOrder, At
  <2> QED BY <2>5, <2>6, <2>7, HeaderOrderly
<1>7. CASE UpdateCheck(c)
  <2>1. /\ x.op = "update purchase" /\ x.pc = "purchase" /\ HeaderOrder(x)
    BY <1>7 DEF UpdateCheck, Granted, Orderly
  <2> DEFINE w == Place(x.to) \cup Row("purchase", x.on, "no key update")
  <2>2. CASE End(c)
    BY <1>0, <2>2, EndOrderly
  <2>3. CASE Go(c, "write", w)
    <3>1. PICK r : client'[c] = r /\ Steps(r, x, "write", w)
      BY <2>3, GoSteps
    <3>2. /\ r.op = "update purchase" /\ r.pc = "write" /\ r.wants = w /\ r.on = x.on
          /\ r.locks = x.locks \cup x.wants /\ Modes(r.locks) = Modes(x.locks) \cup Modes(x.wants)
      BY <2>1, <3>1, StepModes DEF Steps, Alike
    <3>3. /\ Modes(w) = Modes(Place(x.to)) \cup Modes(Row("purchase", x.on, "no key update"))
      BY ModesOf
    <3>4. Modes(w) \subseteq {PlaceKind, nku}
      <4>1. Modes(Place(x.to)) \subseteq {PlaceKind} /\ Modes(Row("purchase", x.on, "no key update")) \subseteq {nku}
        BY PlaceIs, RowOfKind DEF Only
      <4> QED BY <3>3, <4>1
    <3>5. \A row \in w : row[1] = "purchase" => row[2] = x.on
      <4>1. /\ \A row \in Place(x.to) : row[1] = "location"
            /\ \A row \in Row("purchase", x.on, "no key update") : row[2] = x.on
        BY PlaceIs, RowOfKind, KindTables DEF Only
      <4> QED BY <4>1
    <3> HIDE DEF w
    <3>6. HeaderOrder(r)
      BY <2>1, <3>2, <3>4, <3>5 DEF HeaderOrder, At
    <3> QED BY <3>1, <3>2, <3>6, HeaderOrderly
  <2> QED BY <1>7, <2>2, <2>3 DEF UpdateCheck
<1> QED BY <1>1, <1>2, <1>3, <1>4, <1>5, <1>6, <1>7
-----------------------------------------------------------------------------
(***************************************************************************)
(* Requests on a line.                                                      *)
(***************************************************************************)
OnRow(rows, table, id) == \A w \in rows : w[1] = table => w[2] = id

OfTable(rows, S) == \A w \in rows : w[1] \in S

LEMMA LineBegins ==
    ASSUME NEW r, r.locks = {},
           \/ /\ r.op = "update line" /\ r.pc = "purchase"
              /\ Only(r.wants, IF r.change = "change kind" THEN WholeKind ELSE ShareKind)
           \/ r.op = "remove line" /\ r.pc = "purchase" /\ Only(r.wants, WholeKind)
           \/ r.op = "cancel" /\ r.pc = "first" /\ Only(r.wants, ShareKind)
           \/ r.op \in {"apply seats", "link"} /\ r.pc = "purchase" /\ Only(r.wants, ShareKind)
    PROVE  Orderly(r)
<1>1. Modes(r.locks) = {}
  BY ModesOf
<1>2. \A w \in r.locks \cup r.wants : w[1] = "purchase"
  BY KindTables DEF Only
<1>3. CASE r.op = "update line"
  <2>1. EditOrder(r)
    BY <1>1, <1>3 DEF EditOrder, At, Only
  <2> QED BY <1>2, <1>3, <2>1 DEF Orderly, Brief, LineOps, OtherOps, Deletes
<1>4. CASE r.op = "remove line"
  <2>1. DropOrder(r)
    BY <1>1, <1>4 DEF DropOrder, At, Only
  <2> QED BY <1>2, <1>4, <2>1 DEF Orderly, Brief, LineOps, OtherOps, Deletes
<1>5. CASE r.op = "cancel"
  <2>1. CancelOrder(r)
    BY <1>1, <1>5 DEF CancelOrder, At, Only
  <2> QED BY <1>2, <1>5, <2>1 DEF Orderly, Brief, LineOps, OtherOps, Deletes
<1>6. CASE r.op = "apply seats"
  <2>1. ApplyOrder(r)
    BY <1>1, <1>6 DEF ApplyOrder, At, Only
  <2> QED BY <1>2, <1>6, <2>1 DEF Orderly, Brief, LineOps, OtherOps, Deletes
<1>7. CASE r.op = "link"
  <2>1. LinkOrder(r) /\ r.pc = "purchase"
    BY <1>1, <1>7 DEF LinkOrder, At, Only
  <2> QED BY <1>2, <1>7, <2>1 DEF Orderly, Brief, LineOps, OtherOps, Deletes
<1> QED BY <1>3, <1>4, <1>5, <1>6, <1>7

LEMMA LineBeginsOrderly ==
    ASSUME ProcurementInv, NEW c \in Clients,
           UpdateLineRead(c) \/ RemoveLineRead(c) \/ CancelRead(c) \/ ApplyRead(c) \/ LinkRead(c)
    PROVE  Orderly(client'[c])
<1>0. Shape
  BY InvOf
<1>1. CASE UpdateLineRead(c)
  <2>1. PICK l, change : client' = [client EXCEPT ![c] =
                 [Idle EXCEPT !.op = "update line", !.pc = "purchase", !.change = change, !.line = l,
                              !.wants = IF change = "change kind" THEN Whole(PurchaseOf(l))
                                        ELSE Held(PurchaseOf(l))]]
    BY <1>1 DEF UpdateLineRead, Begin
  <2> DEFINE w == IF change = "change kind" THEN Whole(PurchaseOf(l)) ELSE Held(PurchaseOf(l))
             r == [Idle EXCEPT !.op = "update line", !.pc = "purchase", !.change = change,
                               !.line = l, !.wants = w]
  <2>2. /\ r.op = "update line" /\ r.pc = "purchase" /\ r.change = change /\ r.locks = {}
        /\ r.wants = w
    <3> HIDE DEF w
    <3> QED BY DEF Idle
  <2>3. client'[c] = r
    BY <1>0, <2>1, IsSet
  <2>4. Only(w, IF change = "change kind" THEN WholeKind ELSE ShareKind)
    BY WholeIs, HeldIs
  <2> HIDE DEF r, w
  <2> QED BY <2>2, <2>3, <2>4, LineBegins
<1>2. CASE RemoveLineRead(c)
  <2>1. PICK l : client' = [client EXCEPT ![c] =
                 [Idle EXCEPT !.op = "remove line", !.pc = "purchase", !.line = l,
                              !.wants = Whole(PurchaseOf(l))]]
    BY <1>2 DEF RemoveLineRead, Begin
  <2> DEFINE w == Whole(PurchaseOf(l))
             r == [Idle EXCEPT !.op = "remove line", !.pc = "purchase", !.line = l, !.wants = w]
  <2>2. r.op = "remove line" /\ r.pc = "purchase" /\ r.locks = {} /\ r.wants = w
    <3> HIDE DEF w
    <3> QED BY DEF Idle
  <2>3. client'[c] = r /\ Only(w, WholeKind)
    BY <1>0, <2>1, IsSet, WholeIs
  <2> HIDE DEF r, w
  <2> QED BY <2>2, <2>3, LineBegins
<1>3. CASE CancelRead(c)
  <2>1. PICK l : client' = [client EXCEPT ![c] =
                 [Idle EXCEPT !.op = "cancel", !.pc = "first", !.line = l, !.wants = CancelFirst(l)]]
    BY <1>3 DEF CancelRead, Begin
  <2> DEFINE w == CancelFirst(l)
             r == [Idle EXCEPT !.op = "cancel", !.pc = "first", !.line = l, !.wants = w]
  <2>2. r.op = "cancel" /\ r.pc = "first" /\ r.locks = {} /\ r.wants = w
    <3> HIDE DEF w
    <3> QED BY DEF Idle
  <2>3. client'[c] = r /\ Only(w, ShareKind)
    BY <1>0, <2>1, IsSet, HeldIs DEF CancelFirst
  <2> HIDE DEF r, w
  <2> QED BY <2>2, <2>3, LineBegins
<1>4. CASE ApplyRead(c)
  <2>1. PICK l, n : client' = [client EXCEPT ![c] =
                 [Idle EXCEPT !.op = "apply seats", !.pc = "purchase", !.line = l, !.n = n,
                              !.wants = Held(PurchaseOf(l))]]
    BY <1>4 DEF ApplyRead, Begin
  <2> DEFINE w == Held(PurchaseOf(l))
             r == [Idle EXCEPT !.op = "apply seats", !.pc = "purchase", !.line = l, !.n = n, !.wants = w]
  <2>2. r.op = "apply seats" /\ r.pc = "purchase" /\ r.locks = {} /\ r.wants = w
    <3> HIDE DEF w
    <3> QED BY DEF Idle
  <2>3. client'[c] = r /\ Only(w, ShareKind)
    BY <1>0, <2>1, IsSet, HeldIs
  <2> HIDE DEF r, w
  <2> QED BY <2>2, <2>3, LineBegins
<1>5. CASE LinkRead(c)
  <2>1. PICK l, S, change : client' = [client EXCEPT ![c] =
                 [Idle EXCEPT !.op = "link", !.pc = "purchase", !.change = change, !.line = l,
                              !.target = S, !.wants = LinkLock(PurchaseOf(l))]]
    BY <1>5 DEF LinkRead, Begin
  <2> DEFINE w == LinkLock(PurchaseOf(l))
             r == [Idle EXCEPT !.op = "link", !.pc = "purchase", !.change = change, !.line = l,
                               !.target = S, !.wants = w]
  <2>2. r.op = "link" /\ r.pc = "purchase" /\ r.locks = {} /\ r.wants = w
    <3> HIDE DEF w
    <3> QED BY DEF Idle
  <2>3. client'[c] = r /\ Only(w, ShareKind)
    BY <1>0, <2>1, IsSet, HeldIs DEF LinkLock
  <2> HIDE DEF r, w
  <2> QED BY <2>2, <2>3, LineBegins
<1> QED BY <1>1, <1>2, <1>3, <1>4, <1>5

\* A request on a line goes on: it asks for no asset, and for no other line.
LEMMA LineSteps ==
    ASSUME NEW x, NEW r, Orderly(x), x.op \in LineOps \cup {"remove line"},
           NEW pc, NEW wants, Steps(r, x, pc, wants),
           OfTable(wants, {"purchase", "line", "application", "model"}),
           OnRow(wants, "line", x.line),
           r.op = "update line" => EditOrder(r), r.op = "remove line" => DropOrder(r),
           r.op = "cancel" => CancelOrder(r), r.op = "apply seats" => ApplyOrder(r),
           r.op = "link" => LinkOrder(r), r.pc # "assets"
    PROVE  Orderly(r)
<1>1. /\ r.op = x.op /\ r.line = x.line /\ r.wants = wants
      /\ r.locks = x.locks \cup x.wants
  BY DEF Steps, Alike
<1>2. \A w \in r.wants : w[1] # "asset"
  BY <1>1 DEF OfTable
<1>3. \A w \in r.locks \cup r.wants : w[1] = "line" => w[2] = r.line
  BY <1>1 DEF OnRow, Orderly
<1> QED BY <1>1, <1>2, <1>3 DEF Orderly, Brief, LineOps, OtherOps, Deletes

\* Locks of one kind.
LEMMA OnlyTable ==
    ASSUME NEW rows, NEW kind, NEW S, kind[1] \in S, Only(rows, kind), NEW id,
           kind[1] = "line" => \A w \in rows : w[2] = id
    PROVE  OfTable(rows, S) /\ OnRow(rows, "line", id)
BY DEF Only, OfTable, OnRow

LEMMA OnwardBut ==
    ASSUME ProcurementInv, NEW c \in Clients, NEW pc, NEW wants, NEW v, NEW r,
           \/ r = Onward(c, pc, wants)
           \/ r = [Onward(c, pc, wants) EXCEPT !.seen = v]
           \/ r = [Onward(c, pc, wants) EXCEPT !.staged = v]
           \/ r = [Onward(c, pc, wants) EXCEPT !.ids = v],
           client' = [client EXCEPT ![c] = r]
    PROVE  client'[c] = r /\ Steps(r, client[c], pc, wants)
<1> DEFINE y == Onward(c, pc, wants)
<1>1. Shape /\ DOMAIN client[c] = DOMAIN Idle
  BY InvOf
<1>2. Steps(y, client[c], pc, wants)
  BY <1>1, OnwardSteps
<1>3. DOMAIN y = DOMAIN Idle
  BY <1>2 DEF Steps, Alike
<1>4. r = y \/ r = [y EXCEPT !.seen = v] \/ r = [y EXCEPT !.staged = v] \/ r = [y EXCEPT !.ids = v]
  OBVIOUS
<1>5. client'[c] = r
  BY <1>1, IsSet
<1> HIDE DEF y
<1>6. Alike(r, y) /\ r.pc = y.pc /\ r.wants = y.wants /\ r.locks = y.locks
  BY <1>3, <1>4 DEF Idle, Alike
<1>7. Alike(r, client[c])
  BY <1>2, <1>6 DEF Steps, Alike
<1> QED BY <1>2, <1>5, <1>6, <1>7 DEF Steps

\* The new rows a line will reference.
LEMMA ParentsAre ==
    ASSUME ProcurementInv, NEW l \in Lines, NEW change, NEW row \in NewValue(l, change),
           change \in {"change kind", "change quantity", "map line"}, NEW id
    PROVE  LET wants == NewParents(lines[l], row) IN
           /\ Modes(wants) \subseteq {ModelRefKind, <<"application", "key share">>}
           /\ change = "change kind" => Modes(wants) = {}
           /\ OfTable(wants, {"purchase", "line", "application", "model"}) /\ OnRow(wants, "line", id)
<1> DEFINE old == lines[l]
           A == IF row.model = old.model THEN {} ELSE Row("model", row.model, "key share")
           B == IF row.item = old.item \/ row.kind # "LICENSE" THEN {}
                ELSE Row("application", row.item, "key share")
           S == {"purchase", "line", "application", "model"}
<1>1. /\ Only(A, ModelRefKind) /\ Only(B, <<"application", "key share">>)
  BY RowOfKind, OnlyNone DEF ModelRefKind
<1>2. <<"application", "key share">>[1] = "application" /\ ModelRefKind[1] = "model"
  BY KindTables
<1>3. NewParents(old, row) = A \cup B
  BY DEF NewParents
<1>4. change = "change kind" => A = {} /\ B = {}
  <2> SUFFICES ASSUME change = "change kind" PROVE A = {} /\ B = {}
    OBVIOUS
  <2>1. row \in NewKind(l)
    BY DEF NewValue
  <2>2. PICK kind : row = [lines[l] EXCEPT !.kind = kind, !.item = None]
    BY <2>1 DEF NewKind
  <2>3. lines[l] \in LineRecord
    BY TypesOf DEF TypeOK
  <2>4. row.model = old.model /\ row.item = None
    BY <2>2, <2>3 DEF LineRecord
  <2> QED BY <2>4 DEF Row
<1> HIDE DEF A, B, old
<1>5. Modes(A \cup B) = Modes(A) \cup Modes(B)
  BY ModesOf
<1>6. Modes(A \cup B) \subseteq {ModelRefKind, <<"application", "key share">>}
  BY <1>1, <1>5 DEF Only
<1>7. change = "change kind" => Modes(A \cup B) = {}
  BY <1>4, <1>5, ModesOf
<1>8. OfTable(A \cup B, S) /\ OnRow(A \cup B, "line", id)
  BY <1>1, <1>2 DEF Only, OfTable, OnRow
<1> QED BY <1>3, <1>6, <1>7, <1>8 DEF old

LEMMA LineChecksOrderly ==
    ASSUME ProcurementInv, NEW c \in Clients, Orderly(client[c]),
           \/ UpdateLineLock(c) \/ UpdateLineCheck(c) \/ RemoveLineCheck(c)
           \/ CancelLock(c) \/ CancelCheck(c) \/ ApplyLockLine(c) \/ ApplyLockApplication(c)
           \/ ApplyCheck(c)
    PROVE  Orderly(client'[c])
<1> DEFINE x == client[c]
           l == client[c].line
           S == {"purchase", "line", "application", "model"}
<1>0. Shape /\ DOMAIN x = DOMAIN Idle
  BY InvOf
<1>a. /\ Only(LineRow(l), LineKind) /\ OfTable(LineRow(l), S) /\ OnRow(LineRow(l), "line", l)
      /\ OfTable({}, S) /\ OnRow({}, "line", l)
  BY LineRowIs, KindTables DEF Only, OfTable, OnRow
<1>1. CASE UpdateLineLock(c)
  <2>1. x.op = "update line" /\ x.pc = "purchase" /\ Go(c, "line", LineRow(l))
    BY <1>1 DEF UpdateLineLock, Granted
  <2>2. PICK r : client'[c] = r /\ Steps(r, x, "line", LineRow(l))
    BY <2>1, GoSteps
  <2>3. /\ r.op = "update line" /\ r.pc = "line" /\ r.change = x.change /\ r.wants = LineRow(l)
        /\ Modes(r.locks) = Modes(x.locks) \cup Modes(x.wants)
    BY <2>1, <2>2, StepModes DEF Steps, Alike
  <2>4. EditOrder(x)
    BY <2>1 DEF Orderly
  <2>5. EditOrder(r)
    BY <1>a, <2>1, <2>3, <2>4 DEF EditOrder, At, Only
  <2> QED BY <1>a, <2>1, <2>2, <2>3, <2>5, LineSteps DEF LineOps
<1>2. CASE UpdateLineCheck(c)
  <2>1. CASE End(c)
    BY <1>0, <2>1, EndOrderly
  <2>2. CASE ~ End(c)
    <3>1. PICK row \in NewValue(l, x.change) :
            client' = [client EXCEPT ![c] =
              [Onward(c, "write", NewParents(lines[l], row)) EXCEPT !.staged = {row}]]
      BY <1>2, <2>2 DEF UpdateLineCheck
    <3> DEFINE w == NewParents(lines[l], row)
               r == [Onward(c, "write", w) EXCEPT !.staged = {row}]
    <3>2. client'[c] = r /\ Steps(r, x, "write", w)
      BY <3>1, OnwardBut
    <3>3. x.op = "update line" /\ x.pc = "line" /\ EditOrder(x)
      BY <1>2 DEF UpdateLineCheck, Granted, Orderly
    <3>4. l \in Lines /\ x.change \in {"change kind", "change quantity", "map line"}
      BY <3>3, InvOf DEF Subject, OnLines
    <3>5. /\ Modes(w) \subseteq {ModelRefKind, <<"application", "key share">>}
          /\ x.change = "change kind" => Modes(w) = {}
          /\ OfTable(w, S) /\ OnRow(w, "line", l)
      BY <3>4, ParentsAre
    <3> HIDE DEF r, w
    <3>6. /\ r.op = "update line" /\ r.pc = "write" /\ r.change = x.change /\ r.wants = w
          /\ Modes(r.locks) = Modes(x.locks) \cup Modes(x.wants)
      BY <3>2, <3>3, StepModes DEF Steps, Alike
    <3>7. EditOrder(r)
      BY <3>3, <3>5, <3>6 DEF EditOrder, At
    <3> QED BY <3>2, <3>3, <3>5, <3>6, <3>7, LineSteps DEF LineOps
  <2> QED BY <2>1, <2>2
<1>3. CASE RemoveLineCheck(c)
  <2> DEFINE w == Row("line", l, "no key update")
             kind == <<"line", "no key update">>
  <2>1. CASE End(c)
    BY <1>0, <2>1, EndOrderly
  <2>2. CASE ~ End(c)
    <3>1. x.op = "remove line" /\ x.pc = "purchase" /\ DropOrder(x) /\ Go(c, "write", w)
      BY <1>3, <2>2 DEF RemoveLineCheck, Granted, Orderly
    <3>2. PICK r : client'[c] = r /\ Steps(r, x, "write", w)
      BY <3>1, GoSteps
    <3>3. Only(w, kind) /\ kind[1] = "line" /\ \A k \in w : k[2] = l
      BY RowOfKind
    <3> HIDE DEF w
    <3>4. OfTable(w, S) /\ OnRow(w, "line", l)
      BY <3>3 DEF OfTable, OnRow, Only
    <3>5. /\ r.op = "remove line" /\ r.pc = "write" /\ r.wants = w
          /\ Modes(r.locks) = Modes(x.locks) \cup Modes(x.wants)
      BY <3>1, <3>2, StepModes DEF Steps, Alike
    <3>6. DropOrder(r)
      BY <3>1, <3>3, <3>5 DEF DropOrder, At, Only
    <3> QED BY <3>1, <3>2, <3>4, <3>5, <3>6, LineSteps
  <2> QED BY <2>1, <2>2
<1>4. CASE CancelLock(c)
  <2> DEFINE w == LineRow(l) \cup Held(PurchaseOf(l))
  <2>1. CASE End(c)
    BY <1>0, <2>1, EndOrderly
  <2>2. CASE ~ End(c)
    <3>1. x.op = "cancel" /\ x.pc = "first" /\ CancelOrder(x) /\ Go(c, "line", w)
      BY <1>4, <2>2 DEF CancelLock, CancelLocks, Granted, Orderly
    <3>2. PICK r : client'[c] = r /\ Steps(r, x, "line", w)
      BY <3>1, GoSteps
    <3>3. Only(Held(PurchaseOf(l)), ShareKind) /\ Modes(w) = Modes(LineRow(l)) \cup Modes(Held(PurchaseOf(l)))
      BY HeldIs, ModesOf
    <3>4. OfTable(w, S) /\ OnRow(w, "line", l) /\ Modes(w) \subseteq {LineKind, ShareKind}
      BY <1>a, <3>3, KindTables DEF OfTable, OnRow, Only
    <3> HIDE DEF w
    <3>5. /\ r.op = "cancel" /\ r.pc = "line" /\ r.wants = w
          /\ Modes(r.locks) = Modes(x.locks) \cup Modes(x.wants)
      BY <3>1, <3>2, StepModes DEF Steps, Alike
    <3>6. CancelOrder(r)
      BY <3>1, <3>4, <3>5 DEF CancelOrder, At
    <3> QED BY <3>1, <3>2, <3>4, <3>5, <3>6, LineSteps DEF LineOps
  <2> QED BY <2>1, <2>2
<1>5. CASE CancelCheck(c)
  <2>1. CASE End(c)
    BY <1>0, <2>1, EndOrderly
  <2>2. CASE ~ End(c)
    <3>1. PICK n : client' = [client EXCEPT ![c] =
                     [Onward(c, "write", {}) EXCEPT !.seen = lines[l].cancelled + n]]
      BY <1>5, <2>2 DEF CancelCheck
    <3> DEFINE r == [Onward(c, "write", {}) EXCEPT !.seen = lines[l].cancelled + n]
    <3>2. client'[c] = r /\ Steps(r, x, "write", {})
      BY <3>1, OnwardBut
    <3> HIDE DEF r
    <3>3. x.op = "cancel" /\ x.pc = "line" /\ CancelOrder(x)
      BY <1>5 DEF CancelCheck, Granted, Orderly
    <3>5. /\ r.op = "cancel" /\ r.pc = "write" /\ r.wants = {}
          /\ Modes(r.locks) = Modes(x.locks) \cup Modes(x.wants)
      BY <3>2, <3>3, StepModes DEF Steps, Alike
    <3>6. CancelOrder(r)
      BY <3>3, <3>5, ModesOf DEF CancelOrder, At
    <3> QED BY <1>a, <3>2, <3>3, <3>5, <3>6, LineSteps DEF LineOps
  <2> QED BY <2>1, <2>2
<1>6. CASE ApplyLockLine(c)
  <2>1. CASE End(c)
    BY <1>0, <2>1, EndOrderly
  <2>2. CASE ~ End(c)
    <3>1. x.op = "apply seats" /\ x.pc = "purchase" /\ ApplyOrder(x) /\ Go(c, "line", LineRow(l))
      BY <1>6, <2>2 DEF ApplyLockLine, Granted, Orderly
    <3>2. PICK r : client'[c] = r /\ Steps(r, x, "line", LineRow(l))
      BY <3>1, GoSteps
    <3>5. /\ r.op = "apply seats" /\ r.pc = "line" /\ r.wants = LineRow(l)
          /\ Modes(r.locks) = Modes(x.locks) \cup Modes(x.wants)
      BY <3>1, <3>2, StepModes DEF Steps, Alike
    <3>6. ApplyOrder(r)
      BY <1>a, <3>1, <3>5 DEF ApplyOrder, At, Only
    <3> QED BY <1>a, <3>1, <3>2, <3>5, <3>6, LineSteps DEF LineOps
  <2> QED BY <2>1, <2>2
<1>7. CASE ApplyLockApplication(c)
  <2> DEFINE w == AppRow(lines[l].item)
  <2>1. CASE End(c)
    BY <1>0, <2>1, EndOrderly
  <2>2. CASE ~ End(c)
    <3>1. x.op = "apply seats" /\ x.pc = "line" /\ ApplyOrder(x) /\ Go(c, "application", w)
      BY <1>7, <2>2 DEF ApplyLockApplication, Granted, Orderly
    <3>2. PICK r : client'[c] = r /\ Steps(r, x, "application", w)
      BY <3>1, GoSteps
    <3>3. Only(w, AppKind)
      BY AppRowIs
    <3>4. OfTable(w, S) /\ OnRow(w, "line", l)
      BY <3>3, KindTables DEF OfTable, OnRow, Only
    <3> HIDE DEF w
    <3>5. /\ r.op = "apply seats" /\ r.pc = "application" /\ r.wants = w
          /\ Modes(r.locks) = Modes(x.locks) \cup Modes(x.wants)
      BY <3>1, <3>2, StepModes DEF Steps, Alike
    <3>6. ApplyOrder(r)
      BY <3>1, <3>3, <3>5 DEF ApplyOrder, At, Only
    <3> QED BY <3>1, <3>2, <3>4, <3>5, <3>6, LineSteps DEF LineOps
  <2> QED BY <2>1, <2>2
<1>8. CASE ApplyCheck(c)
  <2>1. CASE End(c)
    BY <1>0, <2>1, EndOrderly
  <2>2. CASE ~ End(c)
    <3> DEFINE to == seats[lines[l].item] + x.n
               r == [Onward(c, "write", {}) EXCEPT !.seen = to]
    <3>1. client' = [client EXCEPT ![c] = r]
      BY <1>8, <2>2 DEF ApplyCheck
    <3>2. client'[c] = r /\ Steps(r, x, "write", {})
      BY <3>1, OnwardBut
    <3> HIDE DEF r
    <3>3. x.op = "apply seats" /\ x.pc = "application" /\ ApplyOrder(x)
      BY <1>8 DEF ApplyCheck, Granted, Orderly
    <3>5. /\ r.op = "apply seats" /\ r.pc = "write" /\ r.wants = {}
          /\ Modes(r.locks) = Modes(x.locks) \cup Modes(x.wants)
      BY <3>2, <3>3, StepModes DEF Steps, Alike
    <3>6. ApplyOrder(r)
      BY <3>3, <3>5, ModesOf DEF ApplyOrder, At
    <3> QED BY <1>a, <3>2, <3>3, <3>5, <3>6, LineSteps DEF LineOps
  <2> QED BY <2>1, <2>2
<1> QED BY <1>1, <1>2, <1>3, <1>4, <1>5, <1>6, <1>7, <1>8
-----------------------------------------------------------------------------
(***************************************************************************)
(* Requests that lock assets one after the other.                           *)
(***************************************************************************)
LEMMA InTurnNames ==
    ASSUME NEW x, InTurn(x)
    PROVE  /\ Only(x.wants, AssetKind) /\ \A w \in x.wants : w[2] \in Assets
           /\ x.ids # {} => \A w \in x.wants : w[2] = Ids!Min(x.ids)
<1>1. x.wants = FirstRow("asset", "update", x.ids) /\ x.ids \in SUBSET Nat
  BY ProcurementAssumption DEF InTurn
<1>2. ASSUME NEW w \in x.wants PROVE w[2] \in Assets /\ w[2] = Ids!Min(x.ids)
  <2>1. w = <<"asset", Ids!Min(x.ids), "update">> /\ x.ids # {}
    BY <1>1 DEF FirstRow
  <2>2. w[2] = Ids!Min(x.ids)
    BY <2>1, LockIs
  <2> QED BY <1>1, <2>1, <2>2, MinIs DEF InTurn
<1> QED BY <1>1, <1>2, FirstIs

LEMMA InTurnBegins ==
    ASSUME NEW r, NEW S \in SUBSET Assets, r.ids = S, r.wants = FirstRow("asset", "update", S),
           OfTable(r.locks, {"purchase", "location"})
    PROVE  InTurn(r)
BY DEF InTurn, OfTable

LEMMA InTurnStays ==
    ASSUME NEW x, NEW r, InTurn(x), x.ids # {}, NEW pc, r.ids = x.ids \ {Ids!Min(x.ids)},
           Steps(r, x, pc, FirstRow("asset", "update", r.ids))
    PROVE  InTurn(r)
<1> DEFINE id == Ids!Min(x.ids)
<1>1. x.ids \in SUBSET Nat /\ x.ids \subseteq Assets
  BY ProcurementAssumption DEF InTurn
<1>2. id \in x.ids /\ \A i \in x.ids : id <= i
  BY <1>1, MinIs
<1>3. /\ r.wants = FirstRow("asset", "update", r.ids)
      /\ r.locks = x.locks \cup x.wants
  BY DEF Steps
<1>4. \A w \in x.wants : w[2] = id
  BY InTurnNames
<1> HIDE DEF id
<1>5. ASSUME NEW h \in r.locks, h[1] = "asset"
      PROVE  h[2] \in Assets /\ \A i \in r.ids : h[2] < i
  <2>1. CASE h \in x.locks
    BY <1>5, <2>1 DEF InTurn, id
  <2>2. CASE h \in x.wants
    BY <1>1, <1>2, <1>4, <2>2 DEF id
  <2> QED BY <1>3, <2>1, <2>2
<1> QED BY <1>1, <1>3, <1>5 DEF InTurn

LEMMA TakesFirst ==
    ASSUME ProcurementInv, NEW c \in Clients, LockNext(c, "asset", "update", {})
    PROVE  /\ client[c].ids # {}
           /\ \E r : /\ client'[c] = r /\ r.ids = client[c].ids \ {Ids!Min(client[c].ids)}
                     /\ Steps(r, client[c], client[c].pc, FirstRow("asset", "update", r.ids))
<1> DEFINE x == client[c]
           rest == x.ids \ {Ids!Min(x.ids)}
           w == FirstRow("asset", "update", rest)
           more == {"asset"} \X ({Ids!Min(x.ids)} \cap {})
           y == Onward(c, x.pc, w)
           r == [y EXCEPT !.ids = rest, !.staged = @ \cup more]
<1>0. Shape /\ DOMAIN x = DOMAIN Idle
  BY InvOf
<1>1. x.ids # {} /\ client' = [client EXCEPT ![c] = r]
  BY DEF LockNext
<1>2. Steps(y, x, x.pc, w)
  BY <1>0, OnwardSteps
<1>3. DOMAIN y = DOMAIN Idle
  BY <1>2 DEF Steps, Alike
<1>4. client'[c] = r
  BY <1>0, <1>1, IsSet
<1>5. /\ Alike(r, y) /\ r.pc = y.pc /\ r.wants = y.wants /\ r.locks = y.locks /\ r.ids = rest
  <2> HIDE DEF y, rest, more
  <2> QED BY <1>3 DEF Idle, Alike
<1> HIDE DEF y, r, w
<1>6. Alike(r, x)
  BY <1>2, <1>5 DEF Steps, Alike
<1>7. Steps(r, x, x.pc, w)
  BY <1>2, <1>5, <1>6 DEF Steps
<1> QED BY <1>1, <1>4, <1>5, <1>7 DEF w

LEMMA InTurnOrderly ==
    ASSUME NEW r, r.pc = "assets", InTurn(r),
           \/ r.op = "link" /\ LinkOrder(r) /\ OnRow(r.locks, "line", r.line)
           \/ r.op = "unlink" /\ UnlinkOrder(r)
           \/ r.op = "from assets" /\ GatherOrder(r)
    PROVE  Orderly(r)
<1>1. Only(r.wants, AssetKind) /\ \A w \in r.wants : w[2] \in Assets
  BY InTurnNames
<1>2. \A w \in r.wants : w[1] = "asset"
  BY <1>1, KindTables DEF Only
<1>3. CASE r.op = "link"
  BY <1>1, <1>2, <1>3 DEF Orderly, Brief, LineOps, OtherOps, Deletes, OnRow
<1>4. CASE r.op = "unlink"
  BY <1>1, <1>2, <1>4 DEF Orderly, Brief, LineOps, OtherOps, Deletes
<1>5. CASE r.op = "from assets"
  BY <1>1, <1>2, <1>5 DEF Orderly, Brief, LineOps, OtherOps, Deletes
<1> QED BY <1>3, <1>4, <1>5

LEMMA LockAssetsOrderly ==
    ASSUME ProcurementInv, NEW c \in Clients, Orderly(client[c]),
           NEW op \in {"link", "unlink", "from assets"}, LockAssets(c, op)
    PROVE  Orderly(client'[c])
<1> DEFINE x == client[c]
<1>1. x.op = op /\ x.pc = "assets" /\ LockNext(c, "asset", "update", {})
  BY DEF LockAssets, Granted
<1>2. InTurn(x) /\ x.ids # {}
  BY <1>1, TakesFirst DEF Orderly
<1>3. PICK r : /\ client'[c] = r /\ r.ids = x.ids \ {Ids!Min(x.ids)}
               /\ Steps(r, x, "assets", FirstRow("asset", "update", r.ids))
  BY <1>1, TakesFirst
<1>4. /\ InTurn(r) /\ Only(r.wants, AssetKind) /\ Only(x.wants, AssetKind)
  BY <1>2, <1>3, InTurnStays, InTurnNames
<1>5. /\ r.op = op /\ r.pc = "assets" /\ r.line = x.line /\ r.locks = x.locks \cup x.wants
      /\ Modes(r.locks) = Modes(x.locks) \cup Modes(x.wants)
  BY <1>1, <1>3, StepModes DEF Steps, Alike
<1>6. op = "link" => LinkOrder(r)
  <2>1. op = "link" => LinkOrder(x)
    BY <1>1 DEF Orderly
  <2> QED BY <1>1, <1>4, <1>5, <2>1 DEF LinkOrder, At, Only
<1>7. op = "link" => OnRow(r.locks, "line", r.line)
  <2>1. \A w \in x.wants : w[1] = "asset"
    BY <1>4, KindTables DEF Only
  <2>2. op = "link" => OnRow(x.locks, "line", x.line)
    BY <1>1 DEF Orderly, OnRow, LineOps
  <2> QED BY <1>5, <2>1, <2>2 DEF OnRow
<1>8. op = "unlink" => UnlinkOrder(r)
  <2>1. op = "unlink" => UnlinkOrder(x)
    BY <1>1 DEF Orderly
  <2> QED BY <1>1, <1>4, <1>5, <2>1 DEF UnlinkOrder, At, Only
<1>9. op = "from assets" => GatherOrder(r)
  <2>1. op = "from assets" => GatherOrder(x)
    BY <1>1 DEF Orderly
  <2> QED BY <1>1, <1>4, <1>5, <2>1 DEF GatherOrder, At, Only
<1>10. \/ r.op = "link" /\ LinkOrder(r) /\ OnRow(r.locks, "line", r.line)
       \/ r.op = "unlink" /\ UnlinkOrder(r)
       \/ r.op = "from assets" /\ GatherOrder(r)
  BY <1>5, <1>6, <1>7, <1>8, <1>9
<1>11. Orderly(r)
  BY <1>4, <1>5, <1>10, InTurnOrderly
<1> QED BY <1>3, <1>11

LEMMA LinkGoesOn ==
    ASSUME ProcurementInv, NEW c \in Clients, Orderly(client[c]), client[c].op = "link",
           NEW r, client'[c] = r, NEW pc \in {"model", "line", "events"}, NEW kind, NEW wants,
           Steps(r, client[c], pc, wants), Only(wants, kind),
           \/ client[c].pc = "assets" /\ pc = "model" /\ kind = ModelRefKind
           \/ client[c].pc = "model" /\ pc = "line" /\ kind = LineRefKind
           \/ client[c].pc \in {"line", "events"} /\ pc = "events" /\ kind = ShareKind,
           OnRow(wants, "line", client[c].line)
    PROVE  Orderly(client'[c])
<1> DEFINE x == client[c]
           S == {"purchase", "line", "application", "model"}
<1>1. LinkOrder(x)
  BY DEF Orderly
<1>2. /\ r.op = "link" /\ r.pc = pc /\ r.wants = wants
      /\ Modes(r.locks) = Modes(x.locks) \cup Modes(x.wants)
  BY StepModes DEF Steps, Alike
<1>3. OfTable(wants, S)
  BY KindTables DEF Only, OfTable
<1>4. LinkOrder(r)
  BY <1>1, <1>2 DEF LinkOrder, At, Only
<1>5. r.pc # "assets" /\ x.op \in LineOps \cup {"remove line"}
  BY <1>2 DEF LineOps
<1> QED BY <1>2, <1>3, <1>4, <1>5, LineSteps

LEMMA LinkOrderly ==
    ASSUME ProcurementInv, SafetyInv, NEW c \in Clients, Orderly(client[c]),
           \/ LinkCheck(c) \/ LinkAssets(c) \/ LinkApplied(c) \/ LinkWritten(c) \/ LinkEvent(c)
    PROVE  Orderly(client'[c])
<1> DEFINE x == client[c]
           l == client[c].line
<1>0. Shape /\ DOMAIN x = DOMAIN Idle /\ x.op = "link" /\ LinkOrder(x)
  BY InvOf DEF LinkCheck, LinkAssets, LinkApplied, LinkWritten, LinkEvent, Granted, Orderly
<1>1. CASE End(c)
  BY <1>0, <1>1, EndOrderly
<1>2. CASE LinkCheck(c) /\ ~ End(c)
  <2>1. PICK to, n :
          client' = [client EXCEPT ![c] =
            Queued([Onward(c, "assets", {}) EXCEPT !.to = to, !.n = n],
                   "assets", "asset", "update", client[c].target)]
    BY <1>2 DEF LinkCheck
  <2> DEFINE y == Onward(c, "assets", {})
             z == [y EXCEPT !.to = to, !.n = n]
             S == client[c].target
             w == FirstRow("asset", "update", S)
             r == Queued(z, "assets", "asset", "update", S)
  <2>2. Alike(y, x) /\ y.locks = x.locks \cup x.wants /\ x.pc = "purchase"
    <3>1. Alike(y, x) /\ y.locks = x.locks \cup x.wants
      BY <1>0, OnwardAs
    <3>2. x.pc = "purchase"
      BY <1>2 DEF LinkCheck, Granted
    <3> QED BY <3>1, <3>2
  <2>3. DOMAIN y = DOMAIN Idle /\ y.op = "link" /\ y.line = l
    BY <1>0, <2>2 DEF Alike
  <2>4. DOMAIN z = DOMAIN Idle /\ z.op = "link" /\ z.line = l /\ z.locks = y.locks
    <3> HIDE DEF y, x, S
    <3> QED BY <2>3 DEF Idle
  <2>5. r = [z EXCEPT !.pc = "assets", !.ids = S, !.wants = w]
    BY DEF Queued
  <2>6. /\ r.op = "link" /\ r.line = l /\ r.pc = "assets" /\ r.ids = S /\ r.wants = w
        /\ r.locks = z.locks
    <3> HIDE DEF z, x, S, w, r
    <3> QED BY <2>4, <2>5 DEF Idle
  <2>7. client'[c] = r
    BY <1>0, <2>1, IsSet
  <2>8. S \subseteq Assets
    BY <1>0, <2>2, CarefulOf DEF Careful, Collecting
  <2>9. r.locks = x.locks \cup x.wants
    BY <2>2, <2>4, <2>6
  <2> HIDE DEF r, S, z, y
  <2>10. /\ Modes(r.locks) = Modes(x.locks) \cup Modes(x.wants)
         /\ Modes(x.locks) = {} /\ Modes(x.wants) \subseteq {ShareKind}
    BY <1>0, <2>2, <2>9, ModesOf DEF LinkOrder, At
  <2>11. OfTable(r.locks, {"purchase"})
    <3> SUFFICES ASSUME NEW h \in r.locks PROVE h[1] = "purchase"
      BY DEF OfTable
    <3>1. <<h[1], h[3]>> = ShareKind
      BY <2>10 DEF Modes
    <3> QED BY <3>1 DEF ShareKind
  <2>12. InTurn(r)
    BY <2>6, <2>8, <2>11, InTurnBegins DEF w, OfTable
  <2>13. LinkOrder(r)
    <3>1. Only(r.wants, AssetKind)
      BY <2>12, InTurnNames
    <3> QED BY <2>6, <2>10, <3>1 DEF LinkOrder, At, Only
  <2>14. OnRow(r.locks, "line", r.line)
    BY <2>11 DEF OnRow, OfTable
  <2>15. Orderly(r)
    BY <2>6, <2>12, <2>13, <2>14, InTurnOrderly
  <2> QED BY <2>7, <2>15
<1>3. CASE LinkAssets(c) /\ ~ End(c)
  <2>1. PICK w, rows : /\ client' = [client EXCEPT ![c] = [Onward(c, "model", w) EXCEPT !.staged = rows]]
                       /\ w = {} \/ w = Row("model", x.to, "key share")
    BY <1>3 DEF LinkAssets
  <2>2. Only(w, ModelRefKind) /\ OnRow(w, "line", l)
    <3>1. Only(w, ModelRefKind)
      BY <2>1, RowOfKind, OnlyNone DEF ModelRefKind
    <3> QED BY <3>1, KindTables DEF Only, OnRow
  <2>3. x.pc = "assets"
    BY <1>3 DEF LinkAssets, Granted
  <2> DEFINE r == [Onward(c, "model", w) EXCEPT !.staged = rows]
  <2>4. client'[c] = r /\ Steps(r, x, "model", w)
    BY <2>1, OnwardBut
  <2> HIDE DEF r
  <2> QED BY <1>0, <2>2, <2>3, <2>4, LinkGoesOn
<1>4. CASE LinkApplied(c)
  <2> DEFINE w == IF x.change = "apply" THEN {} ELSE Row("line", l, "key share")
  <2>1. Go(c, "line", w) /\ x.pc = "model"
    BY <1>4 DEF LinkApplied, Granted
  <2>2. Only(w, LineRefKind) /\ OnRow(w, "line", l)
    BY RowOfKind, OnlyNone DEF LineRefKind, OnRow
  <2> HIDE DEF w
  <2>3. PICK r : client'[c] = r /\ Steps(r, x, "line", w)
    BY <2>1, GoSteps
  <2> QED BY <1>0, <2>1, <2>2, <2>3, LinkGoesOn
<1>5. CASE LinkWritten(c) \/ LinkEvent(c)
  <2>1. PICK left : NextEvent(c, left)
    BY <1>5 DEF LinkWritten, LinkEvent
  <2>2. x.pc \in {"line", "events"}
    BY <1>5 DEF LinkWritten, LinkEvent, Granted
  <2>3. PICK w, rest, r :
          /\ client' = [client EXCEPT ![c] = r]
          /\ r = Onward(c, "events", w) \/ r = [Onward(c, "events", w) EXCEPT !.ids = rest]
          /\ w = {} \/ \E p : w = Held(p)
    BY <2>1 DEF NextEvent
  <2>4. client'[c] = r /\ Steps(r, x, "events", w)
    BY <2>3, OnwardBut
  <2>5. Only(w, ShareKind) /\ OnRow(w, "line", l)
    <3>1. Only(w, ShareKind)
      BY <2>3, HeldIs, OnlyNone
    <3> QED BY <3>1, KindTables DEF Only, OnRow
  <2> QED BY <1>0, <2>2, <2>4, <2>5, LinkGoesOn
<1> QED BY <1>1, <1>2, <1>3, <1>4, <1>5

\* A request that asks for no asset now.
LEMMA OtherOrderly ==
    ASSUME NEW r, \A w \in r.wants : w[1] = "asset" => w[2] \in Assets,
           \/ r.op = "unlink" /\ UnlinkOrder(r) /\ r.pc # "assets"
           \/ r.op = "units" /\ UnitOrder(r)
           \/ r.op = "from assets" /\ GatherOrder(r) /\ r.pc # "assets"
           \/ r.op = "reparent" /\ ReparentOrder(r)
           \/ r.op = "asset" /\ AssetOrder(r)
    PROVE  Orderly(r)
BY DEF Orderly, Brief, LineOps, OtherOps, Deletes

LEMMA UnlinkOrderly ==
    ASSUME ProcurementInv, NEW c \in Clients, UnlinkRead(c) \/ (Orderly(client[c]) /\ UnlinkAssets(c))
    PROVE  Orderly(client'[c])
<1> DEFINE x == client[c]
<1>0. Shape /\ DOMAIN x = DOMAIN Idle
  BY InvOf
<1>1. CASE UnlinkRead(c)
  <2>1. PICK l, S : /\ S \subseteq Assets
                    /\ client' = [client EXCEPT ![c] =
                         Queued([Idle EXCEPT !.op = "unlink", !.change = "unlink", !.line = l,
                                             !.target = S], "assets", "asset", "update", S)]
    BY <1>1 DEF UnlinkRead, Begin, Known
  <2> DEFINE y == [Idle EXCEPT !.op = "unlink", !.change = "unlink", !.line = l, !.target = S]
             w == FirstRow("asset", "update", S)
             r == [y EXCEPT !.pc = "assets", !.ids = S, !.wants = w]
  <2>2. DOMAIN y = DOMAIN Idle /\ y.op = "unlink" /\ y.locks = {}
    BY DEF Idle
  <2>3. client'[c] = r
    BY <1>0, <2>1, IsSet DEF Queued
  <2>4. r.op = "unlink" /\ r.pc = "assets" /\ r.ids = S /\ r.wants = w /\ r.locks = {}
    <3> HIDE DEF y, w
    <3> QED BY <2>2 DEF Idle
  <2> HIDE DEF y, r
  <2>5. InTurn(r)
    BY <2>1, <2>4, InTurnBegins DEF OfTable
  <2>6. UnlinkOrder(r)
    <3>1. Only(r.wants, AssetKind) /\ Modes(r.locks) = {}
      BY <2>4, <2>5, InTurnNames, ModesOf
    <3> QED BY <2>4, <3>1 DEF UnlinkOrder, At, Only
  <2>7. Orderly(r)
    BY <2>4, <2>5, <2>6, InTurnOrderly
  <2> QED BY <2>3, <2>7
<1>2. CASE Orderly(client[c]) /\ UnlinkAssets(c)
  <2>1. CASE End(c)
    BY <1>0, <2>1, EndOrderly
  <2>2. CASE ~ End(c)
    <3> DEFINE w == Held(PurchaseOf(x.line))
               rows == Linkable(c, x.line)
               r == [Onward(c, "event", w) EXCEPT !.staged = rows]
    <3>1. client' = [client EXCEPT ![c] = r] /\ x.op = "unlink" /\ x.pc = "assets" /\ UnlinkOrder(x)
      BY <1>2, <2>2 DEF UnlinkAssets, Granted, Orderly
    <3>2. client'[c] = r /\ Steps(r, x, "event", w)
      BY <3>1, OnwardBut
    <3>3. Only(w, ShareKind)
      BY HeldIs
    <3> HIDE DEF r, w
    <3>4. /\ r.op = "unlink" /\ r.pc = "event" /\ r.wants = w
          /\ Modes(r.locks) = Modes(x.locks) \cup Modes(x.wants)
      BY <3>1, <3>2, StepModes DEF Steps, Alike
    <3>5. UnlinkOrder(r)
      BY <3>1, <3>3, <3>4 DEF UnlinkOrder, At, Only
    <3>6. \A k \in r.wants : k[1] # "asset"
      BY <3>3, <3>4, KindTables DEF Only
    <3> QED BY <3>2, <3>4, <3>5, <3>6, OtherOrderly
  <2> QED BY <2>1, <2>2
<1> QED BY <1>1, <1>2

LEMMA UnitOrderly ==
    ASSUME NEW r, r.op = "units", r.locks = {},
           \/ r.pc = "location" /\ Only(r.wants, PlaceKind)
           \/ r.pc = "event" /\ Only(r.wants, ShareKind)
    PROVE  Orderly(r)
<1>1. Modes(r.locks) = {}
  BY ModesOf
<1>2. UnitOrder(r)
  BY <1>1 DEF UnitOrder, At, Only
<1>3. \A w \in r.wants : w[1] # "asset"
  BY KindTables DEF Only
<1> QED BY <1>2, <1>3, OtherOrderly

LEMMA NewUnitOrderly ==
    ASSUME NEW line, NEW x, NEW m, NEW n, NEW seen
    PROVE  Orderly([Unit(line, x, m, n) EXCEPT !.seen = seen]) /\ Orderly(Unit(line, x, m, n))
<1> DEFINE w == Place(x)
           u == [Idle EXCEPT !.op = "units", !.pc = "location", !.line = line, !.to = x,
                             !.of = m, !.n = n, !.wants = w]
           r == [u EXCEPT !.seen = seen]
<1>1. /\ u.op = "units" /\ u.pc = "location" /\ u.locks = {} /\ u.wants = w
      /\ r.op = "units" /\ r.pc = "location" /\ r.locks = {} /\ r.wants = w
  <2> HIDE DEF w
  <2> QED BY DEF Idle
<1> HIDE DEF u, r
<1>2. Orderly(u) /\ Orderly(r)
  BY <1>1, PlaceIs, UnitOrderly
<1> QED BY <1>2 DEF u, r, Unit

LEMMA NextUnitOrderly ==
    ASSUME NEW c, NEW created
    PROVE  Orderly(NextUnit(c, created))
<1> DEFINE q == client[c]
           made == q.seen + created
           w == Held(PurchaseOf(q.line))
           u == [Unit(q.line, q.to, q.of, q.n - 1) EXCEPT !.seen = made]
           r == [Idle EXCEPT !.op = "units", !.pc = "event", !.line = q.line, !.wants = w]
<1>1. NextUnit(c, created) = u \/ NextUnit(c, created) = r \/ NextUnit(c, created) = Idle
  <2>1. CASE q.n > 1
    BY <2>1 DEF NextUnit
  <2>2. CASE ~ (q.n > 1) /\ q.n <= 1 /\ q.line # None /\ made > 0
    BY <2>2 DEF NextUnit
  <2>3. CASE ~ (q.n > 1) /\ ~ (q.n <= 1 /\ q.line # None /\ made > 0)
    BY <2>3 DEF NextUnit
  <2> QED BY <2>1, <2>2, <2>3
<1>2. Orderly(u)
  BY NewUnitOrderly
<1>3. Orderly(r)
  <2>1. r.op = "units" /\ r.pc = "event" /\ r.locks = {} /\ r.wants = w
    <3> HIDE DEF q, w
    <3> QED BY DEF Idle
  <2> HIDE DEF r
  <2> QED BY <2>1, HeldIs, UnitOrderly
<1>4. Orderly(Idle)
  BY IdleOrderly
<1> HIDE DEF u, r
<1> QED BY <1>1, <1>2, <1>3, <1>4

LEMMA UnitsOrderly ==
    ASSUME ProcurementInv, NEW c \in Clients, Orderly(client[c]),
           CreateAsset(c) \/ ReceiveUnits(c) \/ UnitCheck(c) \/ UnitInsert(c) \/ UnitsEvent(c)
    PROVE  Orderly(client'[c])
<1> DEFINE x == client[c]
<1>0. Shape /\ DOMAIN x = DOMAIN Idle
  BY InvOf
<1>1. CASE CreateAsset(c) \/ ReceiveUnits(c)
  <2>1. \E l, y, m, n : client' = [client EXCEPT ![c] = Unit(l, y, m, n)]
    <3>1. CASE CreateAsset(c)
      <4>1. PICK y \in Known(locations, Locations) \cup {None}, m \in Models \cup {None} :
              Begin(c, "create asset", Unit(None, y, m, 1))
        BY <3>1 DEF CreateAsset
      <4> QED BY <4>1 DEF Begin
    <3>2. CASE ReceiveUnits(c)
      <4>1. PICK l \in Lines, n \in 1 .. Cardinality(Assets) :
              \E at \in {purchases[PurchaseOf(l)].location, None} :
                Begin(c, "receive units", Unit(l, at, lines[l].model, n))
        BY <3>2 DEF ReceiveUnits
      <4>2. PICK at : Begin(c, "receive units", Unit(l, at, lines[l].model, n))
        BY <4>1
      <4> QED BY <4>2 DEF Begin
    <3> QED BY <1>1, <3>1, <3>2
  <2>2. PICK l, y, m, n : client' = [client EXCEPT ![c] = Unit(l, y, m, n)]
    BY <2>1
  <2>3. Orderly(Unit(l, y, m, n))
    BY NewUnitOrderly
  <2> QED BY <1>0, <2>2, <2>3, IsSet
<1>2. CASE \E created : client' = [client EXCEPT ![c] = NextUnit(c, created)]
  BY <1>0, <1>2, NextUnitOrderly, IsSet
<1>3. CASE UnitCheck(c) /\ ~ (client' = [client EXCEPT ![c] = NextUnit(c, 0)])
  <2> DEFINE A == Row("model", x.of, "key share")
             B == Row("line", x.line, "key share")
             w == A \cup B
  <2>1. Go(c, "insert", w) /\ x.op = "units" /\ x.pc = "location" /\ UnitOrder(x)
    BY <1>3 DEF UnitCheck, Granted, Go, Orderly
  <2>2. PICK r : client'[c] = r /\ Steps(r, x, "insert", w)
    BY <2>1, GoSteps
  <2>3. Only(A, ModelRefKind) /\ Only(B, LineRefKind) /\ Modes(w) = Modes(A) \cup Modes(B)
    BY RowOfKind, ModesOf DEF ModelRefKind, LineRefKind
  <2>4. Modes(w) \subseteq {ModelRefKind, LineRefKind} /\ \A k \in w : k[1] # "asset"
    <3> HIDE DEF A, B
    <3> QED BY <2>3, KindTables DEF Only
  <2> HIDE DEF w
  <2>5. /\ r.op = "units" /\ r.pc = "insert" /\ r.wants = w
        /\ Modes(r.locks) = Modes(x.locks) \cup Modes(x.wants)
    BY <2>1, <2>2, StepModes DEF Steps, Alike
  <2>6. UnitOrder(r)
    BY <2>1, <2>4, <2>5 DEF UnitOrder, At
  <2> QED BY <2>2, <2>4, <2>5, <2>6, OtherOrderly
<1>4. CASE UnitsEvent(c)
  BY <1>0, <1>4, EndOrderly DEF UnitsEvent
<1> QED BY <1>1, <1>2, <1>3, <1>4 DEF UnitInsert

LEMMA FromAssetsOrderly ==
    ASSUME ProcurementInv, NEW c \in Clients,
           \/ FromAssets(c)
           \/ /\ Orderly(client[c])
              /\ FromAssetsCheck(c) \/ FromAssetsGather(c) \/ FromAssetsModel(c)
    PROVE  Orderly(client'[c])
<1> DEFINE x == client[c]
<1>0. Shape /\ DOMAIN x = DOMAIN Idle
  BY InvOf
<1>1. CASE FromAssets(c)
  <2>1. PICK S, to : client' = [client EXCEPT ![c] =
            [Idle EXCEPT !.op = "from assets", !.pc = "references", !.change = "link", !.to = to,
                         !.target = S, !.wants = Place(to)]]
    BY <1>1 DEF FromAssets, Begin
  <2> DEFINE w == Place(to)
             r == [Idle EXCEPT !.op = "from assets", !.pc = "references", !.change = "link",
                               !.to = to, !.target = S, !.wants = w]
  <2>2. r.op = "from assets" /\ r.pc = "references" /\ r.locks = {} /\ r.wants = w
    <3> HIDE DEF w
    <3> QED BY DEF Idle
  <2>3. client'[c] = r /\ Only(w, PlaceKind)
    BY <1>0, <2>1, IsSet, PlaceIs
  <2> HIDE DEF r, w
  <2>4. GatherOrder(r) /\ \A k \in r.wants : k[1] # "asset"
    BY <2>2, <2>3, ModesOf, KindTables DEF GatherOrder, At, Only
  <2> QED BY <2>2, <2>3, <2>4, OtherOrderly
<1>2. CASE Orderly(client[c]) /\ FromAssetsCheck(c)
  <2>1. CASE End(c)
    BY <1>0, <2>1, EndOrderly
  <2>2. CASE ~ End(c)
    <3> DEFINE S == x.target
               r == Queued(Onward(c, "assets", {}), "assets", "asset", "update", S)
    <3>1. client' = [client EXCEPT ![c] = r] /\ x.op = "from assets" /\ x.pc = "references" /\ GatherOrder(x)
      BY <1>2, <2>2 DEF FromAssetsCheck, Granted, Orderly
    <3>2. S \subseteq Assets
      BY <3>1, InvOf DEF Subject
    <3>3. client'[c] = r /\ QueuedOn(r, x, "assets", "asset", "update", S)
      BY <1>0, <3>1, IsSet, QueuesAs
    <3> HIDE DEF r, S
    <3>4. /\ r.op = "from assets" /\ r.pc = "assets" /\ r.ids = S /\ r.wants = FirstRow("asset", "update", S)
          /\ r.locks = x.locks \cup x.wants
      BY <3>1, <3>3 DEF QueuedOn, Alike
    <3>5. /\ Modes(r.locks) = Modes(x.locks) \cup Modes(x.wants)
          /\ Modes(x.locks) = {} /\ Modes(x.wants) \subseteq {PlaceKind}
      <4>1. Modes(x.locks) = {} /\ Modes(x.wants) \subseteq {PlaceKind}
        <5> HIDE DEF x
        <5>1. At(x, "references", {}, {PlaceKind}) /\ x.pc = "references"
          BY <3>1 DEF GatherOrder
        <5> QED BY <5>1 DEF At
      <4>2. Modes(r.locks) = Modes(x.locks) \cup Modes(x.wants)
        BY <3>4, ModesOf
      <4> QED BY <4>1, <4>2
    <3>6. OfTable(r.locks, {"purchase", "location"})
      <4> SUFFICES ASSUME NEW h \in r.locks PROVE h[1] = "location"
        BY DEF OfTable
      <4>1. <<h[1], h[3]>> = PlaceKind
        BY <3>5 DEF Modes
      <4> QED BY <4>1 DEF PlaceKind
    <3>7. InTurn(r)
      BY <3>2, <3>4, <3>6, InTurnBegins
    <3>8. GatherOrder(r)
      <4>1. Only(r.wants, AssetKind)
        BY <3>7, InTurnNames
      <4> QED BY <3>4, <3>5, <4>1 DEF GatherOrder, At, Only
    <3>9. Orderly(r)
      BY <3>4, <3>7, <3>8, InTurnOrderly
    <3> QED BY <3>3, <3>9
  <2> QED BY <2>1, <2>2
<1>3. CASE Orderly(client[c]) /\ (FromAssetsGather(c) \/ FromAssetsModel(c))
  <2>1. x.op = "from assets" /\ x.pc \in {"assets", "models"} /\ GatherOrder(x)
    BY <1>3 DEF FromAssetsGather, FromAssetsModel, Granted, Orderly
  <2>2. PICK w, left : /\ client' = [client EXCEPT ![c] = [Onward(c, "models", w) EXCEPT !.ids = left]]
                       /\ w = {} \/ \E m : w = Row("model", m, "key share")
    BY <1>3 DEF FromAssetsGather, FromAssetsModel
  <2> DEFINE r == [Onward(c, "models", w) EXCEPT !.ids = left]
  <2>3. client'[c] = r /\ Steps(r, x, "models", w)
    BY <2>2, OnwardBut
  <2>4. Only(w, ModelRefKind)
    BY <2>2, RowOfKind, OnlyNone DEF ModelRefKind
  <2> HIDE DEF r
  <2>5. /\ r.op = "from assets" /\ r.pc = "models" /\ r.wants = w
        /\ Modes(r.locks) = Modes(x.locks) \cup Modes(x.wants)
    BY <2>1, <2>3, StepModes DEF Steps, Alike
  <2>6. GatherOrder(r)
    BY <2>1, <2>4, <2>5 DEF GatherOrder, At, Only
  <2>7. \A k \in r.wants : k[1] # "asset"
    BY <2>4, <2>5, KindTables DEF Only
  <2> QED BY <2>3, <2>5, <2>6, <2>7, OtherOrderly
<1> QED BY <1>1, <1>2, <1>3
-----------------------------------------------------------------------------
(***************************************************************************)
(* Locations, models and assets.                                            *)
(***************************************************************************)
LEMMA ReparentOrderly ==
    ASSUME ProcurementInv, NEW c \in Clients, Reparent(c) \/ (Orderly(client[c]) /\ ReparentCheck(c))
    PROVE  Orderly(client'[c])
<1> DEFINE x == client[c]
<1>0. Shape /\ DOMAIN x = DOMAIN Idle
  BY InvOf
<1>1. CASE Reparent(c)
  <2>1. PICK on, to : client' = [client EXCEPT ![c] =
            [Idle EXCEPT !.op = "reparent", !.pc = "tree", !.on = on, !.to = to, !.wants = TreeLock(on)]]
    BY <1>1 DEF Reparent, Begin
  <2> DEFINE w == TreeLock(on)
             r == [Idle EXCEPT !.op = "reparent", !.pc = "tree", !.on = on, !.to = to, !.wants = w]
  <2>2. r.op = "reparent" /\ r.pc = "tree" /\ r.locks = {} /\ r.wants = w
    <3> HIDE DEF w
    <3> QED BY DEF Idle
  <2>3. client'[c] = r /\ Only(w, TreeKind)
    BY <1>0, <2>1, IsSet, TreeIs DEF TreeLock
  <2> HIDE DEF r, w
  <2>4. ReparentOrder(r) /\ \A k \in r.wants : k[1] # "asset"
    BY <2>2, <2>3, ModesOf, KindTables DEF ReparentOrder, At, Only
  <2> QED BY <2>2, <2>3, <2>4, OtherOrderly
<1>2. CASE Orderly(client[c]) /\ ReparentCheck(c)
  <2>1. CASE End(c)
    BY <1>0, <2>1, EndOrderly
  <2>2. CASE ~ End(c)
    <3> DEFINE w == Row("location", x.on, "no key update")
               kind == <<"location", "no key update">>
    <3>1. Go(c, "write", w) /\ x.op = "reparent" /\ x.pc = "tree" /\ ReparentOrder(x)
      BY <1>2, <2>2 DEF ReparentCheck, Granted, Orderly
    <3>2. PICK r : client'[c] = r /\ Steps(r, x, "write", w)
      BY <3>1, GoSteps
    <3>3. Only(w, kind) /\ kind[1] = "location"
      BY RowOfKind
    <3> HIDE DEF w
    <3>4. /\ r.op = "reparent" /\ r.pc = "write" /\ r.wants = w
          /\ Modes(r.locks) = Modes(x.locks) \cup Modes(x.wants)
      BY <3>1, <3>2, StepModes DEF Steps, Alike
    <3>5. ReparentOrder(r)
      BY <3>1, <3>3, <3>4 DEF ReparentOrder, At, Only
    <3>6. \A k \in r.wants : k[1] # "asset"
      BY <3>3, <3>4 DEF Only
    <3> QED BY <3>2, <3>4, <3>5, <3>6, OtherOrderly
  <2> QED BY <2>1, <2>2
<1> QED BY <1>1, <1>2

LEMMA AssetsOrderly ==
    ASSUME ProcurementInv, NEW c \in Clients,
           \/ MoveAsset(c) \/ ChangeModel(c)
           \/ Orderly(client[c]) /\ (AssetLockLocation(c) \/ AssetCheck(c))
    PROVE  Orderly(client'[c])
<1> DEFINE x == client[c]
<1>0. Shape /\ DOMAIN x = DOMAIN Idle
  BY InvOf
<1>1. CASE MoveAsset(c)
  <2>1. PICK a, y : a \in Assets /\ client' = [client EXCEPT ![c] =
            [Idle EXCEPT !.op = "asset", !.pc = "location", !.on = a, !.to = y,
                         !.change = "location", !.wants = AssetPlace(y)]]
    BY <1>1 DEF MoveAsset, Begin, Known
  <2>0. a \in Assets
    BY <2>1
  <2> DEFINE w == Place(y)
             r == [Idle EXCEPT !.op = "asset", !.pc = "location", !.on = a, !.to = y,
                               !.change = "location", !.wants = w]
  <2>2. r.op = "asset" /\ r.pc = "location" /\ r.on = a /\ r.locks = {} /\ r.wants = w
    <3> HIDE DEF w
    <3> QED BY DEF Idle
  <2>3. client'[c] = r /\ Only(w, PlaceKind)
    BY <1>0, <2>1, IsSet, PlaceIs DEF AssetPlace
  <2> HIDE DEF r, w
  <2>4. AssetOrder(r) /\ \A k \in r.wants : k[1] # "asset"
    BY <2>0, <2>2, <2>3, ModesOf, KindTables DEF AssetOrder, At, Only
  <2> QED BY <2>0, <2>2, <2>3, <2>4, OtherOrderly
<1>2. CASE ChangeModel(c)
  <2>1. PICK a, m : a \in Assets /\ client' = [client EXCEPT ![c] =
            [Idle EXCEPT !.op = "asset", !.pc = "asset", !.on = a, !.to = m, !.change = "model",
                         !.wants = Row("asset", a, "update")]]
    BY <1>2 DEF ChangeModel, Begin, Known
  <2>0. a \in Assets
    BY <2>1
  <2> DEFINE w == Row("asset", a, "update")
             r == [Idle EXCEPT !.op = "asset", !.pc = "asset", !.on = a, !.to = m, !.change = "model",
                               !.wants = w]
  <2>2. r.op = "asset" /\ r.pc = "asset" /\ r.locks = {} /\ r.wants = w
    <3> HIDE DEF w
    <3> QED BY DEF Idle
  <2>3. client'[c] = r /\ Only(w, AssetKind) /\ \A k \in w : k[2] = a
    BY <1>0, <2>1, IsSet, RowOfKind DEF AssetKind
  <2> HIDE DEF r, w
  <2>4. AssetOrder(r)
    BY <2>0, <2>2, <2>3, ModesOf DEF AssetOrder, At, Only
  <2> QED BY <2>0, <2>2, <2>3, <2>4, OtherOrderly
<1>3. CASE Orderly(client[c]) /\ AssetLockLocation(c)
  <2> DEFINE w == Row("asset", x.on, "update")
             y == [Onward(c, "asset", w) EXCEPT !.seen = 1]
             z == [x EXCEPT !.pc = "asset", !.wants = w]
  <2>1. /\ x.op = "asset" /\ x.pc = "location" /\ AssetOrder(x)
        /\ client' = [client EXCEPT ![c] = y] \/ client' = [client EXCEPT ![c] = z]
    BY <1>3 DEF AssetLockLocation, Granted, Orderly
  <2>2. client' = [client EXCEPT ![c] = y] => client'[c] = y /\ Steps(y, x, "asset", w)
    BY OnwardBut
  <2>3. z.op = x.op /\ z.pc = "asset" /\ z.wants = w /\ z.locks = x.locks
    <3> HIDE DEF w, x
    <3> QED BY <1>0 DEF Idle
  <2>4. client' = [client EXCEPT ![c] = z] => client'[c] = z
    BY <1>0, IsSet
  <2>5. Only(w, AssetKind) /\ \A k \in w : k[2] = x.on
    BY RowOfKind DEF AssetKind
  <2> HIDE DEF y, z, w
  <2>6. PICK r : /\ client'[c] = r /\ r.op = "asset" /\ r.pc = "asset" /\ r.wants = w
                 /\ Modes(r.locks) \subseteq Modes(x.locks) \cup Modes(x.wants)
    BY <2>1, <2>2, <2>3, <2>4, StepModes DEF Steps, Alike
  <2>7. AssetOrder(r)
    BY <2>1, <2>5, <2>6 DEF AssetOrder, At, Only
  <2>8. x.on \in Assets
    BY <2>1 DEF AssetOrder
  <2> QED BY <2>5, <2>6, <2>7, <2>8, OtherOrderly
<1>4. CASE Orderly(client[c]) /\ AssetCheck(c)
  <2>1. CASE End(c)
    BY <1>0, <2>1, EndOrderly
  <2>2. CASE ~ End(c)
    <3>1. PICK w : /\ Go(c, "write", w) /\ x.op = "asset" /\ x.pc = "asset" /\ AssetOrder(x)
                   /\ w = {} \/ w = Row("model", x.to, "key share")
      BY <1>4, <2>2 DEF AssetCheck, Granted, Orderly
    <3>2. PICK r : client'[c] = r /\ Steps(r, x, "write", w)
      BY <3>1, GoSteps
    <3>3. Only(w, ModelRefKind)
      BY <3>1, RowOfKind, OnlyNone DEF ModelRefKind
    <3>4. /\ r.op = "asset" /\ r.pc = "write" /\ r.wants = w
          /\ Modes(r.locks) = Modes(x.locks) \cup Modes(x.wants)
      BY <3>1, <3>2, StepModes DEF Steps, Alike
    <3>5. AssetOrder(r)
      BY <3>1, <3>3, <3>4 DEF AssetOrder, At, Only
    <3>6. \A k \in r.wants : k[1] # "asset"
      BY <3>3, <3>4, KindTables DEF Only
    <3> QED BY <3>2, <3>4, <3>5, <3>6, OtherOrderly
  <2> QED BY <2>1, <2>2
<1> QED BY <1>1, <1>2, <1>3, <1>4

\* A delete stays one.
LEMMA DeletesOrderly ==
    ASSUME ProcurementInv, NEW c \in Clients,
           \/ DeleteLocation(c) \/ DeleteLockTree(c) \/ DeleteLockRow(c) \/ DeleteLockChild(c)
           \/ DeleteScanPurchases(c) \/ DeleteLockPurchase(c) \/ DeleteScanAssets(c)
           \/ DeleteLockAsset(c) \/ DeleteRefused(c)
    PROVE  Orderly(client'[c])
<1> DEFINE x == client[c]
<1>0. Shape
  BY InvOf
<1>1. ASSUME NEW r, client' = [client EXCEPT ![c] = r], r.op \in Deletes
      PROVE  Orderly(client'[c])
  <2>1. client'[c] = r
    BY <1>0, <1>1, IsSet
  <2>2. Orderly(r)
    BY <1>1, DeleteOrderly
  <2> QED BY <2>1, <2>2
<1>2. ASSUME NEW pc, NEW wants, Go(c, pc, wants), x.op = "delete location"
      PROVE  Orderly(client'[c])
  <2>1. PICK r : client'[c] = r /\ Steps(r, x, pc, wants)
    BY <1>2, GoSteps
  <2>2. r.op \in Deletes
    BY <1>2, <2>1 DEF Steps, Alike, Deletes
  <2> QED BY <2>1, <2>2, DeleteOrderly
<1>3. ASSUME NEW pc1, NEW wants, NEW pc, NEW table, NEW mode, NEW S, x.op = "delete location",
             client' = [client EXCEPT ![c] = Queued(Onward(c, pc1, wants), pc, table, mode, S)]
      PROVE  Orderly(client'[c])
  <2>1. Alike(Queued(Onward(c, pc1, wants), pc, table, mode, S), x)
    BY OnwardQueuedAs
  <2> QED BY <1>1, <1>3, <2>1 DEF Alike, Deletes
<1>4. ASSUME NEW table, NEW mode, NEW matching, LockNext(c, table, mode, matching), x.op = "delete location"
      PROVE  Orderly(client'[c])
  <2>1. PICK r : client' = [client EXCEPT ![c] = r] /\ Alike(r, x)
    BY <1>4, LockNextAs
  <2> QED BY <1>1, <1>4, <2>1 DEF Alike, Deletes
<1>5. CASE DeleteLocation(c)
  <2>1. PICK on, to, resolution, wants : client' = [client EXCEPT ![c] =
            [Idle EXCEPT !.op = "delete location", !.pc = "tree", !.on = on, !.to = to,
                         !.change = resolution, !.wants = wants]]
    BY <1>5 DEF DeleteLocation, Begin
  <2> DEFINE r == [Idle EXCEPT !.op = "delete location", !.pc = "tree", !.on = on, !.to = to,
                               !.change = resolution, !.wants = wants]
  <2>2. r.op \in Deletes
    BY DEF Idle, Deletes
  <2>3. client' = [client EXCEPT ![c] = r]
    BY <2>1
  <2> HIDE DEF r
  <2> QED BY <1>1, <2>2, <2>3
<1>6. CASE DeleteLockTree(c)
  BY <1>2, <1>6 DEF DeleteLockTree, Granted
<1>7. CASE DeleteLockRow(c)
  <2>1. CASE End(c)
    BY <1>0, <2>1, EndOrderly
  <2>2. CASE ~ End(c)
    <3>1. x.op = "delete location"
      BY <1>7 DEF DeleteLockRow, Granted
    <3>2. client' = [client EXCEPT ![c] =
            Queued(Onward(c, "children", {}), "children", "location", "no key update", Children(x.on))]
      BY <1>7, <2>2 DEF DeleteLockRow
    <3> QED BY <1>3, <3>1, <3>2
  <2> QED BY <2>1, <2>2
<1>8. CASE DeleteLockChild(c)
  BY <1>4, <1>8 DEF DeleteLockChild, Granted
<1>9. CASE DeleteScanPurchases(c)
  BY <1>3, <1>9 DEF DeleteScanPurchases, Granted
<1>10. CASE DeleteLockPurchase(c)
  BY <1>4, <1>10 DEF DeleteLockPurchase, Granted
<1>11. CASE DeleteScanAssets(c)
  BY <1>3, <1>11 DEF DeleteScanAssets, Granted
<1>12. CASE DeleteLockAsset(c)
  BY <1>4, <1>12 DEF DeleteLockAsset, Granted
<1>13. CASE DeleteRefused(c)
  BY <1>0, <1>13, EndOrderly DEF DeleteRefused
<1> QED BY <1>5, <1>6, <1>7, <1>8, <1>9, <1>10, <1>11, <1>12, <1>13

LEMMA ModelDeletesOrderly ==
    ASSUME ProcurementInv, NEW c \in Clients,
           \/ DeleteModel(c) \/ ModelLockRow(c) \/ ModelScanPurchases(c) \/ ModelLockPurchase(c)
           \/ ModelScanAssets(c) \/ ModelLockAsset(c) \/ ModelScanLines(c) \/ ModelLockLine(c)
           \/ ModelRefused(c)
    PROVE  Orderly(client'[c])
<1> DEFINE x == client[c]
<1>0. Shape
  BY InvOf
<1>1. ASSUME NEW r, client' = [client EXCEPT ![c] = r], r.op \in Deletes
      PROVE  Orderly(client'[c])
  <2>1. client'[c] = r
    BY <1>0, <1>1, IsSet
  <2>2. Orderly(r)
    BY <1>1, DeleteOrderly
  <2> QED BY <2>1, <2>2
<1>3. ASSUME NEW pc1, NEW wants, NEW pc, NEW table, NEW mode, NEW S, x.op = "delete model",
             client' = [client EXCEPT ![c] = Queued(Onward(c, pc1, wants), pc, table, mode, S)]
      PROVE  Orderly(client'[c])
  <2>1. Alike(Queued(Onward(c, pc1, wants), pc, table, mode, S), x)
    BY OnwardQueuedAs
  <2> QED BY <1>1, <1>3, <2>1 DEF Alike, Deletes
<1>4. ASSUME NEW table, NEW mode, NEW matching, LockNext(c, table, mode, matching), x.op = "delete model"
      PROVE  Orderly(client'[c])
  <2>1. PICK r : client' = [client EXCEPT ![c] = r] /\ Alike(r, x)
    BY <1>4, LockNextAs
  <2> QED BY <1>1, <1>4, <2>1 DEF Alike, Deletes
<1>5. CASE DeleteModel(c)
  <2>1. PICK m, k, resolution, S : client' = [client EXCEPT ![c] =
            Queued([Idle EXCEPT !.op = "delete model", !.on = m, !.to = k, !.change = resolution],
                   "models", "model", "update", S)]
    BY <1>5 DEF DeleteModel, Begin
  <2> DEFINE y == [Idle EXCEPT !.op = "delete model", !.on = m, !.to = k, !.change = resolution]
             r == Queued(y, "models", "model", "update", S)
  <2>2. y.op = "delete model" /\ DOMAIN y = DOMAIN Idle
    BY DEF Idle
  <2>3. Alike(r, y)
    <3> HIDE DEF y
    <3> QED BY <2>2, QueuedAs
  <2>4. r.op \in Deletes
    <3> HIDE DEF y, r
    <3> QED BY <2>2, <2>3 DEF Alike, Deletes
  <2> QED BY <1>1, <2>1, <2>4
<1>6. CASE ModelLockRow(c)
  BY <1>4, <1>6 DEF ModelLockRow, Granted
<1>7. CASE ModelScanPurchases(c)
  <2>1. CASE End(c)
    BY <1>0, <2>1, EndOrderly
  <2>2. CASE ~ End(c)
    <3> DEFINE z == Onward(c, "purchases", {})
               seen == IF x.to \in StagedOf(c, "model") THEN 1 ELSE 0
               y == [z EXCEPT !.seen = seen, !.staged = {}]
               S == {PurchaseOf(l) : l \in LinesNaming(x.on)}
               r == Queued(y, "purchases", "purchase", "share", S)
    <3>1. client' = [client EXCEPT ![c] = r] /\ x.op = "delete model"
      BY <1>7, <2>2 DEF ModelScanPurchases, Granted
    <3>2. Alike(z, x)
      BY InvOf, OnwardAs
    <3>3. Alike(y, z)
      <4>1. DOMAIN z = DOMAIN Idle
        BY <3>2 DEF Alike
      <4> HIDE DEF z, seen
      <4> QED BY <4>1 DEF Alike, Idle
    <3>4. Alike(r, y)
      <4>1. DOMAIN y = DOMAIN Idle
        BY <3>3 DEF Alike
      <4> HIDE DEF y, S
      <4> QED BY <4>1, QueuedAs
    <3> HIDE DEF r, y, z
    <3>5. r.op \in Deletes
      BY <3>1, <3>2, <3>3, <3>4 DEF Alike, Deletes
    <3> QED BY <1>1, <3>1, <3>5
  <2> QED BY <2>1, <2>2
<1>8. CASE ModelLockPurchase(c)
  BY <1>4, <1>8 DEF ModelLockPurchase, Granted
<1>9. CASE ModelScanAssets(c)
  BY <1>3, <1>9 DEF ModelScanAssets, Granted
<1>10. CASE ModelLockAsset(c)
  BY <1>4, <1>10 DEF ModelLockAsset, Granted
<1>11. CASE ModelScanLines(c)
  BY <1>3, <1>11 DEF ModelScanLines, Granted
<1>12. CASE ModelLockLine(c)
  BY <1>4, <1>12 DEF ModelLockLine, Granted
<1>13. CASE ModelRefused(c)
  BY <1>0, <1>13, EndOrderly DEF ModelRefused
<1> QED BY <1>5, <1>6, <1>7, <1>8, <1>9, <1>10, <1>11, <1>12, <1>13
-----------------------------------------------------------------------------
(***************************************************************************)
(* Every request keeps to its order.                                        *)
(***************************************************************************)
\* Every other request is where it was.
OthersStay(c) == \A d \in Clients \ {c} : client'[d] = client[d]

LEMMA OrderlyAgain ==
    ASSUME OrderInv, NEW c \in Clients, OthersStay(c), Orderly(client'[c])
    PROVE  OrderInv'
<1>1. ASSUME NEW d \in Clients PROVE Orderly(client'[d])
  BY DEF OrderInv, OthersStay
<1> QED BY <1>1 DEF OrderInv, Orderly, At, Modes, MoveOrder, HeaderOrder, EditOrder, DropOrder,
      CancelOrder, ApplyOrder, LinkOrder, UnlinkOrder, UnitOrder, GatherOrder, ReparentOrder,
      AssetOrder, InTurn, FirstRow, DeliveryLock, Row

LEMMA SameOrderly ==
    ASSUME OrderInv, client' = client
    PROVE  OrderInv'
<1>1. ASSUME NEW d \in Clients PROVE Orderly(client'[d])
  BY DEF OrderInv
<1> QED BY <1>1 DEF OrderInv, Orderly, At, Modes, MoveOrder, HeaderOrder, EditOrder, DropOrder,
      CancelOrder, ApplyOrder, LinkOrder, UnlinkOrder, UnitOrder, GatherOrder, ReparentOrder,
      AssetOrder, InTurn, FirstRow, DeliveryLock, Row

LEMMA EndOrderlyAgain ==
    ASSUME Shape, OrderInv, NEW c \in Clients, End(c)
    PROVE  OrderInv'
BY EndOrderly, EndedAs, OrderlyAgain DEF Advances, OthersStay

LEMMA SingleOrderly ==
    ASSUME OrderInv, NEW c \in Clients, NEW kind, NEW wants, Single(c, kind, wants)
    PROVE  OrderInv'
BY SameOrderly DEF Single

LEMMA StockStepOrderly ==
    ASSUME ProcurementInv, OrderInv, NEW c \in Clients, StockStep(c)
    PROVE  OrderInv'
<1>0. Orderly(client[c]) /\ Shape
  BY InvOf DEF OrderInv
<1>1. CASE \/ PostIn(c) \/ PostOut(c) \/ PostAdjustment(c) \/ PostDelivery(c)
           \/ PostReturn(c) \/ ReceiveStock(c)
  BY <1>1, PostsOrderly, PostsKept, ReturnsKept, OrderlyAgain DEF Kept, Advances, OthersStay
<1>2. CASE \/ CheckTarget(c) \/ LockReturnableDelivery(c) \/ ReceiveBeforeWrite(c)
           \/ ReadCeiling(c) \/ MoveStock(c)
  BY <1>0, <1>2, MovesOrderly, MovesKept, MoveStockKept, OrderlyAgain DEF Kept, Advances, OthersStay
<1>3. CASE RecordMovement(c)
  BY <1>0, <1>3, EndOrderlyAgain DEF RecordMovement
<1>4. CASE ArchiveItem(c) \/ RestoreItem(c)
  BY <1>4, SingleOrderly DEF ArchiveItem, RestoreItem
<1> QED BY <1>1, <1>2, <1>3, <1>4 DEF StockStep

LEMMA PurchaseStepOrderly ==
    ASSUME ProcurementInv, OrderInv, NEW c \in Clients, PurchaseStep(c)
    PROVE  OrderInv'
<1>0. Orderly(client[c]) /\ Shape
  BY InvOf DEF OrderInv
<1>1. CASE CreateRead(c) \/ RemoveRead(c) \/ AddLineRead(c) \/ ClearHeader(c) \/ DeliverTo(c)
  BY <1>0, <1>1, HeadersOrderly, PurchaseBeginsKept, OrderlyAgain DEF Kept, Advances, OthersStay
<1>2. CASE UpdateLineRead(c) \/ RemoveLineRead(c) \/ CancelRead(c) \/ ApplyRead(c)
  BY <1>2, LineBeginsOrderly, LineBeginsKept, OrderlyAgain DEF Kept, Advances, OthersStay
<1>3. CASE UpdateLockLocation(c) \/ UpdateCheck(c)
  BY <1>0, <1>3, HeadersOrderly, UpdatePurchaseKept, OrderlyAgain DEF Kept, Advances, OthersStay
<1>4. CASE UpdateLineLock(c) \/ UpdateLineCheck(c) \/ RemoveLineCheck(c)
  BY <1>0, <1>4, LineChecksOrderly, UpdateLineKept, RemoveLineKept, OrderlyAgain
     DEF Kept, Advances, OthersStay
<1>5. CASE \/ CancelLock(c) \/ CancelCheck(c)
           \/ ApplyLockLine(c) \/ ApplyLockApplication(c) \/ ApplyCheck(c)
  BY <1>0, <1>5, LineChecksOrderly, CancelKept, ApplyKept, OrderlyAgain DEF Kept, Advances, OthersStay
<1>6. CASE \/ CreateRefused(c) \/ CreateInsert(c) \/ UpdateWrite(c) \/ RemoveWrite(c) \/ AddLineInsert(c)
           \/ UpdateLineWrite(c) \/ RemoveLineWrite(c) \/ CancelWrite(c) \/ ApplyWrite(c)
  BY <1>0, <1>6, EndOrderlyAgain
     DEF CreateRefused, CreateInsert, UpdateWrite, RemoveWrite, AddLineInsert, UpdateLineWrite,
         RemoveLineWrite, CancelWrite, ApplyWrite
<1>7. CASE RestorePurchase(c)
  BY <1>7, SingleOrderly DEF RestorePurchase
<1> QED BY <1>1, <1>2, <1>3, <1>4, <1>5, <1>6, <1>7 DEF PurchaseStep

LEMMA ReceivingStepOrderly ==
    ASSUME ProcurementInv, SafetyInv, OrderInv, NEW c \in Clients, ReceivingStep(c)
    PROVE  OrderInv'
<1>0. Orderly(client[c]) /\ Shape
  BY InvOf DEF OrderInv
<1>1. CASE LinkRead(c) \/ UnlinkRead(c) \/ CreateAsset(c) \/ ReceiveUnits(c) \/ FromAssets(c)
  BY <1>0, <1>1, LineBeginsKept, ReceivingBeginsKept, LineBeginsOrderly, UnlinkOrderly, UnitsOrderly,
     FromAssetsOrderly, OrderlyAgain DEF Kept, Advances, OthersStay
<1>2. CASE LinkCheck(c) \/ LinkAssets(c) \/ LinkApplied(c) \/ LinkWritten(c) \/ LinkEvent(c)
  BY <1>0, <1>2, LinkKept, LinkOrderly, OrderlyAgain DEF Kept, Advances, OthersStay
<1>3. CASE \E op \in {"link", "unlink", "from assets"} : LockAssets(c, op)
  BY <1>0, <1>3, LinkKept, PlainReceivingKept, LockAssetsOrderly, OrderlyAgain DEF Kept, Advances, OthersStay
<1>4. CASE \/ UnitCheck(c) \/ UnitsEvent(c) \/ UnlinkAssets(c)
           \/ FromAssetsCheck(c) \/ FromAssetsGather(c) \/ FromAssetsModel(c)
  BY <1>0, <1>4, PlainReceivingKept, UnitsOrderly, UnlinkOrderly, FromAssetsOrderly, OrderlyAgain
     DEF Kept, Advances, OthersStay
<1>5. CASE LinkCommit(c) \/ UnlinkCommit(c) \/ FromAssetsRefused(c) \/ FromAssetsCommit(c)
  BY <1>0, <1>5, EndOrderlyAgain DEF LinkCommit, UnlinkCommit, FromAssetsRefused, FromAssetsCommit
<1>6. CASE UnitInsert(c)
  <2>1. \E created : client' = [client EXCEPT ![c] = NextUnit(c, created)]
    BY <1>6 DEF UnitInsert
  <2>2. OthersStay(c)
    BY <1>0, <2>1, IsSet DEF OthersStay
  <2> QED BY <1>0, <1>6, <2>2, UnitsOrderly, OrderlyAgain
<1> QED BY <1>1, <1>2, <1>3, <1>4, <1>5, <1>6 DEF ReceivingStep

LEMMA PlaceStepOrderly ==
    ASSUME ProcurementInv, OrderInv, NEW c \in Clients, PlaceStep(c)
    PROVE  OrderInv'
<1>0. Orderly(client[c]) /\ Shape
  BY InvOf DEF OrderInv
<1>1. CASE Reparent(c) \/ DeleteLocation(c) \/ DeleteModel(c) \/ MoveAsset(c) \/ ChangeModel(c)
  BY <1>0, <1>1, PlaceBeginsKept, ReparentOrderly, DeletesOrderly, ModelDeletesOrderly, AssetsOrderly,
     OrderlyAgain DEF Kept, Advances, OthersStay
<1>2. CASE \/ DeleteLockTree(c) \/ DeleteLockRow(c) \/ DeleteLockChild(c) \/ DeleteScanPurchases(c)
           \/ DeleteLockPurchase(c) \/ DeleteScanAssets(c) \/ DeleteLockAsset(c) \/ DeleteRefused(c)
  BY <1>0, <1>2, DeletesKept, DeletesOrderly, OrderlyAgain DEF Kept, Advances, OthersStay
<1>3. CASE ReparentCheck(c)
  BY <1>0, <1>3, DeletesKept, ReparentOrderly, OrderlyAgain DEF Kept, Advances, OthersStay
<1>4. CASE \/ ModelLockRow(c) \/ ModelScanPurchases(c) \/ ModelLockPurchase(c) \/ ModelScanAssets(c)
           \/ ModelLockAsset(c) \/ ModelScanLines(c) \/ ModelLockLine(c) \/ ModelRefused(c)
  BY <1>0, <1>4, ModelDeletesKept, ModelDeletesOrderly, OrderlyAgain DEF Kept, Advances, OthersStay
<1>5. CASE AssetLockLocation(c) \/ AssetCheck(c)
  BY <1>0, <1>5, PlainReceivingKept, AssetsOrderly, OrderlyAgain DEF Kept, Advances, OthersStay
<1>6. CASE ReparentWrite(c) \/ DeleteCommit(c) \/ ModelCommit(c) \/ AssetWrite(c)
  BY <1>0, <1>6, EndOrderlyAgain DEF ReparentWrite, DeleteCommit, ModelCommit, AssetWrite
<1>7. CASE \/ CreateLocation(c) \/ RestoreLocation(c) \/ RestoreModel(c) \/ RemoveAsset(c)
           \/ RestoreAsset(c)
  BY <1>7, SingleOrderly DEF CreateLocation, RestoreLocation, RestoreModel, RemoveAsset, RestoreAsset
<1> QED BY <1>1, <1>2, <1>3, <1>4, <1>5, <1>6, <1>7 DEF PlaceStep

LEMMA NextOrderly ==
    ASSUME ProcurementInv, SafetyInv, OrderInv, [Next]_procurementVars
    PROVE  OrderInv'
<1>1. ASSUME NEW c \in Clients, Work(c)
      PROVE  OrderInv'
  BY <1>1, StockStepOrderly, PurchaseStepOrderly, ReceivingStepOrderly, PlaceStepOrderly DEF Work
<1>2. ASSUME NEW c \in Clients, Fail(c)
      PROVE  OrderInv'
  BY <1>2, InvOf, EndOrderlyAgain DEF Fail
<1>3. CASE UNCHANGED procurementVars
  BY <1>3, SameOrderly DEF procurementVars
<1> QED BY <1>1, <1>2, <1>3 DEF Next

LEMMA InitOrderly ==
    ASSUME Init
    PROVE  OrderInv
BY IdleOrderly DEF Init, OrderInv

\* Every request takes its locks in the order of its kind.
THEOREM OrderKept == Spec => []OrderInv
<1>1. Init => OrderInv
  BY InitOrderly
<1>2. ProcurementInv /\ SafetyInv /\ OrderInv /\ [Next]_procurementVars => OrderInv'
  BY NextOrderly
<1> QED BY <1>1, <1>2, ProcurementKept, SafetyKept, PTL DEF Spec
-----------------------------------------------------------------------------
(***************************************************************************)
(* What a request holds comes before what it waits for.                     *)
(***************************************************************************)
\* (Models, like the tree, come first.)
Rank(table) ==
    CASE table \in {"tree", "model"} -> 0
      [] table = "location" -> 1
      [] table = "movement" -> 2
      [] table = "purchase" -> 3
      [] table = "consumable" -> 4
      [] table = "asset" -> 5
      [] table = "line" -> 6
      [] table = "application" -> 7
      [] OTHER -> 8

\* The row w is after the row h.
Before(h, w) ==
    \/ Rank(h[1]) < Rank(w[1])
    \/ h[1] = "asset" /\ w[1] = "asset" /\ h[2] \in Assets /\ w[2] \in Assets /\ h[2] < w[2]

\* No request that is no delete holds what excludes w, unless it is a whole
\* purchase, or x itself holds what excludes everyone else.
Harmless(x, w) ==
    \/ w[1] = "location" /\ w[3] \in {"share", "key share"}
    \/ w[1] = "model" /\ w[3] = "key share"
    \/ w[1] = "purchase" /\ w[3] \in {"key share", "no key update"}
    \/ w[1] = "movement" /\ w[2] # None /\ DeliveryLock(w[2]) \subseteq x.locks

Keeps(x) == \A h \in x.locks, w \in x.wants : Before(h, w) \/ Harmless(x, w)

LEMMA KindsAre ==
    ASSUME NEW x, NEW held, NEW asked, Modes(x.locks) \subseteq held, Modes(x.wants) \subseteq asked
    PROVE  \A h \in x.locks, w \in x.wants : <<h[1], h[3]>> \in held /\ <<w[1], w[3]>> \in asked
BY DEF Modes

LEMMA Ranks ==
    /\ Rank("tree") = 0 /\ Rank("model") = 0 /\ Rank("location") = 1 /\ Rank("movement") = 2 /\ Rank("purchase") = 3
    /\ Rank("consumable") = 4 /\ Rank("asset") = 5 /\ Rank("line") = 6 /\ Rank("application") = 7
BY DEF Rank

LEMMA LaterTable ==
    ASSUME NEW h, NEW w,
           \/ h[1] = "tree" /\ w[1] = "location"
           \/ h[1] = "location" /\ w[1] \in {"purchase", "asset", "line"}
           \/ h[1] = "movement" /\ w[1] \in {"consumable", "asset", "line"}
           \/ h[1] = "purchase" /\ w[1] \in {"consumable", "asset", "line", "application"}
           \/ h[1] = "consumable" /\ w[1] \in {"asset", "line"}
           \/ h[1] \in {"asset", "model"} /\ w[1] = "line"
           \/ h[1] = "line" /\ w[1] = "application"
    PROVE  Before(h, w)
BY Ranks DEF Before

LEMMA NothingHeld == ASSUME NEW x, Modes(x.locks) = {} PROVE Keeps(x)
BY DEF Modes, Keeps

LEMMA NothingAsked == ASSUME NEW x, Modes(x.wants) = {} PROVE x.wants = {} /\ Keeps(x)
BY DEF Modes, Keeps

LEMMA MoveKeeps ==
    ASSUME NEW x, MoveOrder(x)
    PROVE  Keeps(x)
<1>1. CASE x.pc \in {"target", "delivery", "purchase"}
  <2>1. Modes(x.locks) = {}
    BY <1>1 DEF MoveOrder, At
  <2> QED BY <2>1, NothingHeld
<1>2. CASE x.pc = "ceiling"
  <2>1. Modes(x.wants) = {}
    BY <1>2 DEF MoveOrder, At
  <2> QED BY <2>1, NothingAsked
<1>3. CASE x.pc = "stock"
  <2> DEFINE held == {ReturnKind, ShareKind}
  <2>1. Modes(x.locks) \subseteq held /\ Modes(x.wants) \subseteq {ItemKind}
    BY <1>3 DEF MoveOrder, At
  <2>2. ASSUME NEW h \in x.locks, NEW w \in x.wants PROVE Before(h, w)
    <3>1. <<h[1], h[3]>> \in held /\ <<w[1], w[3]>> = ItemKind
      BY <2>1, KindsAre
    <3>2. h[1] \in {"movement", "purchase"} /\ w[1] = "consumable"
      BY <3>1 DEF ReturnKind, ShareKind, ItemKind
    <3> QED BY <3>2, LaterTable
  <2> QED BY <2>2 DEF Keeps
<1>4. CASE x.pc = "insert"
  <2> DEFINE held == {ReturnKind, ShareKind, ItemKind}
             asked == {LineRefKind, <<"movement", "key share">>, <<"location", "key share">>,
                       <<"asset", "key share">>}
  <2>1. Modes(x.locks) \subseteq held /\ Modes(x.wants) \subseteq asked
    BY <1>4 DEF MoveOrder, At
  <2>2. ASSUME NEW h \in x.locks, NEW w \in x.wants PROVE Before(h, w) \/ Harmless(x, w)
    <3>1. <<h[1], h[3]>> \in held /\ <<w[1], w[3]>> \in asked
      BY <2>1, KindsAre
    <3>2. h[1] \in {"movement", "purchase", "consumable"}
      BY <3>1 DEF ReturnKind, ShareKind, ItemKind
    <3>3. w[1] \in {"line", "movement", "asset"} \/ (w[1] = "location" /\ w[3] = "key share")
      BY <3>1 DEF LineRefKind
    <3>4. CASE w[1] = "movement"
      <4>1. w[2] # None /\ DeliveryLock(w[2]) \subseteq x.locks
        BY <1>4, <3>4 DEF MoveOrder
      <4> QED BY <3>4, <4>1 DEF Harmless
    <3>5. CASE w[1] = "location" /\ w[3] = "key share"
      BY <3>5 DEF Harmless
    <3>6. CASE w[1] \in {"line", "asset"}
      BY <3>2, <3>6, LaterTable
    <3> QED BY <3>3, <3>4, <3>5, <3>6
  <2> QED BY <2>2 DEF Keeps
<1> QED BY <1>1, <1>2, <1>3, <1>4 DEF MoveOrder

LEMMA HeaderKeeps ==
    ASSUME NEW x, HeaderOrder(x)
    PROVE  Keeps(x)
<1>1. CASE x.pc = "location"
  <2>1. Modes(x.locks) = {}
    BY <1>1 DEF HeaderOrder, At
  <2> QED BY <2>1, NothingHeld
<1>2. CASE x.pc = "purchase"
  <2>1. Modes(x.locks) \subseteq {PlaceKind} /\ Modes(x.wants) \subseteq {WholeKind}
    BY <1>2 DEF HeaderOrder, At
  <2>2. ASSUME NEW h \in x.locks, NEW w \in x.wants PROVE Before(h, w)
    <3>1. <<h[1], h[3]>> = PlaceKind /\ <<w[1], w[3]>> = WholeKind
      BY <2>1, KindsAre
    <3>2. h[1] = "location" /\ w[1] = "purchase"
      BY <3>1 DEF PlaceKind, WholeKind
    <3> QED BY <3>2, LaterTable
  <2> QED BY <2>2 DEF Keeps
<1>3. CASE x.pc = "write"
  <2> DEFINE held == {PlaceKind, WholeKind}
             asked == {PlaceKind, <<"purchase", "no key update">>}
  <2>1. Modes(x.locks) \subseteq held /\ Modes(x.wants) \subseteq asked
    BY <1>3 DEF HeaderOrder, At
  <2>2. ASSUME NEW h \in x.locks, NEW w \in x.wants PROVE Harmless(x, w)
    <3>1. <<w[1], w[3]>> \in asked
      BY <2>1, KindsAre
    <3> QED BY <3>1 DEF PlaceKind, Harmless
  <2> QED BY <2>2 DEF Keeps
<1> QED BY <1>1, <1>2, <1>3 DEF HeaderOrder

LEMMA EditKeeps ==
    ASSUME NEW x, EditOrder(x)
    PROVE  Keeps(x)
<1> DEFINE share == {IF x.change = "change kind" THEN WholeKind ELSE ShareKind}
<1>0. share \subseteq {WholeKind, ShareKind}
  OBVIOUS
<1>1. CASE x.pc = "purchase"
  <2>1. Modes(x.locks) = {}
    BY <1>1 DEF EditOrder, At
  <2> QED BY <2>1, NothingHeld
<1>2. CASE x.pc = "line"
  <2>1. Modes(x.locks) \subseteq share /\ Modes(x.wants) \subseteq {LineKind}
    BY <1>2 DEF EditOrder, At
  <2> HIDE DEF share
  <2>2. ASSUME NEW h \in x.locks, NEW w \in x.wants PROVE Before(h, w)
    <3>1. <<h[1], h[3]>> \in {WholeKind, ShareKind} /\ <<w[1], w[3]>> = LineKind
      BY <1>0, <2>1, KindsAre
    <3>2. h[1] = "purchase" /\ w[1] = "line"
      BY <3>1 DEF WholeKind, ShareKind, LineKind
    <3> QED BY <3>2, LaterTable
  <2> QED BY <2>2 DEF Keeps
<1>3. CASE x.pc = "write"
  <2> DEFINE held == {WholeKind, ShareKind, LineKind}
             asked == {ModelRefKind, <<"application", "key share">>}
  <2>1. Modes(x.locks) \subseteq held /\ Modes(x.wants) \subseteq asked
    BY <1>3 DEF EditOrder, At
  <2>2. ASSUME NEW h \in x.locks, NEW w \in x.wants PROVE Before(h, w) \/ Harmless(x, w)
    <3>1. <<h[1], h[3]>> \in held /\ <<w[1], w[3]>> \in asked
      BY <2>1, KindsAre
    <3>2. h[1] \in {"purchase", "line"}
      BY <3>1 DEF WholeKind, ShareKind, LineKind
    <3>3. w[1] = "application" \/ Harmless(x, w)
      BY <3>1 DEF ModelRefKind, Harmless
    <3> QED BY <3>2, <3>3, LaterTable
  <2> QED BY <2>2 DEF Keeps
<1> QED BY <1>1, <1>2, <1>3 DEF EditOrder

LEMMA DropKeeps ==
    ASSUME NEW x, DropOrder(x)
    PROVE  Keeps(x)
<1>1. CASE x.pc = "purchase"
  <2>1. Modes(x.locks) = {}
    BY <1>1 DEF DropOrder, At
  <2> QED BY <2>1, NothingHeld
<1>2. CASE x.pc = "write"
  <2> DEFINE asked == {<<"line", "no key update">>}
  <2>1. Modes(x.locks) \subseteq {WholeKind} /\ Modes(x.wants) \subseteq asked
    BY <1>2 DEF DropOrder, At
  <2>2. ASSUME NEW h \in x.locks, NEW w \in x.wants PROVE Before(h, w)
    <3>1. <<h[1], h[3]>> = WholeKind /\ <<w[1], w[3]>> \in asked
      BY <2>1, KindsAre
    <3>2. h[1] = "purchase" /\ w[1] = "line"
      BY <3>1 DEF WholeKind
    <3> QED BY <3>2, LaterTable
  <2> QED BY <2>2 DEF Keeps
<1> QED BY <1>1, <1>2 DEF DropOrder

LEMMA CancelKeeps ==
    ASSUME NEW x, CancelOrder(x)
    PROVE  Keeps(x)
<1>1. CASE x.pc = "first"
  <2>1. Modes(x.locks) = {}
    BY <1>1 DEF CancelOrder, At
  <2> QED BY <2>1, NothingHeld
<1>2. CASE x.pc = "line"
  <2>1. Modes(x.locks) \subseteq {ShareKind} /\ Modes(x.wants) \subseteq {LineKind, ShareKind}
    BY <1>2 DEF CancelOrder, At
  <2>2. ASSUME NEW h \in x.locks, NEW w \in x.wants PROVE Before(h, w) \/ Harmless(x, w)
    <3>1. <<h[1], h[3]>> = ShareKind /\ <<w[1], w[3]>> \in {LineKind, ShareKind}
      BY <2>1, KindsAre
    <3>2. h[1] = "purchase" /\ (w[1] = "line" \/ Harmless(x, w))
      BY <3>1 DEF ShareKind, LineKind, Harmless
    <3> QED BY <3>2, LaterTable
  <2> QED BY <2>2 DEF Keeps
<1>3. CASE x.pc = "write"
  <2>1. Modes(x.wants) = {}
    BY <1>3 DEF CancelOrder, At
  <2> QED BY <2>1, NothingAsked
<1> QED BY <1>1, <1>2, <1>3 DEF CancelOrder

LEMMA ApplyKeeps ==
    ASSUME NEW x, ApplyOrder(x)
    PROVE  Keeps(x)
<1>1. CASE x.pc = "purchase"
  <2>1. Modes(x.locks) = {}
    BY <1>1 DEF ApplyOrder, At
  <2> QED BY <2>1, NothingHeld
<1>2. CASE x.pc = "line"
  <2>1. Modes(x.locks) \subseteq {ShareKind} /\ Modes(x.wants) \subseteq {LineKind}
    BY <1>2 DEF ApplyOrder, At
  <2>2. ASSUME NEW h \in x.locks, NEW w \in x.wants PROVE Before(h, w)
    <3>1. <<h[1], h[3]>> = ShareKind /\ <<w[1], w[3]>> = LineKind
      BY <2>1, KindsAre
    <3>2. h[1] = "purchase" /\ w[1] = "line"
      BY <3>1 DEF ShareKind, LineKind
    <3> QED BY <3>2, LaterTable
  <2> QED BY <2>2 DEF Keeps
<1>3. CASE x.pc = "application"
  <2>1. Modes(x.locks) \subseteq {ShareKind, LineKind} /\ Modes(x.wants) \subseteq {AppKind}
    BY <1>3 DEF ApplyOrder, At
  <2>2. ASSUME NEW h \in x.locks, NEW w \in x.wants PROVE Before(h, w)
    <3>1. <<h[1], h[3]>> \in {ShareKind, LineKind} /\ <<w[1], w[3]>> = AppKind
      BY <2>1, KindsAre
    <3>2. h[1] \in {"purchase", "line"} /\ w[1] = "application"
      BY <3>1 DEF ShareKind, LineKind, AppKind
    <3> QED BY <3>2, LaterTable
  <2> QED BY <2>2 DEF Keeps
<1>4. CASE x.pc = "write"
  <2>1. Modes(x.wants) = {}
    BY <1>4 DEF ApplyOrder, At
  <2> QED BY <2>1, NothingAsked
<1> QED BY <1>1, <1>2, <1>3, <1>4 DEF ApplyOrder

\* Of two assets the one with the smaller id comes first.
LEMMA InTurnKeeps ==
    ASSUME NEW x, InTurn(x), NEW h \in x.locks, NEW w \in x.wants, h[1] = "asset"
    PROVE  Before(h, w)
<1>1. x.ids # {} /\ x.ids \subseteq Nat /\ x.ids \subseteq Assets
  BY ProcurementAssumption DEF InTurn, FirstRow
<1>2. w = <<"asset", Ids!Min(x.ids), "update">>
  BY <1>1 DEF InTurn, FirstRow
<1>3. w[1] = "asset" /\ w[2] = Ids!Min(x.ids)
  BY <1>2, LockIs
<1>4. Ids!Min(x.ids) \in x.ids
  BY <1>1, MinIs
<1>5. h[2] \in Assets /\ h[2] < Ids!Min(x.ids)
  BY <1>4 DEF InTurn
<1> QED BY <1>1, <1>3, <1>4, <1>5 DEF Before

LEMMA LinkKeeps ==
    ASSUME NEW x, LinkOrder(x), x.pc = "assets" => InTurn(x)
    PROVE  Keeps(x)
<1>1. CASE x.pc = "purchase"
  <2>1. Modes(x.locks) = {}
    BY <1>1 DEF LinkOrder, At
  <2> QED BY <2>1, NothingHeld
<1>2. CASE x.pc = "assets"
  <2>1. Modes(x.locks) \subseteq {ShareKind, AssetKind} /\ Modes(x.wants) \subseteq {AssetKind}
    BY <1>2 DEF LinkOrder, At
  <2>2. ASSUME NEW h \in x.locks, NEW w \in x.wants PROVE Before(h, w)
    <3>1. <<h[1], h[3]>> \in {ShareKind, AssetKind} /\ <<w[1], w[3]>> = AssetKind
      BY <2>1, KindsAre
    <3>2. h[1] \in {"purchase", "asset"} /\ w[1] = "asset"
      BY <3>1 DEF ShareKind, AssetKind
    <3> QED BY <1>2, <3>2, LaterTable, InTurnKeeps
  <2> QED BY <2>2 DEF Keeps
<1>3. CASE x.pc = "model"
  <2>1. Modes(x.wants) \subseteq {ModelRefKind} /\ Modes(x.locks) \subseteq Modes(x.locks)
    BY <1>3 DEF LinkOrder, At
  <2>2. ASSUME NEW h \in x.locks, NEW w \in x.wants PROVE Harmless(x, w)
    <3>1. <<w[1], w[3]>> = ModelRefKind
      BY <2>1, KindsAre
    <3> QED BY <3>1 DEF ModelRefKind, Harmless
  <2> QED BY <2>2 DEF Keeps
<1>4. CASE x.pc = "line"
  <2> DEFINE held == {ShareKind, AssetKind, ModelRefKind}
  <2>1. Modes(x.locks) \subseteq held /\ Modes(x.wants) \subseteq {LineRefKind}
    BY <1>4 DEF LinkOrder, At
  <2>2. ASSUME NEW h \in x.locks, NEW w \in x.wants PROVE Before(h, w)
    <3>1. <<h[1], h[3]>> \in held /\ <<w[1], w[3]>> = LineRefKind
      BY <2>1, KindsAre
    <3>2. h[1] \in {"purchase", "asset", "model"} /\ w[1] = "line"
      BY <3>1 DEF ShareKind, AssetKind, LineRefKind, ModelRefKind
    <3> QED BY <3>2, LaterTable
  <2> QED BY <2>2 DEF Keeps
<1>5. CASE x.pc = "events"
  <2>1. Modes(x.wants) \subseteq {ShareKind} /\ Modes(x.locks) \subseteq Modes(x.locks)
    BY <1>5 DEF LinkOrder, At
  <2>2. ASSUME NEW h \in x.locks, NEW w \in x.wants PROVE Harmless(x, w)
    <3>1. <<w[1], w[3]>> = ShareKind
      BY <2>1, KindsAre
    <3> QED BY <3>1 DEF ShareKind, Harmless
  <2> QED BY <2>2 DEF Keeps
<1> QED BY <1>1, <1>2, <1>3, <1>4, <1>5 DEF LinkOrder

LEMMA UnlinkKeeps ==
    ASSUME NEW x, UnlinkOrder(x), x.pc = "assets" => InTurn(x)
    PROVE  Keeps(x)
<1>1. CASE x.pc = "assets"
  <2>1. Modes(x.locks) \subseteq {AssetKind} /\ Modes(x.wants) \subseteq {AssetKind}
    BY <1>1 DEF UnlinkOrder, At
  <2>2. ASSUME NEW h \in x.locks, NEW w \in x.wants PROVE Before(h, w)
    <3>1. <<h[1], h[3]>> = AssetKind
      BY <2>1, KindsAre
    <3>2. h[1] = "asset"
      BY <3>1 DEF AssetKind
    <3> QED BY <1>1, <3>2, InTurnKeeps
  <2> QED BY <2>2 DEF Keeps
<1>2. CASE x.pc = "event"
  <2>1. Modes(x.wants) \subseteq {ShareKind} /\ Modes(x.locks) \subseteq Modes(x.locks)
    BY <1>2 DEF UnlinkOrder, At
  <2>2. ASSUME NEW h \in x.locks, NEW w \in x.wants PROVE Harmless(x, w)
    <3>1. <<w[1], w[3]>> = ShareKind
      BY <2>1, KindsAre
    <3> QED BY <3>1 DEF ShareKind, Harmless
  <2> QED BY <2>2 DEF Keeps
<1> QED BY <1>1, <1>2 DEF UnlinkOrder

LEMMA UnitKeeps ==
    ASSUME NEW x, UnitOrder(x)
    PROVE  Keeps(x)
<1>1. CASE x.pc \in {"location", "event"}
  <2>1. Modes(x.locks) = {}
    BY <1>1 DEF UnitOrder, At
  <2> QED BY <2>1, NothingHeld
<1>2. CASE x.pc = "insert"
  <2>1. Modes(x.locks) \subseteq {PlaceKind} /\ Modes(x.wants) \subseteq {ModelRefKind, LineRefKind}
    BY <1>2 DEF UnitOrder, At
  <2>2. ASSUME NEW h \in x.locks, NEW w \in x.wants PROVE Before(h, w) \/ Harmless(x, w)
    <3>1. <<h[1], h[3]>> = PlaceKind /\ <<w[1], w[3]>> \in {ModelRefKind, LineRefKind}
      BY <2>1, KindsAre
    <3>2. h[1] = "location" /\ (w[1] = "line" \/ Harmless(x, w))
      BY <3>1 DEF PlaceKind, LineRefKind, ModelRefKind, Harmless
    <3> QED BY <3>2, LaterTable
  <2> QED BY <2>2 DEF Keeps
<1> QED BY <1>1, <1>2 DEF UnitOrder

LEMMA GatherKeeps ==
    ASSUME NEW x, GatherOrder(x), x.pc = "assets" => InTurn(x)
    PROVE  Keeps(x)
<1>1. CASE x.pc = "references"
  <2>1. Modes(x.locks) = {}
    BY <1>1 DEF GatherOrder, At
  <2> QED BY <2>1, NothingHeld
<1>2. CASE x.pc = "assets"
  <2>1. Modes(x.locks) \subseteq {PlaceKind, AssetKind} /\ Modes(x.wants) \subseteq {AssetKind}
    BY <1>2 DEF GatherOrder, At
  <2>2. ASSUME NEW h \in x.locks, NEW w \in x.wants PROVE Before(h, w)
    <3>1. <<h[1], h[3]>> \in {PlaceKind, AssetKind} /\ <<w[1], w[3]>> = AssetKind
      BY <2>1, KindsAre
    <3>2. h[1] \in {"location", "asset"} /\ w[1] = "asset"
      BY <3>1 DEF PlaceKind, AssetKind
    <3> QED BY <1>2, <3>2, LaterTable, InTurnKeeps
  <2> QED BY <2>2 DEF Keeps
<1>3. CASE x.pc = "models"
  <2>1. Modes(x.wants) \subseteq {ModelRefKind} /\ Modes(x.locks) \subseteq Modes(x.locks)
    BY <1>3 DEF GatherOrder, At
  <2>2. ASSUME NEW h \in x.locks, NEW w \in x.wants PROVE Harmless(x, w)
    <3>1. <<w[1], w[3]>> = ModelRefKind
      BY <2>1, KindsAre
    <3> QED BY <3>1 DEF ModelRefKind, Harmless
  <2> QED BY <2>2 DEF Keeps
<1> QED BY <1>1, <1>2, <1>3 DEF GatherOrder

LEMMA ReparentKeeps ==
    ASSUME NEW x, ReparentOrder(x)
    PROVE  Keeps(x)
<1>1. CASE x.pc = "tree"
  <2>1. Modes(x.locks) = {}
    BY <1>1 DEF ReparentOrder, At
  <2> QED BY <2>1, NothingHeld
<1>2. CASE x.pc = "write"
  <2> DEFINE asked == {<<"location", "no key update">>}
  <2>1. Modes(x.locks) \subseteq {TreeKind} /\ Modes(x.wants) \subseteq asked
    BY <1>2 DEF ReparentOrder, At
  <2>2. ASSUME NEW h \in x.locks, NEW w \in x.wants PROVE Before(h, w)
    <3>1. <<h[1], h[3]>> = TreeKind /\ <<w[1], w[3]>> \in asked
      BY <2>1, KindsAre
    <3>2. h[1] = "tree" /\ w[1] = "location"
      BY <3>1 DEF TreeKind
    <3> QED BY <3>2, LaterTable
  <2> QED BY <2>2 DEF Keeps
<1> QED BY <1>1, <1>2 DEF ReparentOrder

LEMMA AssetKeeps ==
    ASSUME NEW x, AssetOrder(x)
    PROVE  Keeps(x)
<1>1. CASE x.pc = "location"
  <2>1. Modes(x.locks) = {}
    BY <1>1 DEF AssetOrder, At
  <2> QED BY <2>1, NothingHeld
<1>2. CASE x.pc = "asset"
  <2>1. Modes(x.locks) \subseteq {PlaceKind} /\ Modes(x.wants) \subseteq {AssetKind}
    BY <1>2 DEF AssetOrder, At
  <2>2. ASSUME NEW h \in x.locks, NEW w \in x.wants PROVE Before(h, w)
    <3>1. <<h[1], h[3]>> = PlaceKind /\ <<w[1], w[3]>> = AssetKind
      BY <2>1, KindsAre
    <3>2. h[1] = "location" /\ w[1] = "asset"
      BY <3>1 DEF PlaceKind, AssetKind
    <3> QED BY <3>2, LaterTable
  <2> QED BY <2>2 DEF Keeps
<1>3. CASE x.pc = "write"
  <2>1. Modes(x.wants) \subseteq {ModelRefKind} /\ Modes(x.locks) \subseteq Modes(x.locks)
    BY <1>3 DEF AssetOrder, At
  <2>2. ASSUME NEW h \in x.locks, NEW w \in x.wants PROVE Harmless(x, w)
    <3>1. <<w[1], w[3]>> = ModelRefKind
      BY <2>1, KindsAre
    <3> QED BY <3>1 DEF ModelRefKind, Harmless
  <2> QED BY <2>2 DEF Keeps
<1> QED BY <1>1, <1>2, <1>3 DEF AssetOrder

LEMMA EveryoneKeeps ==
    ASSUME NEW x, Orderly(x), x.op \notin Deletes
    PROVE  Keeps(x)
<1>1. CASE x.op \in {"none"} \cup Brief
  <2>1. x.locks = {}
    BY <1>1 DEF Orderly
  <2> QED BY <2>1 DEF Keeps
<1>2. CASE x.op = "move"
  BY <1>2, MoveKeeps DEF Orderly
<1>3. CASE x.op = "update purchase"
  BY <1>3, HeaderKeeps DEF Orderly
<1>4. CASE x.op = "update line"
  BY <1>4, EditKeeps DEF Orderly
<1>5. CASE x.op = "remove line"
  BY <1>5, DropKeeps DEF Orderly
<1>6. CASE x.op = "cancel"
  BY <1>6, CancelKeeps DEF Orderly
<1>7. CASE x.op = "apply seats"
  BY <1>7, ApplyKeeps DEF Orderly
<1>8. CASE x.op = "link"
  BY <1>8, LinkKeeps DEF Orderly
<1>9. CASE x.op = "unlink"
  BY <1>9, UnlinkKeeps DEF Orderly
<1>10. CASE x.op = "units"
  BY <1>10, UnitKeeps DEF Orderly
<1>11. CASE x.op = "from assets"
  BY <1>11, GatherKeeps DEF Orderly
<1>12. CASE x.op = "reparent"
  BY <1>12, ReparentKeeps DEF Orderly
<1>13. CASE x.op = "asset"
  BY <1>13, AssetKeeps DEF Orderly
<1> QED BY <1>1, <1>2, <1>3, <1>4, <1>5, <1>6, <1>7, <1>8, <1>9, <1>10, <1>11, <1>12, <1>13
        DEF Orderly, LineOps, OtherOps

\* The requests that hold a whole purchase, and those that hold a line.
HasWhole(x) ==
    \/ x.op \in {"update purchase", "remove line"} /\ x.pc = "write"
    \/ x.op = "update line" /\ x.change = "change kind" /\ x.pc \in {"line", "write"}

HasLine(x) ==
    \/ x.op \in {"update line", "cancel"} /\ x.pc = "write"
    \/ x.op = "apply seats" /\ x.pc \in {"application", "write"}
    \/ x.op = "link" /\ x.pc = "events"

\* Requests share a location and a model; who holds more of a purchase than a
\* share of it holds all of it.
Lockable(x, h) ==
    /\ h[1] = "location" => h[3] = "share"
    /\ h[1] = "model" => h[3] = "key share"
    /\ h[1] = "purchase" => h[3] = "key share" \/ (h[3] = "update" /\ HasWhole(x))
    /\ h[1] = "line" => HasLine(x)

LEMMA HeldIn ==
    ASSUME NEW x, NEW h \in x.locks, NEW K, Modes(x.locks) \subseteq K
    PROVE  <<h[1], h[3]>> \in K
BY DEF Modes

LEMMA PlainLockable ==
    ASSUME NEW x, NEW h \in x.locks,
           Modes(x.locks) \subseteq {TreeKind, PlaceKind, ReturnKind, ShareKind, ItemKind, AssetKind, AppKind,
                                    ModelRefKind}
    PROVE  Lockable(x, h)
<1> DEFINE K == {TreeKind, PlaceKind, ReturnKind, ShareKind, ItemKind, AssetKind, AppKind, ModelRefKind}
<1>1. <<h[1], h[3]>> \in K
  BY HeldIn
<1>2. /\ h[1] = "location" => h[3] = "share"
      /\ h[1] = "model" => h[3] = "key share"
      /\ h[1] = "purchase" => h[3] = "key share"
      /\ h[1] # "line"
  BY <1>1 DEF TreeKind, PlaceKind, ReturnKind, ShareKind, ItemKind, AssetKind, AppKind, ModelRefKind
<1> QED BY <1>2 DEF Lockable

LEMMA HeldAre ==
    ASSUME NEW x, Orderly(x), x.op \notin Deletes, NEW h \in x.locks
    PROVE  Lockable(x, h)
<1> DEFINE K == {TreeKind, PlaceKind, ReturnKind, ShareKind, ItemKind, AssetKind, AppKind, ModelRefKind}
<1>1. CASE x.op \in {"none"} \cup Brief
  BY <1>1 DEF Orderly
<1>2. CASE x.op = "move"
  <2>1. MoveOrder(x)
    BY <1>2 DEF Orderly
  <2>2. Modes(x.locks) \subseteq K
    BY <2>1 DEF MoveOrder, At
  <2> QED BY <2>2, PlainLockable
<1>3. CASE x.op = "unlink"
  <2>1. UnlinkOrder(x)
    BY <1>3 DEF Orderly
  <2>2. Modes(x.locks) \subseteq K
    BY <2>1 DEF UnlinkOrder, At
  <2> QED BY <2>2, PlainLockable
<1>4. CASE x.op = "units"
  <2>1. UnitOrder(x)
    BY <1>4 DEF Orderly
  <2>2. Modes(x.locks) \subseteq K
    BY <2>1 DEF UnitOrder, At
  <2> QED BY <2>2, PlainLockable
<1>5. CASE x.op = "from assets"
  <2>1. GatherOrder(x)
    BY <1>5 DEF Orderly
  <2>2. Modes(x.locks) \subseteq K
    BY <2>1 DEF GatherOrder, At
  <2> QED BY <2>2, PlainLockable
<1>6. CASE x.op = "reparent"
  <2>1. ReparentOrder(x)
    BY <1>6 DEF Orderly
  <2>2. Modes(x.locks) \subseteq K
    BY <2>1 DEF ReparentOrder, At
  <2> QED BY <2>2, PlainLockable
<1>7. CASE x.op = "asset"
  <2>1. AssetOrder(x)
    BY <1>7 DEF Orderly
  <2>2. Modes(x.locks) \subseteq K
    BY <2>1 DEF AssetOrder, At
  <2> QED BY <2>2, PlainLockable
<1>8. CASE x.op = "update purchase"
  <2> DEFINE held == {PlaceKind, WholeKind}
  <2>1. HeaderOrder(x)
    BY <1>8 DEF Orderly
  <2>2. CASE x.pc \in {"location", "purchase"}
    <3>1. Modes(x.locks) \subseteq K
      BY <2>1, <2>2 DEF HeaderOrder, At
    <3> QED BY <3>1, PlainLockable
  <2>3. CASE x.pc \in {"write"}
    <3>1. Modes(x.locks) \subseteq held
      BY <2>1, <2>3 DEF HeaderOrder, At
    <3>2. <<h[1], h[3]>> \in held
      BY <3>1, HeldIn
    <3>3. /\ h[1] = "location" => h[3] = "share"
          /\ h[1] = "model" => h[3] = "key share"
          /\ h[1] = "purchase" => h[3] = "update"
          /\ h[1] # "line"
      BY <3>2 DEF PlaceKind, WholeKind
    <3> QED BY <1>8, <2>3, <3>3 DEF Lockable, HasWhole, HasLine
  <2> QED BY <2>1, <2>2, <2>3 DEF HeaderOrder
<1>9. CASE x.op = "update line"
  <2> DEFINE share == {IF x.change = "change kind" THEN WholeKind ELSE ShareKind}
  <2>1. EditOrder(x)
    BY <1>9 DEF Orderly
  <2>2. CASE x.pc = "purchase"
    <3>1. Modes(x.locks) \subseteq K
      BY <2>1, <2>2 DEF EditOrder, At
    <3> QED BY <3>1, PlainLockable
  <2>3. CASE x.pc = "line"
    <3>1. Modes(x.locks) \subseteq share
      BY <2>1, <2>3 DEF EditOrder, At
    <3>2. <<h[1], h[3]>> \in share
      BY <3>1, HeldIn
    <3>3. h[1] = "purchase" /\ (h[3] = "key share" \/ (h[3] = "update" /\ x.change = "change kind"))
      BY <3>2 DEF WholeKind, ShareKind
    <3> QED BY <1>9, <2>3, <3>3 DEF Lockable, HasWhole
  <2>4. CASE x.pc = "write"
    <3>1. Modes(x.locks) \subseteq share \cup {LineKind}
      BY <2>1, <2>4 DEF EditOrder, At
    <3>2. <<h[1], h[3]>> \in share \cup {LineKind}
      BY <3>1, HeldIn
    <3>3. \/ h[1] = "purchase" /\ (h[3] = "key share" \/ (h[3] = "update" /\ x.change = "change kind"))
          \/ h[1] = "line"
      BY <3>2 DEF WholeKind, ShareKind, LineKind
    <3> QED BY <1>9, <2>4, <3>3 DEF Lockable, HasWhole, HasLine
  <2> QED BY <2>1, <2>2, <2>3, <2>4 DEF EditOrder
<1>10. CASE x.op = "remove line"
  <2> DEFINE held == {WholeKind}
  <2>1. DropOrder(x)
    BY <1>10 DEF Orderly
  <2>2. CASE x.pc \in {"purchase"}
    <3>1. Modes(x.locks) \subseteq K
      BY <2>1, <2>2 DEF DropOrder, At
    <3> QED BY <3>1, PlainLockable
  <2>3. CASE x.pc \in {"write"}
    <3>1. Modes(x.locks) \subseteq held
      BY <2>1, <2>3 DEF DropOrder, At
    <3>2. <<h[1], h[3]>> \in held
      BY <3>1, HeldIn
    <3>3. /\ h[1] = "location" => h[3] = "share"
          /\ h[1] = "model" => h[3] = "key share"
          /\ h[1] = "purchase" => h[3] = "update"
          /\ h[1] # "line"
      BY <3>2 DEF WholeKind
    <3> QED BY <1>10, <2>3, <3>3 DEF Lockable, HasWhole, HasLine
  <2> QED BY <2>1, <2>2, <2>3 DEF DropOrder
<1>11. CASE x.op = "cancel"
  <2> DEFINE held == {ShareKind, LineKind}
  <2>1. CancelOrder(x)
    BY <1>11 DEF Orderly
  <2>2. CASE x.pc \in {"first", "line"}
    <3>1. Modes(x.locks) \subseteq K
      BY <2>1, <2>2 DEF CancelOrder, At
    <3> QED BY <3>1, PlainLockable
  <2>3. CASE x.pc \in {"write"}
    <3>1. Modes(x.locks) \subseteq held
      BY <2>1, <2>3 DEF CancelOrder, At
    <3>2. <<h[1], h[3]>> \in held
      BY <3>1, HeldIn
    <3>3. /\ h[1] = "location" => h[3] = "share"
          /\ h[1] = "model" => h[3] = "key share"
          /\ h[1] = "purchase" => h[3] = "key share"
          /\ h[1] \in {"purchase", "line", "asset", "model", "application"}
      BY <3>2 DEF ShareKind, LineKind
    <3> QED BY <1>11, <2>3, <3>3 DEF Lockable, HasWhole, HasLine
  <2> QED BY <2>1, <2>2, <2>3 DEF CancelOrder
<1>12. CASE x.op = "apply seats"
  <2> DEFINE held == {ShareKind, LineKind, AppKind}
  <2>1. ApplyOrder(x)
    BY <1>12 DEF Orderly
  <2>2. CASE x.pc \in {"purchase", "line"}
    <3>1. Modes(x.locks) \subseteq K
      BY <2>1, <2>2 DEF ApplyOrder, At
    <3> QED BY <3>1, PlainLockable
  <2>3. CASE x.pc \in {"application", "write"}
    <3>1. Modes(x.locks) \subseteq held
      BY <2>1, <2>3 DEF ApplyOrder, At
    <3>2. <<h[1], h[3]>> \in held
      BY <3>1, HeldIn
    <3>3. /\ h[1] = "location" => h[3] = "share"
          /\ h[1] = "model" => h[3] = "key share"
          /\ h[1] = "purchase" => h[3] = "key share"
          /\ h[1] \in {"purchase", "line", "asset", "model", "application"}
      BY <3>2 DEF ShareKind, LineKind, AppKind
    <3> QED BY <1>12, <2>3, <3>3 DEF Lockable, HasWhole, HasLine
  <2> QED BY <2>1, <2>2, <2>3 DEF ApplyOrder
<1>13. CASE x.op = "link"
  <2> DEFINE held == {ShareKind, AssetKind, ModelRefKind, LineRefKind}
  <2>1. LinkOrder(x)
    BY <1>13 DEF Orderly
  <2>2. CASE x.pc \in {"purchase", "assets", "model", "line"}
    <3>1. Modes(x.locks) \subseteq K
      BY <2>1, <2>2 DEF LinkOrder, At
    <3> QED BY <3>1, PlainLockable
  <2>3. CASE x.pc \in {"events"}
    <3>1. Modes(x.locks) \subseteq held
      BY <2>1, <2>3 DEF LinkOrder, At
    <3>2. <<h[1], h[3]>> \in held
      BY <3>1, HeldIn
    <3>3. /\ h[1] = "location" => h[3] = "share"
          /\ h[1] = "model" => h[3] = "key share"
          /\ h[1] = "purchase" => h[3] = "key share"
          /\ h[1] \in {"purchase", "line", "asset", "model", "application"}
      BY <3>2 DEF ShareKind, AssetKind, LineRefKind, ModelRefKind
    <3> QED BY <1>13, <2>3, <3>3 DEF Lockable, HasWhole, HasLine
  <2> QED BY <2>1, <2>2, <2>3 DEF LinkOrder
<1> QED BY <1>1, <1>2, <1>3, <1>4, <1>5, <1>6, <1>7, <1>8, <1>9, <1>10, <1>11, <1>12, <1>13
        DEF Orderly, LineOps, OtherOps
-----------------------------------------------------------------------------
(***************************************************************************)
(* Whoever holds a whole purchase waits for no one that waits.              *)
(***************************************************************************)
LEMMA PurchaseThere ==
    ASSUME ProcurementInv, NEW l \in Lines
    PROVE  PurchaseOf(l) \in Purchases /\ PurchaseOf(l) # None
<1>1. lines[l] \in LineRecord
  BY TypesOf DEF TypeOK
<1>2. PurchaseOf(l) \in Purchases
  BY <1>1 DEF LineRecord, PurchaseOf
<1> QED BY <1>2, ProcurementAssumption

LEMMA LineHolders ==
    ASSUME ProcurementInv, OrderInv, NEW e \in Clients, client[e].op \notin Deletes,
           NEW k \in client[e].locks, k[1] = "line", client[e].wants # {}
    PROVE  /\ k[2] = client[e].line /\ client[e].line \in Lines
           /\ \E q \in client[e].locks : q[1] = "purchase" /\ q[2] = PurchaseOf(client[e].line)
<1> DEFINE y == client[e]
           p == PurchaseOf(y.line)
<1>1. Orderly(y) /\ Standing(y) /\ Subject(y)
  BY InvOf DEF OrderInv
<1>2. HasLine(y)
  BY <1>1, HeldAre DEF Lockable
<1>3. y.op # "cancel"
  <2> SUFFICES ASSUME y.op = "cancel" PROVE FALSE
    OBVIOUS
  <2>1. CancelOrder(y) /\ y.pc = "write"
    BY <1>1, <1>2 DEF HasLine, Orderly
  <2>2. Modes(y.wants) = {}
    BY <2>1 DEF CancelOrder, At
  <2> QED BY <2>2, NothingAsked
<1>4. y.op \in {"update line", "apply seats", "link"} /\ y.pc # "purchase"
  BY <1>2, <1>3 DEF HasLine
<1>5. y.line \in Lines
  BY <1>1, <1>4 DEF Subject, OnLines
<1>6. k[2] = y.line
  BY <1>1, <1>4 DEF Orderly, LineOps
<1>7. Held(p) \subseteq y.locks \/ Whole(p) \subseteq y.locks
  <2>1. CASE y.op = "update line"
    BY <1>1, <1>2, <2>1 DEF HasLine, Standing, Updating, ShareOf
  <2>2. CASE y.op = "apply seats"
    BY <1>1, <1>2, <2>2 DEF HasLine, Standing, Applying
  <2>3. CASE y.op = "link"
    BY <1>1, <1>4, <2>3 DEF Standing, Linking
  <2> QED BY <1>4, <2>1, <2>2, <2>3
<1>8. p # None
  BY <1>5, PurchaseThere
<1> HIDE DEF p, y
<1>9. Held(p) = {<<"purchase", p, "key share">>} /\ Whole(p) = {<<"purchase", p, "update">>}
  BY <1>8 DEF Held, Whole, Row
<1>10. PICK q \in y.locks : q = <<"purchase", p, "key share">> \/ q = <<"purchase", p, "update">>
  BY <1>7, <1>9
<1>11. q[1] = "purchase" /\ q[2] = p
  <2>1. CASE q = <<"purchase", p, "key share">>
    BY <2>1, LockIs
  <2>2. CASE q = <<"purchase", p, "update">>
    BY <2>2, LockIs
  <2> QED BY <1>10, <2>1, <2>2
<1> QED BY <1>5, <1>6, <1>11 DEF p, y

LEMMA WholeWaitsForNone ==
    ASSUME ProcurementInv, OrderInv, NEW d \in Clients, NEW e \in Clients, d # e,
           client[d].op \notin Deletes, client[e].op \notin Deletes,
           NEW h \in client[d].locks, h[1] = "purchase", h[3] = "update",
           NEW w \in client[d].wants, NEW k \in client[e].locks, Blocks(k, w), client[e].wants # {}
    PROVE  FALSE
<1> DEFINE x == client[d]
           p == PurchaseOf(x.line)
<1>1. Orderly(x) /\ Standing(x) /\ Subject(x)
  BY InvOf DEF OrderInv
<1>2. HasWhole(x)
  BY <1>1, HeldAre DEF Lockable
<1>3. \A q \in client[e].locks, v \in x.locks : ~ Blocks(v, q)
  BY DEF ProcurementInv, LocksExclude
<1>4. k[1] = w[1] /\ k[2] = w[2] /\ Conflicting(k[3], w[3])
  BY DEF Blocks
<1>5. ASSUME w[1] = "line", w[2] = x.line, Whole(p) \subseteq x.locks, x.line \in Lines
      PROVE  FALSE
  <2>1. PICK q \in client[e].locks : k[2] = client[e].line /\ q[1] = "purchase" /\ q[2] = PurchaseOf(client[e].line)
    BY <1>4, <1>5, LineHolders
  <2>2. q[2] = p
    BY <1>4, <1>5, <2>1
  <2>3. p # None
    BY <1>5, PurchaseThere
  <2> HIDE DEF p
  <2>4. <<"purchase", p, "update">> \in x.locks
    BY <1>5, <2>3, RowIs DEF Whole
  <2>5. PICK v \in x.locks : v = <<"purchase", p, "update">>
    BY <2>4
  <2>6. v[1] = q[1] /\ v[2] = q[2] /\ v[3] = "update"
    BY <2>1, <2>2, <2>5
  <2>7. Blocks(v, q)
    BY <2>6 DEF Blocks, Conflicting
  <2> QED BY <1>3, <2>7
<1>6. CASE x.op = "update purchase"
  <2> DEFINE asked == {PlaceKind, <<"purchase", "no key update">>}
  <2>1. HeaderOrder(x) /\ x.pc = "write"
    BY <1>1, <1>2, <1>6 DEF HasWhole, Orderly
  <2>2. Modes(x.wants) \subseteq asked
    BY <2>1 DEF HeaderOrder, At
  <2>3. <<w[1], w[3]>> \in asked
    BY <2>2 DEF Modes
  <2>4. (w[1] = "location" /\ w[3] = "share") \/ w[1] = "purchase"
    BY <2>3 DEF PlaceKind
  <2>5. CASE w[1] = "location" /\ w[3] = "share"
    <3>1. Orderly(client[e])
      BY DEF OrderInv
    <3>2. k[3] = "share"
      BY <1>4, <2>5, <3>1, HeldAre DEF Lockable
    <3> QED BY <1>4, <2>5, <3>2 DEF Conflicting
  <2>6. CASE w[1] = "purchase"
    <3>1. w[2] = x.on /\ h[2] = x.on
      BY <2>1, <2>6 DEF HeaderOrder
    <3>2. Blocks(h, k)
      BY <1>4, <2>6, <3>1 DEF Blocks, Conflicting
    <3> QED BY <1>3, <3>2
  <2> QED BY <2>4, <2>5, <2>6
<1>7. CASE x.op = "remove line"
  <2> DEFINE asked == {<<"line", "no key update">>}
  <2>1. DropOrder(x) /\ x.pc = "write"
    BY <1>1, <1>2, <1>7 DEF HasWhole, Orderly
  <2>2. Modes(x.wants) \subseteq asked
    BY <2>1 DEF DropOrder, At
  <2>3. <<w[1], w[3]>> \in asked
    BY <2>2 DEF Modes
  <2>4. w[1] = "line"
    BY <2>3
  <2>5. w[2] = x.line
    BY <1>1, <1>7, <2>4 DEF Orderly
  <2>6. Whole(p) \subseteq x.locks /\ x.line \in Lines
    BY <1>1, <1>7, <2>1 DEF Standing, Removing, Subject, OnLines
  <2> QED BY <1>5, <2>4, <2>5, <2>6
<1>8. CASE x.op = "update line"
  <2>1. EditOrder(x) /\ x.change = "change kind" /\ x.pc \in {"line", "write"}
    BY <1>1, <1>2, <1>8 DEF HasWhole, Orderly
  <2>2. x.pc = "line"
    <3> SUFFICES ASSUME x.pc = "write" PROVE FALSE
      BY <2>1
    <3>1. Modes(x.wants) = {}
      BY <2>1 DEF EditOrder, At
    <3> QED BY <3>1, NothingAsked
  <2>3. Modes(x.wants) \subseteq {LineKind}
    BY <2>1, <2>2 DEF EditOrder, At
  <2>4. <<w[1], w[3]>> = LineKind
    BY <2>3 DEF Modes
  <2>5. w[1] = "line"
    BY <2>4 DEF LineKind
  <2>6. w[2] = x.line
    BY <1>1, <1>8, <2>5 DEF Orderly, LineOps
  <2>7. Whole(p) \subseteq x.locks /\ x.line \in Lines
    BY <1>1, <1>8, <2>1 DEF Standing, Updating, ShareOf, Subject, OnLines
  <2> QED BY <1>5, <2>5, <2>6, <2>7
<1> QED BY <1>2, <1>6, <1>7, <1>8 DEF HasWhole
-----------------------------------------------------------------------------
(***************************************************************************)
(* Circles.                                                                 *)
(***************************************************************************)
\* c waits for the row w, which d has locked.
Stuck(c, w, d) ==
    c # d /\ w \in client[c].wants /\ \E h \in client[d].locks : Blocks(h, w)

LEMMA WaitsStuck ==
    ASSUME NEW c, NEW d
    PROVE  WaitsFor(c, d) <=> \E w \in client[c].wants : Stuck(c, w, d)
BY DEF WaitsFor, HeldUp, Stuck

\* Along a chain of requests that wait the rows come one after the other.
LEMMA Climbs ==
    ASSUME ProcurementInv, OrderInv, NEW c \in Clients, NEW d \in Clients, NEW e \in Clients,
           client[d].op \notin Deletes, client[e].op \notin Deletes,
           NEW f \in Clients, client[f].op \notin Deletes, client[f].wants # {},
           NEW w, NEW v, NEW u, Stuck(c, w, d), Stuck(d, v, e), Stuck(e, u, f)
    PROVE  Before(w, v)
<1> DEFINE x == client[d]
<1>1. PICK h \in x.locks : Blocks(h, w)
  BY DEF Stuck
<1>2. d # e /\ v \in x.wants
  BY DEF Stuck
<1>3. PICK k \in client[e].locks : Blocks(k, v)
  BY DEF Stuck
<1>4. Orderly(x) /\ Orderly(client[e])
  BY DEF OrderInv
<1>5. Before(h, v) \/ Harmless(x, v)
  BY <1>1, <1>2, <1>4, EveryoneKeeps DEF Keeps
<1>6. h[1] = w[1] /\ h[2] = w[2]
  BY <1>1 DEF Blocks
<1>7. Before(h, v) => Before(w, v)
  BY <1>6 DEF Before
<1>8. k[1] = v[1] /\ k[2] = v[2] /\ Conflicting(k[3], v[3])
  BY <1>3 DEF Blocks
<1>9. Lockable(client[e], k)
  BY <1>4, HeldAre
<1>10. ASSUME Harmless(x, v) PROVE FALSE
  <2>1. CASE v[1] = "location" /\ v[3] \in {"share", "key share"}
    BY <1>8, <1>9, <2>1 DEF Lockable, Conflicting
  <2>2. CASE v[1] = "model" /\ v[3] = "key share"
    BY <1>8, <1>9, <2>2 DEF Lockable, Conflicting
  <2>3. CASE v[1] = "purchase" /\ v[3] \in {"key share", "no key update"}
    <3>1. k[1] = "purchase" /\ k[3] = "update"
      BY <1>8, <1>9, <2>3 DEF Lockable, Conflicting
    <3>2. PICK g \in client[f].locks : Blocks(g, u)
      BY DEF Stuck
    <3>3. e # f /\ u \in client[e].wants
      BY DEF Stuck
    <3> QED BY <3>1, <3>2, <3>3, WholeWaitsForNone
  <2>4. CASE v[1] = "movement" /\ v[2] # None /\ DeliveryLock(v[2]) \subseteq x.locks
    <3> DEFINE m == v[2]
    <3>1. DeliveryLock(m) = {<<"movement", m, "update">>}
      BY <2>4 DEF DeliveryLock, Row
    <3>2. PICK q \in x.locks : q = <<"movement", m, "update">>
      BY <2>4, <3>1
    <3>3. q[1] = "movement" /\ q[2] = m /\ q[3] = "update"
      BY <3>2, LockIs
    <3>4. Blocks(q, k)
      BY <1>8, <2>4, <3>3 DEF Blocks, Conflicting
    <3> QED BY <1>2, <3>4 DEF ProcurementInv, LocksExclude
  <2> QED BY <1>10, <2>1, <2>2, <2>3, <2>4 DEF Harmless
<1> QED BY <1>5, <1>7, <1>10

LEMMA HighestOf ==
    ASSUME NEW I \in SUBSET Assets, I # {}
    PROVE  \E i \in I : \A j \in I : j <= i
<1> DEFINE Higher(i) == {j \in I : i < j}
           N == {Cardinality(Higher(i)) : i \in I}
<1>1. I \subseteq Nat /\ IsFiniteSet(I)
  BY ProcurementAssumption, FS_Subset
<1>2. \A i \in I : IsFiniteSet(Higher(i)) /\ Cardinality(Higher(i)) \in Nat
  BY <1>1, FS_Subset, FS_CardinalityType
<1>3. N \in SUBSET Nat /\ N # {}
  BY <1>2
<1>4. PICK i \in I : \A k \in I : Cardinality(Higher(i)) <= Cardinality(Higher(k))
  <2>1. Ids!Min(N) \in N /\ \A n \in N : Ids!Min(N) <= n
    BY <1>3, MinIs
  <2>2. PICK i \in I : Ids!Min(N) = Cardinality(Higher(i))
    BY <2>1
  <2>3. \A k \in I : Cardinality(Higher(k)) \in N
    OBVIOUS
  <2> HIDE DEF Higher, N
  <2> QED BY <2>1, <2>2, <2>3
<1>5. ASSUME NEW j \in I, i < j
      PROVE  FALSE
  <2>0. i \in Nat /\ j \in Nat
    BY <1>1
  <2>1. j \in Higher(i) /\ j \notin Higher(j)
    BY <1>5, <2>0
  <2>3. Higher(j) \subseteq Higher(i)
    <3>1. ASSUME NEW k \in I, j < k PROVE i < k
      <4>1. k \in Nat
        BY <1>1
      <4> QED BY <1>5, <2>0, <3>1, <4>1
    <3> QED BY <3>1
  <2>2. Cardinality(Higher(j)) < Cardinality(Higher(i))
    <3> HIDE DEF Higher
    <3>1. /\ Cardinality(Higher(j)) <= Cardinality(Higher(i))
          /\ Cardinality(Higher(i)) = Cardinality(Higher(j)) => Higher(i) = Higher(j)
      BY <1>2, <2>3, FS_Subset
    <3>2. Higher(i) # Higher(j)
      BY <2>1, Zenon
    <3> QED BY <1>2, <3>1, <3>2
  <2>4. Cardinality(Higher(i)) <= Cardinality(Higher(j))
    BY <1>4
  <2> HIDE DEF Higher
  <2> QED BY <1>2, <2>2, <2>4
<1>6. \A j \in I : j <= i
  BY <1>1, <1>5
<1> QED BY <1>6

LEMMA RankIs ==
    ASSUME NEW table
    PROVE  Rank(table) \in 0 .. 8 /\ (Rank(table) = 5 <=> table = "asset")
BY DEF Rank

\* A set of rows in which every row has a later one is empty.
LEMMA NoEndlessClimb ==
    ASSUME NEW W, \A w \in W : \E v \in W : Before(w, v)
    PROVE  W = {}
<1> SUFFICES ASSUME W # {} PROVE FALSE
  OBVIOUS
<1> DEFINE R(w) == Rank(w[1])
           N == {8 - R(w) : w \in W}
           I == {a \in Assets : \E w \in W : w[1] = "asset" /\ w[2] = a}
<1>1. \A w \in W : R(w) \in 0 .. 8 /\ (R(w) = 5 <=> w[1] = "asset")
  BY RankIs
<1>2. PICK top \in W : \A w \in W : R(w) <= R(top)
  <2> HIDE DEF R
  <2>1. N \in SUBSET Nat /\ N # {}
    BY <1>1
  <2>2. Ids!Min(N) \in N /\ \A n \in N : Ids!Min(N) <= n
    BY <2>1, MinIs
  <2>3. PICK top \in W : Ids!Min(N) = 8 - R(top)
    BY <2>2
  <2>4. ASSUME NEW w \in W PROVE R(w) <= R(top)
    <3>1. 8 - R(top) <= 8 - R(w)
      BY <2>2, <2>3
    <3>2. R(w) \in 0 .. 8 /\ R(top) \in 0 .. 8
      BY <1>1
    <3> QED BY <3>1, <3>2
  <2> QED BY <2>4
\* The highest table is that of the assets,
<1>3. R(top) = 5 /\ top[1] = "asset"
  <2>1. PICK v \in W : Before(top, v)
    OBVIOUS
  <2>2. R(v) <= R(top) /\ R(v) \in 0 .. 8 /\ R(top) \in 0 .. 8
    BY <1>1, <1>2
  <2>3. ~ (R(top) < R(v))
    <3> HIDE DEF R
    <3> QED BY <2>2
  <2>4. top[1] = "asset"
    BY <2>1, <2>3 DEF Before
  <2> QED BY <1>1, <2>4
\* and each of its rows has a higher one.
<1>4. ASSUME NEW z \in W, z[1] = "asset"
      PROVE  z[2] \in I /\ \E v \in W : v[1] = "asset" /\ z[2] < v[2]
  <2>1. PICK v \in W : Before(z, v)
    OBVIOUS
  <2>2. R(z) = 5 /\ R(v) <= 5 /\ R(v) \in 0 .. 8
    BY <1>1, <1>2, <1>3, <1>4
  <2>3. ~ (R(z) < R(v))
    <3> HIDE DEF R
    <3> QED BY <2>2
  <2>4. v[1] = "asset" /\ z[2] \in Assets /\ z[2] < v[2]
    BY <2>1, <2>3 DEF Before
  <2> QED BY <1>4, <2>4
<1>5. PICK i \in I : \A j \in I : j <= i
  BY <1>3, <1>4, HighestOf
<1>6. PICK z \in W : z[1] = "asset" /\ z[2] = i
  OBVIOUS
<1>7. PICK v \in W : v[1] = "asset" /\ i < v[2]
  BY <1>4, <1>6
<1>8. v[2] \in I
  BY <1>4, <1>7
<1>9. i \in Nat /\ v[2] \in Nat
  BY <1>8, ProcurementAssumption
<1>10. v[2] <= i
  BY <1>5, <1>8
<1> HIDE DEF I
<1> QED BY <1>7, <1>9, <1>10

LEMMA NoCircle ==
    ASSUME ProcurementInv, OrderInv
    PROVE  OnlyDeletesDeadlock
<1> SUFFICES ASSUME NEW S \in SUBSET Clients, Deadlocked(S), \A c \in S : client[c].op \notin Deletes
             PROVE  FALSE
  BY DEF OnlyDeletesDeadlock, Deletes
<1> DEFINE W == {w \in UNION {client[c].wants : c \in S} : \E c, d \in S : Stuck(c, w, d)}
<1>1. ASSUME NEW c \in S PROVE \E d \in S : \E w \in W : Stuck(c, w, d)
  <2>1. PICK d \in S : WaitsFor(c, d)
    BY DEF Deadlocked
  <2>2. PICK w \in client[c].wants : Stuck(c, w, d)
    BY <2>1, WaitsStuck
  <2> QED BY <2>2
<1>2. W # {}
  BY <1>1 DEF Deadlocked
<1>3. ASSUME NEW w \in W PROVE \E v \in W : Before(w, v)
  <2>1. PICK c \in S, d \in S : Stuck(c, w, d)
    OBVIOUS
  <2> HIDE DEF W
  <2>2. PICK e \in S, v \in W : Stuck(d, v, e)
    BY <1>1
  <2>3. PICK f \in S, u \in W : Stuck(e, u, f)
    BY <1>1
  <2>4. PICK g \in S, t \in W : Stuck(f, t, g)
    BY <1>1
  <2>5. client[f].wants # {}
    BY <2>4 DEF Stuck
  <2>6. Before(w, v)
    BY <2>1, <2>2, <2>3, <2>5, Climbs
  <2> QED BY <2>6
<1> HIDE DEF W
<1> QED BY <1>2, <1>3, NoEndlessClimb

\* The lock orders of the writes agree: requests that wait for one another in a
\* circle have a delete of a location or of a model among them, however many
\* requests and rows there are.
THEOREM OnlyDeletesInDeadlocks == Spec => []OnlyDeletesDeadlock
<1>1. ProcurementInv /\ OrderInv => OnlyDeletesDeadlock
  BY NoCircle
<1> QED BY <1>1, ProcurementKept, OrderKept, PTL
=============================================================================
