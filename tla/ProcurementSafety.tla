------------------------- MODULE ProcurementSafety -------------------------
(***************************************************************************)
(* What the places, the orders and the receipts of Procurement promise to one *)
(* another: the hierarchy of locations stays a forest, a delete strands        *)
(* nothing, and cancelling what is left of a line never reaches what arrived.  *)
(* Beyond ProcurementInv these rest on what every request has locked and read   *)
(* of the rows it is about to write (Careful), and on what a write may do to     *)
(* the rows of the others (Gentle).                                                *)
(***************************************************************************)
EXTENDS ProcurementProofs

Usable(x) == x = None \/ LocationLive(x)

\* Live locations without x that hold y's whole way up.
Avoids(T, y, x) ==
    T \in SUBSET Locations /\ x \notin T /\ (\A z \in T : LocationLive(z)) /\ WalkedUp(y, T)

Above(y, x) == y # None => y # x /\ LocationLive(y) /\ \E T : Avoids(T, y, x)

RowsOf(x, table) == {row[2] : row \in {r \in x.staged : r[1] = table}}

Opens(x) == {p \in DeliversTo(x) : OpenPurchase(p)}

AssetsLocked(x, S) == \A a \in S : Row("asset", a, "update") \subseteq x.locks

Rearranging(x) ==
    /\ x.pc \in {"tree", "write"}
    /\ x.pc = "tree" => x.wants = Tree
    /\ x.pc = "write" => Tree \subseteq x.locks /\ LocationLive(x.on) /\ Above(x.to, x.on)

\* A delete of a location knows the children, the open purchases and the assets
\* there, from when it has looked until it is done.
AfterRow == {"children", "purchases", "assets"}

Vacating(x) ==
    /\ x.pc \in {"tree", "row"} \cup AfterRow
    /\ x.pc = "tree" => x.wants = Tree
    /\ x.pc = "row" => x.wants = Row("location", x.on, "update")
    /\ x.pc # "tree" => Tree \subseteq x.locks
    /\ x.pc \in {"tree", "row"} => RowsOf(x, "location") = {}
    /\ x.pc \in AfterRow =>
         /\ Row("location", x.on, "update") \subseteq x.locks /\ LocationLive(x.on)
         /\ RowsOf(x, "location") \subseteq Children(x.on)
    /\ x.pc = "children" => Children(x.on) \subseteq RowsOf(x, "location") \cup x.ids
    /\ x.pc \in {"purchases", "assets"} => Children(x.on) \subseteq RowsOf(x, "location")

VacatingOrders(x) == mix \cap Reopening = {} =>
    /\ x.pc = "purchases" => Opens(x.on) \subseteq RowsOf(x, "purchase") \cup x.ids
    /\ x.pc = "assets" => Opens(x.on) \subseteq RowsOf(x, "purchase")

VacatingAssets(x) ==
    /\ x.pc \in {"tree", "row", "children", "purchases"} => RowsOf(x, "asset") = {}
    /\ x.pc = "assets" =>
         /\ x.wants = FirstRow("asset", "update", x.ids) /\ AssetsLocked(x, RowsOf(x, "asset"))
         /\ "restore asset" \notin mix => PlacedAt(x.on) \subseteq RowsOf(x, "asset") \cup x.ids

\* seen: the location to move to is locked, and live.
Relocating(x) ==
    LET asset == Row("asset", x.on, "update") IN
    /\ x.on \in Assets /\ x.pc \in {"location", "asset", "write"} /\ x.seen \in {0, 1}
    /\ x.pc = "location" => x.wants = Place(x.to) /\ x.seen = 0
    /\ x.seen = 1 => Place(x.to) \subseteq x.locks /\ LocationLive(x.to)
    /\ x.pc = "asset" => x.wants = asset
    /\ x.pc = "write" => /\ asset \subseteq x.locks /\ assets[x.on].state # "none"
                         /\ x.seen = 1 \/ assets[x.on].location = x.to

Redirecting(x) ==
    /\ x.pc \in {"location", "purchase", "write"}
    /\ x.pc = "write" => Place(x.to) \subseteq x.wants

Gathering(x) ==
    /\ x.pc \in {"references", "assets", "models"} /\ x.change = "link"
    /\ x.pc = "references" => x.wants = Place(x.to)
    /\ x.pc \in {"assets", "models"} => Place(x.to) \subseteq x.locks /\ Usable(x.to)

Unpacking(x) ==
    /\ x.pc \in {"location", "insert", "event"}
    /\ x.pc = "location" => x.wants = Place(x.to)
    /\ x.pc = "insert" => /\ Place(x.to) \subseteq x.locks /\ Usable(x.to)
                          /\ Row("line", x.line, "key share") \subseteq x.wants

\* What is cancelled is still to come.
Remaining(x) ==
    /\ lines[x.line].cancelled <= x.seen
    /\ "restore asset" \notin mix => Received(x.line) + x.seen <= lines[x.line].quantity

\* Assets are locked one by one, then those the request may write are chosen.
Collecting(x) ==
    /\ x.target \subseteq Assets
    /\ x.pc = "assets" => /\ x.wants = FirstRow("asset", "update", x.ids)
                          /\ AssetsLocked(x, x.target \ x.ids)
    /\ x.pc = "models" => AssetsLocked(x, x.target)
    /\ x.pc \in {"model", "line", "events", "event"} =>
         /\ x.staged \subseteq x.target /\ AssetsLocked(x, x.staged)
         /\ \A a \in x.staged :
              /\ assets[a].state # "none"
              /\ x.change = "link" => assets[a].line = None
              /\ x.change = "apply" => assets[a].line = x.line

Attaching(x) ==
    /\ x.change \in {"link", "move link", "apply"} \cap mix
    /\ x.change # "apply" =>
         /\ x.pc = "line" => x.wants = Row("line", x.line, "key share")
         /\ x.pc = "events" => Row("line", x.line, "key share") \subseteq x.locks

Remapping(x) == \A row \in x.staged :
    /\ row.kind = lines[x.line].kind /\ row.quantity = lines[x.line].quantity
    /\ row.cancelled = lines[x.line].cancelled

Careful(x) ==
    /\ x.op = "reparent" => Rearranging(x)
    /\ x.op = "delete location" => Vacating(x) /\ VacatingOrders(x) /\ VacatingAssets(x)
    /\ x.op = "asset" /\ x.change = "location" => Relocating(x)
    /\ x.op = "update purchase" /\ x.change = "deliver" => Redirecting(x)
    /\ x.op = "create purchase" => x.wants = Place(x.to)
    /\ x.op = "from assets" => Gathering(x)
    /\ x.op = "units" => Unpacking(x)
    /\ x.op = "cancel" /\ x.pc = "write" => Remaining(x)
    /\ x.op \in {"link", "unlink", "from assets"} => Collecting(x)
    /\ x.op = "link" => Attaching(x)
    /\ x.op \in {"add line", "remove line", "unlink"} => x.op \in mix
    /\ x.op = "update line" /\ x.change = "map line" /\ x.pc = "write" => Remapping(x)
    /\ x.op = "move" /\ x.pc = "insert" => Row("line", x.line, "key share") \subseteq x.wants

SafetyInv == TreeSound /\ \A c \in Clients : Careful(client[c])
-----------------------------------------------------------------------------
(***************************************************************************)
(* Locks, and the record of a request.                                      *)
(***************************************************************************)
LEMMA OneTree ==
    ASSUME LocksExclude, NEW c \in Clients, NEW d \in Clients,
           Tree \subseteq client[c].locks, Tree \subseteq client[d].locks
    PROVE  c = d
<1>1. <<"tree", None, "update">> \in client[c].locks /\ <<"tree", None, "update">> \in client[d].locks
  BY DEF Tree
<1>2. Blocks(<<"tree", None, "update">>, <<"tree", None, "update">>)
  BY DEF Blocks, Conflicting
<1> QED BY <1>1, <1>2 DEF LocksExclude

\* No other request may hold these rows any more.
Owns(c, rows) == rows \subseteq client[c].locks \/ \A d \in Clients \ {c} : ~ HeldUp(rows, d)

LEMMA OwnsGranted ==
    ASSUME NEW c \in Clients, NEW rows, rows \subseteq client[c].wants, ~ Waits(c)
    PROVE  Owns(c, rows)
BY DEF Owns, Waits, WaitsFor, HeldUp

LEMMA OwnsFree ==
    ASSUME NEW c \in Clients, NEW rows, NEW wants, rows \subseteq wants, Free(wants)
    PROVE  Owns(c, rows)
BY DEF Owns, Free, HeldUp

LEMMA Owned ==
    ASSUME LocksExclude, NEW c \in Clients, NEW d \in Clients \ {c},
           NEW table, NEW id, id # None, NEW m, NEW n, Conflicting(m, n),
           Owns(c, Row(table, id, m))
    PROVE  ~ (Row(table, id, n) \subseteq client[d].locks)
<1> SUFFICES ASSUME Row(table, id, n) \subseteq client[d].locks PROVE FALSE
  OBVIOUS
<1>1. CASE Row(table, id, m) \subseteq client[c].locks
  BY <1>1, Excluded
<1>2. CASE ~ HeldUp(Row(table, id, m), d)
  <2>1. <<table, id, m>> \in Row(table, id, m) /\ <<table, id, n>> \in client[d].locks
    BY <1>2, RowIs
  <2>2. Blocks(<<table, id, n>>, <<table, id, m>>)
    BY DEF Blocks, Conflicting
  <2> QED BY <1>2, <2>1, <2>2 DEF HeldUp
<1> QED BY <1>1, <1>2 DEF Owns

LEMMA OwnedTree ==
    ASSUME LocksExclude, NEW c \in Clients, NEW d \in Clients \ {c}, Owns(c, Tree)
    PROVE  ~ (Tree \subseteq client[d].locks)
<1> SUFFICES ASSUME Tree \subseteq client[d].locks PROVE FALSE
  OBVIOUS
<1>1. CASE Tree \subseteq client[c].locks
  BY <1>1, OneTree
<1>2. CASE ~ HeldUp(Tree, d)
  <2>1. <<"tree", None, "update">> \in Tree /\ <<"tree", None, "update">> \in client[d].locks
    BY DEF Tree
  <2>2. Blocks(<<"tree", None, "update">>, <<"tree", None, "update">>)
    BY DEF Blocks, Conflicting
  <2> QED BY <1>2, <2>1, <2>2 DEF HeldUp
<1> QED BY <1>1, <1>2 DEF Owns

LEMMA IsSet ==
    ASSUME Shape, NEW c \in Clients, NEW r, client' = [client EXCEPT ![c] = r]
    PROVE  client'[c] = r /\ \A d \in Clients \ {c} : client'[d] = client[d]
BY DEF Shape

LEMMA FirstOfNone == ASSUME NEW table, NEW mode PROVE FirstRow(table, mode, {}) = {}
BY DEF FirstRow

\* r is what x becomes when it begins to wait for the rows S.
QueuedOn(r, x, pc, table, mode, S) ==
    /\ Alike(r, x) /\ r.pc = pc /\ r.ids = S /\ r.wants = FirstRow(table, mode, S)
    /\ r.locks = x.locks \cup x.wants /\ r.staged = x.staged /\ r.seen = x.seen

\* r is what x becomes when it goes from one row to the next.
AddsRows(r, x, table, S) == r.staged = x.staged \cup ({table} \X S)

NextLocked(r, x, id, table, mode, matching) ==
    /\ Alike(r, x) /\ r.pc = x.pc /\ r.seen = x.seen /\ r.locks = x.locks \cup x.wants
    /\ r.ids = x.ids \ {id} /\ r.wants = FirstRow(table, mode, r.ids)
    /\ AddsRows(r, x, table, {id} \cap matching)
    /\ x.wants = FirstRow(table, mode, x.ids) => <<table, id, mode>> \in r.locks

LEMMA QueuesAs ==
    ASSUME NEW c \in Clients, DOMAIN client[c] = DOMAIN Idle,
           NEW pc1, NEW pc, NEW table, NEW mode, NEW S
    PROVE  QueuedOn(Queued(Onward(c, pc1, {}), pc, table, mode, S), client[c], pc, table, mode, S)
<1> DEFINE x == Onward(c, pc1, {})
           w == FirstRow(table, mode, S)
           r == Queued(x, pc, table, mode, S)
<1>1. /\ Alike(x, client[c]) /\ x.locks = client[c].locks \cup client[c].wants
      /\ x.staged = client[c].staged /\ x.seen = client[c].seen
  BY OnwardAs
<1>2. DOMAIN x = DOMAIN Idle
  BY <1>1 DEF Alike
<1>3. r = [x EXCEPT !.pc = pc, !.ids = S, !.wants = w]
  BY DEF Queued
<1>4. /\ Alike(r, x) /\ r.pc = pc /\ r.ids = S /\ r.wants = w
      /\ r.locks = x.locks /\ r.staged = x.staged /\ r.seen = x.seen
  <2> HIDE DEF x, w, r
  <2> QED BY <1>2, <1>3 DEF Idle, Alike
<1> HIDE DEF x, w, r
<1>5. Alike(r, client[c])
  BY <1>1, <1>4 DEF Alike
<1>6. QueuedOn(r, client[c], pc, table, mode, S)
  BY <1>1, <1>4, <1>5 DEF QueuedOn, w
<1> QED BY <1>6 DEF r, x

\* The first of the rows a request waits for is the one it then has.
LEMMA LocksFirst ==
    ASSUME NEW c \in Clients, Shape, DOMAIN client[c] = DOMAIN Idle,
           NEW table, NEW mode, NEW matching, LockNext(c, table, mode, matching)
    PROVE  \E id, r : client'[c] = r /\ NextLocked(r, client[c], id, table, mode, matching)
<1>1. PICK id, w :
        /\ client' = [client EXCEPT ![c] =
             [Onward(c, client[c].pc, w) EXCEPT
                !.ids = client[c].ids \ {id}, !.staged = @ \cup ({table} \X ({id} \cap matching))]]
        /\ w = FirstRow(table, mode, client[c].ids \ {id})
        /\ FirstRow(table, mode, client[c].ids) = {<<table, id, mode>>}
  BY DEF LockNext, FirstRow
<1> DEFINE more == {table} \X ({id} \cap matching)
           rest == client[c].ids \ {id}
           x == Onward(c, client[c].pc, w)
           r == [x EXCEPT !.ids = rest, !.staged = @ \cup more]
<1>2. /\ Alike(x, client[c]) /\ x.pc = client[c].pc /\ x.seen = client[c].seen /\ x.wants = w
      /\ x.locks = client[c].locks \cup client[c].wants /\ x.staged = client[c].staged
  BY OnwardAs
<1>3. DOMAIN x = DOMAIN Idle
  BY <1>2 DEF Alike
<1>4. /\ Alike(r, x) /\ r.pc = x.pc /\ r.locks = x.locks /\ r.seen = x.seen /\ r.wants = x.wants
      /\ r.ids = rest /\ r.staged = x.staged \cup more
  <2> HIDE DEF x, more, rest
  <2> QED BY <1>3 DEF Idle, Alike
<1>5. client'[c] = r
  BY <1>1, IsSet
<1> HIDE DEF r, x
<1>6. Alike(r, client[c])
  BY <1>2, <1>4 DEF Alike
<1>7. /\ r.pc = client[c].pc /\ r.seen = client[c].seen
      /\ r.locks = client[c].locks \cup client[c].wants
      /\ r.ids = client[c].ids \ {id} /\ r.staged = client[c].staged \cup more
  BY <1>2, <1>4
<1>8. r.wants = FirstRow(table, mode, r.ids)
  BY <1>1, <1>2, <1>4
<1>9. client[c].wants = FirstRow(table, mode, client[c].ids) => <<table, id, mode>> \in r.locks
  BY <1>1, <1>7
<1>10. NextLocked(r, client[c], id, table, mode, matching)
  BY <1>6, <1>7, <1>8, <1>9 DEF NextLocked, AddsRows
<1> QED BY <1>5, <1>10

LEMMA RowsAdded ==
    ASSUME NEW x, NEW r, NEW table, NEW S, AddsRows(r, x, table, S)
    PROVE  /\ RowsOf(r, table) = RowsOf(x, table) \cup S
           /\ \A other : other # table => RowsOf(r, other) = RowsOf(x, other)
<1> DEFINE more == {table} \X S
<1>1. \A row \in more : row[1] = table /\ row[2] \in S
  OBVIOUS
<1>2. \A s \in S : \E row \in more : row[1] = table /\ row[2] = s
  <2> TAKE s \in S
  <2> WITNESS <<table, s>> \in more
  <2> QED OBVIOUS
<1>3. r.staged = x.staged \cup more
  BY DEF AddsRows
<1> HIDE DEF more
<1>4. RowsOf(r, table) = RowsOf(x, table) \cup S
  <2>1. \A e \in RowsOf(r, table) : e \in RowsOf(x, table) \cup S
    BY <1>1, <1>3 DEF RowsOf
  <2>2. \A e \in RowsOf(x, table) : e \in RowsOf(r, table)
    BY <1>3 DEF RowsOf
  <2>3. \A e \in S : e \in RowsOf(r, table)
    BY <1>2, <1>3 DEF RowsOf
  <2> QED BY <2>1, <2>2, <2>3
<1>5. \A other : other # table => RowsOf(r, other) = RowsOf(x, other)
  BY <1>1, <1>3 DEF RowsOf
<1> QED BY <1>4, <1>5

LEMMA SameRows ==
    ASSUME NEW x, NEW r, r.staged = x.staged
    PROVE  \A table : RowsOf(r, table) = RowsOf(x, table)
BY DEF RowsOf
-----------------------------------------------------------------------------
(***************************************************************************)
(* Steps that write nothing.                                                *)
(***************************************************************************)
\* The request is careful in what it becomes.
Follows(c) == \E r : client'[c] = r /\ Careful(r)

LEMMA Untroubled ==
    ASSUME NEW x,
           \/ x.op \in {"none", "remove purchase", "apply seats", "delete model"}
           \/ x.op = "move" /\ x.pc # "insert"
           \/ x.op = "cancel" /\ x.pc # "write"
           \/ x.op = "update line" /\ (x.pc # "write" \/ x.change # "map line")
           \/ x.op = "update purchase" /\ x.change # "deliver"
           \/ x.op = "asset" /\ x.change # "location"
    PROVE  Careful(x)
BY DEF Careful

LEMMA EndFollows ==
    ASSUME Shape, NEW c \in Clients, End(c)
    PROVE  Follows(c)
<1>1. client'[c] = Idle
  BY EndedAs
<1>2. Idle.op = "none"
  BY DEF Idle
<1> QED BY <1>1, <1>2, Untroubled DEF Follows

LEMMA SetFollows ==
    ASSUME Shape, NEW c \in Clients, NEW r, client' = [client EXCEPT ![c] = r], Careful(r)
    PROVE  Follows(c)
BY IsSet DEF Follows

\* A request goes on to where it needs nothing but what it is about.
Unbound(x, pc) ==
    \/ x.op \in {"remove purchase", "apply seats", "delete model"}
    \/ x.op = "move" /\ pc # "insert"
    \/ x.op = "cancel" /\ pc # "write"
    \/ x.op = "update line" /\ pc # "write"
    \/ x.op = "asset" /\ x.change # "location"
    \/ x.op = "update purchase" /\ x.change # "deliver"

LEMMA GoFollows ==
    ASSUME ProcurementInv, NEW c \in Clients, NEW pc, NEW wants, Go(c, pc, wants),
           Unbound(client[c], pc)
    PROVE  Follows(c)
<1> DEFINE r == Onward(c, pc, wants)
<1>0. Shape /\ DOMAIN client[c] = DOMAIN Idle
  BY InvOf
<1>1. client' = [client EXCEPT ![c] = r]
  BY DEF Go
<1>2. Alike(r, client[c]) /\ r.pc = pc
  BY <1>0, OnwardAs
<1>3. r.op = client[c].op /\ r.change = client[c].change
  BY <1>2 DEF Alike
<1> HIDE DEF r
<1>4. Careful(r)
  BY <1>2, <1>3, Untroubled DEF Unbound
<1> QED BY <1>0, <1>1, <1>4, SetFollows

LEMMA StockFollows ==
    ASSUME ProcurementInv, NEW c \in Clients,
           \/ PostIn(c) \/ PostOut(c) \/ PostAdjustment(c) \/ PostDelivery(c) \/ CheckTarget(c)
           \/ PostReturn(c) \/ LockReturnableDelivery(c) \/ ReceiveStock(c) \/ ReceiveBeforeWrite(c)
           \/ ReadCeiling(c) \/ MoveStock(c)
    PROVE  Follows(c)
<1>0. Shape /\ DOMAIN client[c] = DOMAIN Idle
  BY InvOf
<1>2. CASE PostIn(c)
  <2>1. PICK i \in Items, n \in 1 .. Ceiling :
          client' = [client EXCEPT ![c] = [Movement("IN", i, n) EXCEPT !.pc = "ceiling"]]
    BY <1>2 DEF PostIn, Begin
  <2> DEFINE r == [Movement("IN", i, n) EXCEPT !.pc = "ceiling"]
  <2>2. r.op = "move" /\ r.pc = "ceiling"
    BY DEF Movement, Idle
  <2> HIDE DEF r
  <2> QED BY <1>0, <2>1, <2>2, Untroubled, SetFollows DEF r
<1>3. CASE PostOut(c) \/ PostAdjustment(c)
  <2>1. PICK i, n, type :
          client' = [client EXCEPT ![c] = [Movement(type, i, n) EXCEPT !.pc = "stock", !.wants = ItemRow(i)]]
    BY <1>3 DEF PostOut, PostAdjustment, Begin
  <2> DEFINE w == ItemRow(i)
             r == [Movement(type, i, n) EXCEPT !.pc = "stock", !.wants = w]
  <2>2. r.op = "move" /\ r.pc = "stock"
    <3> HIDE DEF w
    <3> QED BY DEF Movement, Idle
  <2> HIDE DEF r
  <2> QED BY <1>0, <2>1, <2>2, Untroubled, SetFollows DEF r
<1>4. CASE PostDelivery(c)
  <2>0. PICK i \in Items, n \in 1 .. Ceiling,
             row \in {"location"} \X Known(locations, Locations) \cup {"asset"} \X Known(assets, Assets) :
          Begin(c, "deliver", [Movement("OUT", i, n) EXCEPT !.pc = "target", !.target = {row}])
    BY <1>4 DEF PostDelivery
  <2>1. client' = [client EXCEPT ![c] = [Movement("OUT", i, n) EXCEPT !.pc = "target", !.target = {row}]]
    BY <2>0 DEF Begin
  <2> DEFINE r == [Movement("OUT", i, n) EXCEPT !.pc = "target", !.target = {row}]
  <2>2. r.op = "move" /\ r.pc = "target"
    BY DEF Movement, Idle
  <2> HIDE DEF r
  <2> QED BY <1>0, <2>1, <2>2, Untroubled, SetFollows DEF r
<1>5. CASE PostReturn(c)
  <2>1. PICK i, m, n, w :
          client' = [client EXCEPT ![c] = [Movement("IN", i, n) EXCEPT
                                            !.pc = "delivery", !.of = m, !.wants = w]]
    BY <1>5 DEF PostReturn, Begin
  <2> DEFINE r == [Movement("IN", i, n) EXCEPT !.pc = "delivery", !.of = m, !.wants = w]
  <2>2. r.op = "move" /\ r.pc = "delivery"
    BY DEF Movement, Idle
  <2> HIDE DEF r
  <2> QED BY <1>0, <2>1, <2>2, Untroubled, SetFollows DEF r
<1>6. CASE ReceiveStock(c)
  <2>0. PICK l \in Lines, n \in 1 .. Ceiling :
          Begin(c, "receive stock",
            [Movement("IN", lines[l].item, n) EXCEPT
               !.pc = "purchase", !.line = l,
               !.wants = Row("purchase", lines[l].purchase, "key share")])
    BY <1>6 DEF ReceiveStock
  <2> DEFINE i == lines[l].item
             w == Row("purchase", lines[l].purchase, "key share")
             r == [Movement("IN", i, n) EXCEPT !.pc = "purchase", !.line = l, !.wants = w]
  <2>1. client' = [client EXCEPT ![c] = r]
    BY <2>0 DEF Begin
  <2>2. r.op = "move" /\ r.pc = "purchase"
    <3> HIDE DEF i, w
    <3> QED BY DEF Movement, Idle
  <2> HIDE DEF r
  <2> QED BY <1>0, <2>1, <2>2, Untroubled, SetFollows DEF r
<1>7. CASE CheckTarget(c) \/ LockReturnableDelivery(c) \/ ReceiveBeforeWrite(c) \/ ReadCeiling(c)
  <2>1. client[c].op = "move"
    BY <1>7 DEF CheckTarget, LockReturnableDelivery, ReceiveBeforeWrite, ReadCeiling, Granted
  <2>2. End(c) \/ \E pc \in {"stock", "ceiling"} : \E wants : Go(c, pc, wants)
    BY <1>7 DEF CheckTarget, LockReturnableDelivery, ReceiveBeforeWrite, ReadCeiling
  <2> QED BY <1>0, <2>1, <2>2, EndFollows, GoFollows DEF Unbound
<1>8. CASE MoveStock(c)
  <2>1. CASE End(c)
    BY <1>0, <2>1, EndFollows
  <2>2. CASE ~ End(c)
    <3>1. PICK seen : client' = [client EXCEPT ![c] =
                        [Onward(c, "insert", References(client[c])) EXCEPT !.seen = seen]]
      BY <1>8, <2>2 DEF MoveStock
    <3> DEFINE w == References(client[c])
               x == Onward(c, "insert", w)
               r == [x EXCEPT !.seen = seen]
    <3>2. Alike(x, client[c]) /\ x.pc = "insert" /\ x.wants = w
      BY <1>0, OnwardAs
    <3>3. DOMAIN x = DOMAIN Idle /\ x.op = "move" /\ x.line = client[c].line
      BY <1>8, <3>2 DEF Alike, MoveStock, Granted
    <3>4. r.op = x.op /\ r.line = x.line /\ r.wants = x.wants
      <4> HIDE DEF x
      <4> QED BY <3>3 DEF Idle
    <3>5. Row("line", client[c].line, "key share") \subseteq w
      BY DEF References
    <3> HIDE DEF x, w
    <3>6. Careful(r)
      <4> HIDE DEF r
      <4> QED BY <3>2, <3>3, <3>4, <3>5 DEF Careful
    <3> QED BY <1>0, <3>1, <3>6, SetFollows DEF x, w
  <2> QED BY <2>1, <2>2
<1> QED BY <1>2, <1>3, <1>4, <1>5, <1>6, <1>7, <1>8

LEMMA SetUntroubled ==
    ASSUME Shape, NEW c \in Clients, NEW r, client' = [client EXCEPT ![c] = r],
           r.op \in {"none", "remove purchase", "apply seats", "delete model"}
    PROVE  Follows(c)
BY Untroubled, SetFollows

LEMMA HeadersFollow ==
    ASSUME ProcurementInv, NEW c \in Clients,
           \/ CreateRead(c) \/ CreateRefused(c) \/ ClearHeader(c) \/ DeliverTo(c)
           \/ UpdateLockLocation(c) \/ UpdateCheck(c) \/ RemoveRead(c) \/ AddLineRead(c)
    PROVE  Follows(c)
<1>0. Shape /\ DOMAIN client[c] = DOMAIN Idle
  BY InvOf
<1>1. CASE CreateRead(c)
  <2>1. PICK x : client' = [client EXCEPT ![c] =
                   [Idle EXCEPT !.op = "create purchase", !.pc = "references", !.to = x, !.wants = Place(x)]]
    BY <1>1 DEF CreateRead, Begin
  <2> DEFINE w == Place(x)
             r == [Idle EXCEPT !.op = "create purchase", !.pc = "references", !.to = x, !.wants = w]
  <2>2. r.op = "create purchase" /\ r.to = x /\ r.wants = w
    <3> HIDE DEF w
    <3> QED BY DEF Idle
  <2> HIDE DEF r
  <2>3. Careful(r)
    BY <2>2 DEF Careful
  <2> QED BY <1>0, <2>1, <2>3, SetFollows DEF r
<1>2. CASE CreateRefused(c)
  BY <1>0, <1>2, EndFollows DEF CreateRefused
<1>3. CASE ClearHeader(c)
  <2>1. PICK p, w : client' = [client EXCEPT ![c] =
                      [Idle EXCEPT !.op = "update purchase", !.pc = "purchase", !.change = "clear",
                                   !.on = p, !.wants = w]]
    BY <1>3 DEF ClearHeader, Begin
  <2> DEFINE r == [Idle EXCEPT !.op = "update purchase", !.pc = "purchase", !.change = "clear",
                               !.on = p, !.wants = w]
  <2>2. r.op = "update purchase" /\ r.change = "clear"
    BY DEF Idle
  <2> HIDE DEF r
  <2> QED BY <1>0, <2>1, <2>2, Untroubled, SetFollows DEF r
<1>4. CASE DeliverTo(c)
  <2>1. PICK p, x, w : client' = [client EXCEPT ![c] =
                      [Idle EXCEPT !.op = "update purchase", !.pc = "location",
                                   !.change = "deliver", !.on = p, !.to = x, !.wants = w]]
    BY <1>4 DEF DeliverTo, Begin
  <2> DEFINE r == [Idle EXCEPT !.op = "update purchase", !.pc = "location",
                               !.change = "deliver", !.on = p, !.to = x, !.wants = w]
  <2>2. r.op = "update purchase" /\ r.pc = "location"
    BY DEF Idle
  <2> HIDE DEF r
  <2>3. Careful(r)
    BY <2>2 DEF Careful, Redirecting
  <2> QED BY <1>0, <2>1, <2>3, SetFollows DEF r
<1>5. CASE UpdateLockLocation(c)
  <2> DEFINE w == UpdateLock(client[c].on)
  <2>1. PICK r : client' = [client EXCEPT ![c] = r] /\
                 (r = Onward(c, "purchase", w) \/ r = [client[c] EXCEPT !.pc = "purchase", !.wants = w])
    BY <1>5 DEF UpdateLockLocation
  <2>2. client[c].op = "update purchase"
    BY <1>5 DEF UpdateLockLocation, Granted
  <2> HIDE DEF w
  <2>3. r.op = "update purchase" /\ r.pc = "purchase"
    <3>1. CASE r = Onward(c, "purchase", w)
      <4>1. Alike(Onward(c, "purchase", w), client[c]) /\ Onward(c, "purchase", w).pc = "purchase"
        BY <1>0, OnwardAs
      <4> QED BY <2>2, <3>1, <4>1 DEF Alike
    <3>2. CASE r = [client[c] EXCEPT !.pc = "purchase", !.wants = w]
      BY <1>0, <2>2, <3>2 DEF Idle
    <3> QED BY <2>1, <3>1, <3>2
  <2>4. Careful(r)
    BY <2>3 DEF Careful, Redirecting
  <2> QED BY <1>0, <2>1, <2>4, SetFollows
<1>6. CASE UpdateCheck(c)
  <2>1. CASE End(c)
    BY <1>0, <2>1, EndFollows
  <2>2. CASE ~ End(c)
    <3> DEFINE w == Place(client[c].to) \cup Row("purchase", client[c].on, "no key update")
               r == Onward(c, "write", w)
    <3>1. client' = [client EXCEPT ![c] = r] /\ client[c].op = "update purchase"
      BY <1>6, <2>2 DEF UpdateCheck, Go, Granted
    <3>2. Alike(r, client[c]) /\ r.pc = "write" /\ r.wants = w
      <4> HIDE DEF w
      <4> QED BY <1>0, OnwardAs
    <3> HIDE DEF r
    <3>3. r.op = "update purchase" /\ r.to = client[c].to /\ Place(r.to) \subseteq r.wants
      BY <3>1, <3>2 DEF Alike
    <3>4. Careful(r)
      BY <3>2, <3>3 DEF Careful, Redirecting
    <3> QED BY <1>0, <3>1, <3>4, SetFollows DEF r
  <2> QED BY <2>1, <2>2
<1>7. CASE RemoveRead(c)
  <2>1. PICK p, w : client' = [client EXCEPT ![c] =
                      [Idle EXCEPT !.op = "remove purchase", !.pc = "write", !.on = p, !.wants = w]]
    BY <1>7 DEF RemoveRead, Begin
  <2> DEFINE r == [Idle EXCEPT !.op = "remove purchase", !.pc = "write", !.on = p, !.wants = w]
  <2>2. r.op = "remove purchase"
    BY DEF Idle
  <2> HIDE DEF r
  <2> QED BY <1>0, <2>1, <2>2, SetUntroubled DEF r
<1>8. CASE AddLineRead(c)
  <2>1. PICK p, w : client' = [client EXCEPT ![c] =
                      [Idle EXCEPT !.op = "add line", !.pc = "insert", !.on = p, !.wants = w]]
    BY <1>8 DEF AddLineRead, Begin
  <2> DEFINE r == [Idle EXCEPT !.op = "add line", !.pc = "insert", !.on = p, !.wants = w]
  <2>2. r.op = "add line" /\ "add line" \in mix
    BY <1>8 DEF Idle, AddLineRead, Begin, Allowed
  <2> HIDE DEF r
  <2>3. Careful(r)
    BY <2>2 DEF Careful
  <2> QED BY <1>0, <2>1, <2>3, SetFollows DEF r
<1> QED BY <1>1, <1>2, <1>3, <1>4, <1>5, <1>6, <1>7, <1>8

LEMMA LineBeginsFollow ==
    ASSUME ProcurementInv, NEW c \in Clients,
           UpdateLineRead(c) \/ RemoveLineRead(c) \/ CancelRead(c) \/ ApplyRead(c)
    PROVE  Follows(c)
<1>0. Shape
  BY InvOf
<1>1. CASE UpdateLineRead(c)
  <2>1. PICK l, change, w : client' = [client EXCEPT ![c] =
                 [Idle EXCEPT !.op = "update line", !.pc = "purchase", !.change = change, !.line = l,
                              !.wants = w]]
    BY <1>1 DEF UpdateLineRead, Begin
  <2> DEFINE r == [Idle EXCEPT !.op = "update line", !.pc = "purchase", !.change = change, !.line = l,
                               !.wants = w]
  <2>2. r.op = "update line" /\ r.pc = "purchase"
    BY DEF Idle
  <2> HIDE DEF r
  <2> QED BY <1>0, <2>1, <2>2, Untroubled, SetFollows DEF r
<1>2. CASE RemoveLineRead(c)
  <2>1. PICK l, w : client' = [client EXCEPT ![c] =
                 [Idle EXCEPT !.op = "remove line", !.pc = "purchase", !.line = l, !.wants = w]]
    BY <1>2 DEF RemoveLineRead, Begin
  <2> DEFINE r == [Idle EXCEPT !.op = "remove line", !.pc = "purchase", !.line = l, !.wants = w]
  <2>2. r.op = "remove line" /\ "remove line" \in mix
    BY <1>2 DEF Idle, RemoveLineRead, Begin, Allowed
  <2> HIDE DEF r
  <2>3. Careful(r)
    BY <2>2 DEF Careful
  <2> QED BY <1>0, <2>1, <2>3, SetFollows DEF r
<1>3. CASE CancelRead(c)
  <2>1. PICK l, w : client' = [client EXCEPT ![c] =
                 [Idle EXCEPT !.op = "cancel", !.pc = "first", !.line = l, !.wants = w]]
    BY <1>3 DEF CancelRead, Begin
  <2> DEFINE r == [Idle EXCEPT !.op = "cancel", !.pc = "first", !.line = l, !.wants = w]
  <2>2. r.op = "cancel" /\ r.pc = "first"
    BY DEF Idle
  <2> HIDE DEF r
  <2> QED BY <1>0, <2>1, <2>2, Untroubled, SetFollows DEF r
<1>4. CASE ApplyRead(c)
  <2>1. PICK l, n, w : client' = [client EXCEPT ![c] =
                 [Idle EXCEPT !.op = "apply seats", !.pc = "purchase", !.line = l, !.n = n, !.wants = w]]
    BY <1>4 DEF ApplyRead, Begin
  <2> DEFINE r == [Idle EXCEPT !.op = "apply seats", !.pc = "purchase", !.line = l, !.n = n, !.wants = w]
  <2>2. r.op = "apply seats"
    BY DEF Idle
  <2> HIDE DEF r
  <2> QED BY <1>0, <2>1, <2>2, SetUntroubled DEF r
<1> QED BY <1>1, <1>2, <1>3, <1>4

LEMMA LineChecksFollow ==
    ASSUME ProcurementInv, NEW c \in Clients, Careful(client[c]),
           \/ UpdateLineLock(c) \/ UpdateLineCheck(c) \/ RemoveLineCheck(c)
           \/ CancelLock(c) \/ CancelCheck(c) \/ ApplyLockLine(c) \/ ApplyLockApplication(c)
           \/ ApplyCheck(c)
    PROVE  Follows(c)
<1>0. Shape /\ DOMAIN client[c] = DOMAIN Idle /\ Subject(client[c])
  BY InvOf
<1>1. CASE UpdateLineLock(c)
  BY <1>1, GoFollows DEF UpdateLineLock, Granted, Unbound
<1>2. CASE UpdateLineCheck(c)
  <2>1. CASE End(c)
    BY <1>0, <2>1, EndFollows
  <2>2. CASE ~ End(c)
    <3> DEFINE l == client[c].line
    <3>1. PICK row \in NewValue(l, client[c].change) :
            client' = [client EXCEPT ![c] =
              [Onward(c, "write", NewParents(lines[l], row)) EXCEPT !.staged = {row}]]
      BY <1>2, <2>2 DEF UpdateLineCheck
    <3> DEFINE w == NewParents(lines[l], row)
               x == Onward(c, "write", w)
               r == [x EXCEPT !.staged = {row}]
    <3>2. Alike(x, client[c]) /\ client[c].op = "update line" /\ l \in Lines
      BY <1>0, <1>2, OnwardAs DEF UpdateLineCheck, Granted, Subject, OnLines
    <3>3. /\ DOMAIN x = DOMAIN Idle /\ x.op = "update line" /\ x.line = l
          /\ x.change = client[c].change
      BY <3>2 DEF Alike
    <3> HIDE DEF l, w
    <3>4. r.op = x.op /\ r.line = x.line /\ r.change = x.change /\ r.staged = {row}
      <4> HIDE DEF x
      <4> QED BY <3>3 DEF Idle
    <3>5. client[c].change = "map line" =>
            /\ row.kind = lines[l].kind /\ row.quantity = lines[l].quantity
            /\ row.cancelled = lines[l].cancelled
      <4>1. lines[l] \in LineRecord
        BY <3>2, TypesOf
      <4> QED BY <3>1, <4>1 DEF NewValue, NewMapping, LineRecord
    <3>6. Careful(r)
      <4> HIDE DEF r, x
      <4> QED BY <3>3, <3>4, <3>5 DEF Careful, Remapping
    <3> QED BY <1>0, <3>1, <3>6, SetFollows DEF x, w, l
  <2> QED BY <2>1, <2>2
<1>3. CASE RemoveLineCheck(c)
  <2>1. CASE End(c)
    BY <1>0, <2>1, EndFollows
  <2>2. CASE ~ End(c)
    <3>1. PICK w : client' = [client EXCEPT ![c] = Onward(c, "write", w)]
      BY <1>3, <2>2 DEF RemoveLineCheck, Go
    <3> DEFINE r == Onward(c, "write", w)
    <3>2. Alike(r, client[c]) /\ client[c].op = "remove line"
      BY <1>0, <1>3, OnwardAs DEF RemoveLineCheck, Granted
    <3> HIDE DEF r
    <3>3. Careful(r)
      BY <3>2 DEF Careful, Alike
    <3> QED BY <1>0, <3>1, <3>3, SetFollows DEF r
  <2> QED BY <2>1, <2>2
<1>4. CASE CancelLock(c)
  <2>1. client[c].op = "cancel" /\ (End(c) \/ \E w : Go(c, "line", w))
    BY <1>4 DEF CancelLock, Granted
  <2> QED BY <1>0, <2>1, EndFollows, GoFollows DEF Unbound
<1>5. CASE CancelCheck(c)
  <2>1. CASE End(c)
    BY <1>0, <2>1, EndFollows
  <2>2. CASE ~ End(c)
    <3> DEFINE l == client[c].line
    <3>1. /\ Pending(l) # 0 /\ l \in Lines /\ client[c].op = "cancel"
          /\ \E n \in 1 .. Pending(l) :
               client' = [client EXCEPT ![c] =
                 [Onward(c, "write", {}) EXCEPT !.seen = lines[l].cancelled + n]]
      BY <1>0, <1>5, <2>2 DEF CancelCheck, Granted, Subject, OnLines
    <3>2. PICK n \in 1 .. Pending(l) :
            client' = [client EXCEPT ![c] =
              [Onward(c, "write", {}) EXCEPT !.seen = lines[l].cancelled + n]]
      BY <3>1
    <3> DEFINE seen == lines[l].cancelled + n
               x == Onward(c, "write", {})
               r == [x EXCEPT !.seen = seen]
    <3>3. Alike(x, client[c])
      BY <1>0, OnwardAs
    <3>4. DOMAIN x = DOMAIN Idle /\ x.op = "cancel" /\ x.line = l
      BY <3>1, <3>3 DEF Alike
    <3>5. lines[l].quantity \in Nat /\ lines[l].cancelled \in Nat /\ Received(l) \in Nat
      <4>1. lines[l] \in LineRecord /\ TypeOK
        BY <3>1, TypesOf
      <4>2. Received(l) \in Nat
        BY <3>1, <4>1, ReceivedNat
      <4> QED BY <4>1, <4>2, CeilingNat DEF LineRecord
    <3>6. n \in Nat /\ n <= lines[l].quantity - lines[l].cancelled - Received(l)
      <4>1. Pending(l) = lines[l].quantity - lines[l].cancelled - Received(l)
        BY <3>1 DEF Pending
      <4> DEFINE q == lines[l].quantity
                 k == lines[l].cancelled
                 v == Received(l)
      <4>2. q \in Nat /\ k \in Nat /\ v \in Nat /\ n \in 1 .. (q - k - v)
        BY <3>2, <3>5, <4>1
      <4> HIDE DEF q, k, v, l
      <4>3. n \in Nat /\ n <= q - k - v
        BY <4>2
      <4> QED BY <4>3 DEF q, k, v
    <3>7. lines[l].cancelled <= seen /\ Received(l) + seen <= lines[l].quantity
      <4> DEFINE q == lines[l].quantity
                 k == lines[l].cancelled
                 v == Received(l)
      <4>1. q \in Nat /\ k \in Nat /\ v \in Nat /\ n \in Nat /\ n <= q - k - v
        BY <3>5, <3>6
      <4> HIDE DEF q, k, v
      <4>2. k <= k + n /\ v + (k + n) <= q
        BY <4>1
      <4> QED BY <4>2 DEF q, k, v
    <3> HIDE DEF l, seen
    <3>8. r.op = x.op /\ r.line = x.line /\ r.seen = seen
      <4> HIDE DEF x
      <4> QED BY <3>4 DEF Idle
    <3>9. Careful(r)
      <4> HIDE DEF r, x
      <4> QED BY <3>4, <3>7, <3>8 DEF Careful, Remaining
    <3> QED BY <1>0, <3>2, <3>9, SetFollows DEF x, l, seen
  <2> QED BY <2>1, <2>2
<1>6. CASE ApplyLockLine(c) \/ ApplyLockApplication(c)
  <2>1. client[c].op = "apply seats" /\ (End(c) \/ \E pc, w : Go(c, pc, w))
    BY <1>6 DEF ApplyLockLine, ApplyLockApplication, Granted
  <2> QED BY <1>0, <2>1, EndFollows, GoFollows DEF Unbound
<1>7. CASE ApplyCheck(c)
  <2>1. CASE End(c)
    BY <1>0, <2>1, EndFollows
  <2>2. CASE ~ End(c)
    <3>1. PICK to : client' = [client EXCEPT ![c] = [Onward(c, "write", {}) EXCEPT !.seen = to]]
      BY <1>7, <2>2 DEF ApplyCheck
    <3> DEFINE x == Onward(c, "write", {})
               r == [x EXCEPT !.seen = to]
    <3>2. Alike(x, client[c]) /\ client[c].op = "apply seats"
      BY <1>0, <1>7, OnwardAs DEF ApplyCheck, Granted
    <3>3. DOMAIN x = DOMAIN Idle /\ x.op = "apply seats"
      BY <3>2 DEF Alike
    <3>4. r.op = x.op
      <4> HIDE DEF x
      <4> QED BY <3>3 DEF Idle
    <3> HIDE DEF r
    <3> QED BY <1>0, <3>1, <3>3, <3>4, SetUntroubled DEF r
  <2> QED BY <2>1, <2>2
<1> QED BY <1>1, <1>2, <1>3, <1>4, <1>5, <1>6, <1>7
-----------------------------------------------------------------------------
\* Locking the next of the assets a request is about.
LEMMA LockAssetsFollow ==
    ASSUME ProcurementInv, NEW c \in Clients, Careful(client[c]),
           NEW op \in {"link", "unlink", "from assets"}, LockAssets(c, op)
    PROVE  Follows(c)
<1> DEFINE x == client[c]
<1>0. Shape /\ DOMAIN x = DOMAIN Idle
  BY InvOf
<1>1. x.op = op /\ x.pc = "assets" /\ LockNext(c, "asset", "update", {})
  BY DEF LockAssets, Granted
<1>2. Collecting(x) /\ x.wants = FirstRow("asset", "update", x.ids) /\ x.target \subseteq Assets
      /\ AssetsLocked(x, x.target \ x.ids)
  BY <1>1 DEF Careful, Collecting
<1>b. PICK id, r : client'[c] = r /\ NextLocked(r, x, id, "asset", "update", {})
  BY <1>0, <1>1, LocksFirst
<1>3. /\ client'[c] = r /\ Alike(r, x) /\ r.pc = x.pc /\ r.locks = x.locks \cup x.wants
      /\ r.ids = x.ids \ {id} /\ r.wants = FirstRow("asset", "update", r.ids)
      /\ <<"asset", id, "update">> \in r.locks
  BY <1>2, <1>b DEF NextLocked
<1>4. r.op = op /\ r.change = x.change /\ r.to = x.to /\ r.target = x.target /\ r.pc = "assets"
  BY <1>1, <1>3 DEF Alike
<1>5. AssetsLocked(r, r.target \ r.ids)
  <2> SUFFICES ASSUME NEW a \in r.target \ r.ids PROVE Row("asset", a, "update") \subseteq r.locks
    BY DEF AssetsLocked
  <2>1. CASE a = id
    BY <1>2, <1>3, <2>1 DEF Row
  <2>2. CASE a # id
    BY <1>2, <1>3, <1>4, <2>2 DEF AssetsLocked
  <2> QED BY <2>1, <2>2
<1>6. Collecting(r)
  BY <1>2, <1>3, <1>4, <1>5 DEF Collecting
<1>7. op = "link" => Attaching(r)
  BY <1>1, <1>4 DEF Careful, Attaching
<1>8. op = "from assets" => Gathering(r)
  <2> SUFFICES ASSUME op = "from assets" PROVE Gathering(r)
    OBVIOUS
  <2>1. Gathering(x)
    BY <1>1 DEF Careful
  <2> QED BY <1>1, <1>3, <1>4, <2>1 DEF Gathering
<1>9. op = "unlink" => op \in mix
  BY <1>1 DEF Careful
<1> HIDE DEF x
<1>10. Careful(r)
  BY <1>4, <1>6, <1>7, <1>8, <1>9 DEF Careful
<1> QED BY <1>3, <1>10 DEF Follows

\* The assets a request chooses are among those it has locked.
LEMMA Chosen ==
    ASSUME NEW c \in Clients, Careful(client[c]), NEW l, NEW r,
           client[c].op \in {"link", "unlink"}, client[c].pc = "assets", client[c].ids = {},
           l = client[c].line,
           r.target = client[c].target, client[c].locks \subseteq r.locks, r.line = l,
           r.change = client[c].change, r.staged = Linkable(c, l)
    PROVE  /\ r.target \subseteq Assets /\ r.staged \subseteq r.target /\ AssetsLocked(r, r.staged)
           /\ \A a \in r.staged :
                /\ assets[a].state # "none"
                /\ r.change = "link" => assets[a].line = None
                /\ r.change = "apply" => assets[a].line = r.line
<1>1. Collecting(client[c])
  BY DEF Careful
<1>2. r.target \subseteq Assets /\ AssetsLocked(client[c], client[c].target)
  BY <1>1 DEF Collecting
<1>3. /\ r.staged \subseteq r.target
      /\ \A a \in r.staged :
           /\ assets[a].state # "none"
           /\ r.change = "link" => assets[a].line = None
           /\ r.change = "apply" => assets[a].line = r.line
  BY DEF Linkable, LiveAssets
<1>4. AssetsLocked(r, r.staged)
  BY <1>2, <1>3 DEF AssetsLocked
<1> QED BY <1>2, <1>3, <1>4

\* What was chosen stays chosen while the request goes on.
LEMMA Holding ==
    ASSUME NEW x, NEW r, Collecting(x), x.pc \in {"model", "line"} \cup {"events"},
           r.pc \in {"line", "events"}, Alike(r, x), x.locks \subseteq r.locks, r.staged = x.staged
    PROVE  Collecting(r)
<1>1. /\ x.target \subseteq Assets /\ x.staged \subseteq x.target /\ AssetsLocked(x, x.staged)
      /\ \A a \in x.staged :
           /\ assets[a].state # "none"
           /\ x.change = "link" => assets[a].line = None
           /\ x.change = "apply" => assets[a].line = x.line
  BY DEF Collecting
<1>2. r.target = x.target /\ r.change = x.change /\ r.line = x.line
  BY DEF Alike
<1>3. AssetsLocked(r, r.staged)
  BY <1>1 DEF AssetsLocked
<1> QED BY <1>1, <1>2, <1>3 DEF Collecting

LEMMA LinkFollows ==
    ASSUME ProcurementInv, NEW c \in Clients, Careful(client[c]),
           \/ LinkRead(c) \/ LinkCheck(c) \/ LinkAssets(c) \/ LinkApplied(c) \/ LinkWritten(c)
           \/ LinkEvent(c)
    PROVE  Follows(c)
<1> DEFINE x == client[c]
           l == client[c].line
<1>0. Shape /\ DOMAIN x = DOMAIN Idle
  BY InvOf
<1>1. CASE LinkRead(c)
  <2>1. PICK line \in Known(lines, Lines), S \in SUBSET Known(assets, Assets),
             change \in {"link", "move link", "apply"} :
          Begin(c, change, [Idle EXCEPT !.op = "link", !.pc = "purchase", !.change = change,
                       !.line = line, !.target = S, !.wants = LinkLock(PurchaseOf(line))])
    BY <1>1 DEF LinkRead
  <2> DEFINE w == LinkLock(PurchaseOf(line))
             r == [Idle EXCEPT !.op = "link", !.pc = "purchase", !.change = change,
                               !.line = line, !.target = S, !.wants = w]
  <2>2. r.op = "link" /\ r.pc = "purchase" /\ r.change = change /\ r.target = S
    <3> HIDE DEF w
    <3> QED BY DEF Idle
  <2>3. client' = [client EXCEPT ![c] = r] /\ change \in mix /\ S \subseteq Assets
    BY <2>1 DEF Begin, Allowed, Known
  <2> HIDE DEF r
  <2>4. Careful(r)
    BY <2>2, <2>3 DEF Careful, Collecting, Attaching
  <2> QED BY <1>0, <2>3, <2>4, SetFollows
<1>2. CASE LinkCheck(c)
  <2>1. CASE End(c)
    BY <1>0, <2>1, EndFollows
  <2>2. CASE ~ End(c)
    <3>1. PICK to, n :
            client' = [client EXCEPT ![c] =
              Queued([Onward(c, "assets", {}) EXCEPT !.to = to, !.n = n],
                     "assets", "asset", "update", client[c].target)]
      BY <1>2, <2>2 DEF LinkCheck
    <3> DEFINE y == Onward(c, "assets", {})
               z == [y EXCEPT !.to = to, !.n = n]
               S == client[c].target
               w == FirstRow("asset", "update", S)
               r == Queued(z, "assets", "asset", "update", S)
    <3>2. Alike(y, x) /\ x.op = "link"
      BY <1>0, <1>2, OnwardAs DEF LinkCheck, Granted
    <3>3. DOMAIN y = DOMAIN Idle /\ y.op = "link" /\ y.change = x.change /\ y.target = S
      BY <3>2 DEF Alike
    <3>4. DOMAIN z = DOMAIN Idle /\ z.op = "link" /\ z.change = x.change /\ z.target = S
      <4> HIDE DEF y, x, S
      <4> QED BY <3>3 DEF Idle
    <3>5. r = [z EXCEPT !.pc = "assets", !.ids = S, !.wants = w]
      BY DEF Queued
    <3>6. /\ r.op = "link" /\ r.change = x.change /\ r.target = S /\ r.pc = "assets"
          /\ r.ids = S /\ r.wants = w
      <4> HIDE DEF z, x, S, w, r
      <4> QED BY <3>4, <3>5 DEF Idle
    <3>7. client' = [client EXCEPT ![c] = r]
      BY <3>1
    <3>8. S \subseteq Assets /\ x.change \in {"link", "move link", "apply"} \cap mix
      BY <3>2 DEF Careful, Collecting, Attaching
    <3> HIDE DEF r, S, x
    <3>9. Collecting(r)
      BY <3>6, <3>8 DEF Collecting, AssetsLocked, w
    <3>10. Attaching(r)
      BY <3>6, <3>8 DEF Attaching
    <3>11. Careful(r)
      BY <3>6, <3>9, <3>10 DEF Careful
    <3> QED BY <1>0, <3>7, <3>11, SetFollows
  <2> QED BY <2>1, <2>2
<1>3. CASE LinkAssets(c)
  <2>1. CASE End(c)
    BY <1>0, <2>1, EndFollows
  <2>2. CASE ~ End(c)
    <3>1. PICK w : client' = [client EXCEPT ![c] =
                     [Onward(c, "model", w) EXCEPT !.staged = Linkable(c, l)]]
      BY <1>3, <2>2 DEF LinkAssets
    <3> DEFINE rows == Linkable(c, l)
               y == Onward(c, "model", w)
               r == [y EXCEPT !.staged = rows]
    <3>2. Alike(y, x) /\ y.pc = "model" /\ y.locks = x.locks \cup x.wants
      BY <1>0, OnwardAs
    <3>3. /\ DOMAIN y = DOMAIN Idle /\ y.op = x.op /\ y.change = x.change /\ y.target = x.target
          /\ y.line = l
      BY <3>2 DEF Alike
    <3>4. /\ r.op = x.op /\ r.change = x.change /\ r.target = x.target /\ r.line = l
          /\ r.pc = "model" /\ r.locks = x.locks \cup x.wants /\ r.staged = rows
      <4> HIDE DEF y, x, l, rows
      <4> QED BY <3>2, <3>3 DEF Idle
    <3>5. client' = [client EXCEPT ![c] = r] /\ x.op = "link" /\ x.pc = "assets" /\ x.ids = {}
      BY <1>3, <3>1 DEF LinkAssets, Granted
    <3>6. x.change \in {"link", "move link", "apply"} \cap mix
      BY <3>5 DEF Careful, Attaching
    <3> HIDE DEF r, y
    <3>7. Collecting(r)
      BY <3>4, <3>5, Chosen DEF Collecting
    <3> HIDE DEF x, l, rows
    <3>8. Attaching(r)
      BY <3>4, <3>6 DEF Attaching
    <3>9. Careful(r)
      BY <3>4, <3>5, <3>7, <3>8 DEF Careful
    <3> QED BY <1>0, <3>5, <3>9, SetFollows
  <2> QED BY <2>1, <2>2
<1>4. CASE LinkApplied(c)
  <2> DEFINE w == IF x.change = "apply" THEN {} ELSE Row("line", l, "key share")
             r == Onward(c, "line", w)
  <2>1. client' = [client EXCEPT ![c] = r] /\ x.op = "link" /\ x.pc = "model"
    BY <1>4 DEF LinkApplied, Go, Granted
  <2>2. /\ Alike(r, x) /\ r.pc = "line" /\ r.wants = w /\ r.locks = x.locks \cup x.wants
        /\ r.staged = x.staged
    <3> HIDE DEF w
    <3> QED BY <1>0, OnwardAs
  <2> HIDE DEF r
  <2>3. r.op = "link" /\ r.change = x.change /\ r.line = l
    BY <2>1, <2>2 DEF Alike
  <2>4. Collecting(x) /\ Attaching(x)
    BY <2>1 DEF Careful
  <2>5. Collecting(r)
    BY <2>1, <2>2, <2>4, Holding
  <2>6. Attaching(r)
    BY <2>2, <2>3, <2>4 DEF Attaching
  <2> HIDE DEF x, l
  <2>7. Careful(r)
    BY <2>3, <2>5, <2>6 DEF Careful
  <2> QED BY <1>0, <2>1, <2>7, SetFollows
<1>5. CASE LinkWritten(c) \/ LinkEvent(c)
  <2>1. PICK left : NextEvent(c, left)
    BY <1>5 DEF LinkWritten, LinkEvent
  <2>2. x.op = "link" /\ x.pc \in {"line", "events"}
    BY <1>5 DEF LinkWritten, LinkEvent, Granted
  <2>3. PICK w, r : /\ client' = [client EXCEPT ![c] = r]
                    /\ \/ r = Onward(c, "events", w)
                       \/ \E rest : r = [Onward(c, "events", w) EXCEPT !.ids = rest]
    BY <2>1 DEF NextEvent
  <2> DEFINE y == Onward(c, "events", w)
  <2>4. /\ Alike(y, x) /\ y.pc = "events" /\ y.locks = x.locks \cup x.wants
        /\ y.staged = x.staged
    BY <1>0, OnwardAs
  <2>5. DOMAIN y = DOMAIN Idle
    BY <2>4 DEF Alike
  <2> HIDE DEF y
  <2>6. Alike(r, y) /\ r.pc = y.pc /\ r.locks = y.locks /\ r.staged = y.staged
    <3>1. r = y \/ \E rest : r = [y EXCEPT !.ids = rest]
      BY <2>3 DEF y
    <3> QED BY <2>5, <3>1 DEF Alike, Idle
  <2>7. Alike(r, x)
    BY <2>4, <2>6 DEF Alike
  <2>8. r.op = "link" /\ r.change = x.change /\ r.line = l
    BY <2>2, <2>7 DEF Alike
  <2>9. Collecting(x) /\ Attaching(x)
    BY <2>2 DEF Careful
  <2>10. Collecting(r)
    BY <2>2, <2>4, <2>6, <2>7, <2>9, Holding
  <2>11. Attaching(r)
    BY <2>2, <2>4, <2>6, <2>8, <2>9 DEF Attaching
  <2> HIDE DEF x, l
  <2>12. Careful(r)
    BY <2>8, <2>10, <2>11 DEF Careful
  <2> QED BY <1>0, <2>3, <2>12, SetFollows
<1> QED BY <1>1, <1>2, <1>3, <1>4, <1>5

\* An asset that unlinks reads no more than its lock tells.
LEMMA UnlinkFollows ==
    ASSUME ProcurementInv, NEW c \in Clients, Careful(client[c]),
           UnlinkRead(c) \/ UnlinkAssets(c)
    PROVE  Follows(c)
<1> DEFINE x == client[c]
           l == client[c].line
<1>0. Shape /\ DOMAIN x = DOMAIN Idle
  BY InvOf
<1>1. CASE UnlinkRead(c)
  <2>1. PICK line \in Lines, S \in SUBSET Known(assets, Assets) :
          Begin(c, "unlink", Queued([Idle EXCEPT !.op = "unlink", !.change = "unlink", !.line = line,
                                              !.target = S], "assets", "asset", "update", S))
    BY <1>1 DEF UnlinkRead
  <2> DEFINE w == FirstRow("asset", "update", S)
             r == [Idle EXCEPT !.op = "unlink", !.change = "unlink", !.line = line, !.target = S,
                               !.pc = "assets", !.ids = S, !.wants = w]
  <2>2. client' = [client EXCEPT ![c] = r] /\ "unlink" \in mix /\ S \subseteq Assets
    BY <2>1 DEF Begin, Allowed, Known, Queued
  <2>3. r.op = "unlink" /\ r.target = S /\ r.pc = "assets" /\ r.ids = S /\ r.wants = w
    <3> HIDE DEF w
    <3> QED BY DEF Idle
  <2> HIDE DEF r
  <2>4. Collecting(r)
    BY <2>2, <2>3 DEF Collecting, AssetsLocked
  <2>5. Careful(r)
    BY <2>2, <2>3, <2>4 DEF Careful
  <2> QED BY <1>0, <2>2, <2>5, SetFollows
<1>2. CASE UnlinkAssets(c)
  <2>1. CASE End(c)
    BY <1>0, <2>1, EndFollows
  <2>2. CASE ~ End(c)
    <3>1. PICK w : client' = [client EXCEPT ![c] =
                     [Onward(c, "event", w) EXCEPT !.staged = Linkable(c, l)]]
      BY <1>2, <2>2 DEF UnlinkAssets
    <3> DEFINE rows == Linkable(c, l)
               y == Onward(c, "event", w)
               r == [y EXCEPT !.staged = rows]
    <3>2. Alike(y, x) /\ y.pc = "event" /\ y.locks = x.locks \cup x.wants
      BY <1>0, OnwardAs
    <3>3. /\ DOMAIN y = DOMAIN Idle /\ y.op = x.op /\ y.change = x.change /\ y.target = x.target
          /\ y.line = l
      BY <3>2 DEF Alike
    <3>4. /\ r.op = x.op /\ r.change = x.change /\ r.target = x.target /\ r.line = l
          /\ r.pc = "event" /\ r.locks = x.locks \cup x.wants /\ r.staged = rows
      <4> HIDE DEF y, x, l, rows
      <4> QED BY <3>2, <3>3 DEF Idle
    <3>5. client' = [client EXCEPT ![c] = r] /\ x.op = "unlink" /\ x.pc = "assets" /\ x.ids = {}
      BY <1>2, <3>1 DEF UnlinkAssets, Granted
    <3>6. "unlink" \in mix /\ Collecting(x)
      BY <3>5 DEF Careful
    <3> HIDE DEF r, y
    <3>7. Collecting(r)
      BY <3>4, <3>5, <3>6, Chosen DEF Collecting
    <3> HIDE DEF x, l, rows
    <3>9. Careful(r)
      BY <3>4, <3>5, <3>6, <3>7 DEF Careful
    <3> QED BY <1>0, <3>5, <3>9, SetFollows
  <2> QED BY <2>1, <2>2
<1> QED BY <1>1, <1>2

LEMMA FromAssetsFollow ==
    ASSUME ProcurementInv, NEW c \in Clients, Careful(client[c]),
           \/ FromAssets(c) \/ FromAssetsCheck(c) \/ FromAssetsRefused(c)
           \/ FromAssetsGather(c) \/ FromAssetsModel(c)
    PROVE  Follows(c)
<1> DEFINE x == client[c]
<1>0. Shape /\ DOMAIN x = DOMAIN Idle
  BY InvOf
<1>1. CASE FromAssets(c)
  <2>1. PICK S \in SUBSET Known(assets, Assets), y \in Known(locations, Locations) \cup {None} :
          Begin(c, "from assets", [Idle EXCEPT !.op = "from assets", !.pc = "references",
                        !.change = "link", !.to = y, !.target = S, !.wants = Place(y)])
    BY <1>1 DEF FromAssets
  <2> DEFINE w == Place(y)
             r == [Idle EXCEPT !.op = "from assets", !.pc = "references",
                        !.change = "link", !.to = y, !.target = S, !.wants = w]
  <2>2. client' = [client EXCEPT ![c] = r] /\ S \subseteq Assets
    BY <2>1 DEF Begin, Known
  <2>3. /\ r.op = "from assets" /\ r.pc = "references" /\ r.change = "link" /\ r.to = y
        /\ r.target = S /\ r.wants = w
    <3> HIDE DEF w
    <3> QED BY DEF Idle
  <2> HIDE DEF r
  <2>4. Collecting(r) /\ Gathering(r)
    BY <2>2, <2>3 DEF Collecting, Gathering
  <2>5. Careful(r)
    BY <2>3, <2>4 DEF Careful
  <2> QED BY <1>0, <2>2, <2>5, SetFollows
<1>2. CASE FromAssetsCheck(c)
  <2>1. CASE End(c)
    BY <1>0, <2>1, EndFollows
  <2>2. CASE ~ End(c)
    <3> DEFINE S == client[c].target
               r == Queued(Onward(c, "assets", {}), "assets", "asset", "update", S)
    <3>1. /\ client' = [client EXCEPT ![c] = r] /\ x.op = "from assets" /\ x.pc = "references"
          /\ Usable(x.to)
      BY <1>2, <2>2 DEF FromAssetsCheck, Granted, Usable
    <3>b. QueuedOn(r, x, "assets", "asset", "update", S)
      BY <1>0, QueuesAs
    <3>2. /\ Alike(r, x) /\ r.pc = "assets" /\ r.ids = S /\ r.wants = FirstRow("asset", "update", S)
          /\ r.locks = x.locks \cup x.wants
      <4> HIDE DEF r, S
      <4> QED BY <3>b DEF QueuedOn
    <3> HIDE DEF r
    <3>3. r.op = "from assets" /\ r.target = S /\ r.to = x.to /\ r.change = x.change
      BY <3>1, <3>2 DEF Alike
    <3>4. S \subseteq Assets /\ x.wants = Place(x.to) /\ x.change = "link"
      BY <3>1 DEF Careful, Collecting, Gathering
    <3> HIDE DEF S, x
    <3>5. Collecting(r)
      BY <3>2, <3>3, <3>4 DEF Collecting, AssetsLocked
    <3>6. Gathering(r)
      BY <3>1, <3>2, <3>3, <3>4 DEF Gathering
    <3>7. Careful(r)
      BY <3>3, <3>5, <3>6 DEF Careful
    <3> QED BY <1>0, <3>1, <3>7, SetFollows
  <2> QED BY <2>1, <2>2
<1>3. CASE FromAssetsRefused(c)
  BY <1>0, <1>3, EndFollows DEF FromAssetsRefused
<1>4. CASE FromAssetsGather(c) \/ FromAssetsModel(c)
  <2>1. /\ x.op = "from assets" /\ x.pc \in {"assets", "models"}
        /\ x.pc = "assets" => x.ids = {}
    BY <1>4 DEF FromAssetsGather, FromAssetsModel, Granted
  <2>2. PICK w, left : client' = [client EXCEPT ![c] = [Onward(c, "models", w) EXCEPT !.ids = left]]
    BY <1>4 DEF FromAssetsGather, FromAssetsModel
  <2> DEFINE y == Onward(c, "models", w)
             r == [y EXCEPT !.ids = left]
  <2>3. Alike(y, x) /\ y.pc = "models" /\ y.locks = x.locks \cup x.wants
    BY <1>0, OnwardAs
  <2>4. Alike(r, y) /\ r.pc = y.pc /\ r.locks = y.locks
    <3>1. DOMAIN y = DOMAIN Idle
      BY <2>3 DEF Alike
    <3> HIDE DEF y
    <3> QED BY <3>1 DEF Alike, Idle
  <2>5. client' = [client EXCEPT ![c] = r]
    BY <2>2
  <2> HIDE DEF r, y
  <2>6. /\ r.op = "from assets" /\ r.pc = "models" /\ r.to = x.to /\ r.change = x.change
        /\ r.target = x.target /\ x.locks \subseteq r.locks
    BY <2>1, <2>3, <2>4 DEF Alike
  <2>7. Gathering(x) /\ Collecting(x)
    BY <2>1 DEF Careful
  <2>8. Gathering(r)
    BY <2>1, <2>6, <2>7 DEF Gathering
  <2>9. Collecting(r)
    BY <2>1, <2>6, <2>7 DEF Collecting, AssetsLocked
  <2>10. Careful(r)
    BY <2>6, <2>8, <2>9 DEF Careful
  <2> QED BY <1>0, <2>5, <2>10, SetFollows
<1> QED BY <1>1, <1>2, <1>3, <1>4

LEMMA UnitCareful ==
    ASSUME NEW line, NEW x, NEW m, NEW n, NEW seen
    PROVE  Careful([Unit(line, x, m, n) EXCEPT !.seen = seen]) /\ Careful(Unit(line, x, m, n))
<1> DEFINE w == Place(x)
           u == [Idle EXCEPT !.op = "units", !.pc = "location", !.line = line, !.to = x,
                             !.of = m, !.n = n, !.wants = w]
           r == [u EXCEPT !.seen = seen]
<1>1. /\ u.op = "units" /\ u.pc = "location" /\ u.to = x /\ u.wants = w
      /\ r.op = "units" /\ r.pc = "location" /\ r.to = x /\ r.wants = w
  <2> HIDE DEF w
  <2> QED BY DEF Idle
<1> HIDE DEF u, r
<1>2. Careful(u) /\ Careful(r)
  BY <1>1 DEF Careful, Unpacking
<1> QED BY <1>2 DEF u, r, Unit

LEMMA NextUnitCareful ==
    ASSUME NEW c, NEW created
    PROVE  Careful(NextUnit(c, created))
<1> DEFINE q == client[c]
           made == q.seen + created
           w == Held(PurchaseOf(q.line))
           u == [Unit(q.line, q.to, q.of, q.n - 1) EXCEPT !.seen = made]
           r == [Idle EXCEPT !.op = "units", !.pc = "event", !.line = q.line, !.wants = w]
<1>1. NextUnit(c, created) = u \/ NextUnit(c, created) = r \/ NextUnit(c, created) = Idle
  <2>1. CASE q.n > 1
    BY <2>1 DEF NextUnit
  <2>2. CASE ~ (q.n > 1) /\ q.n <= 1 /\ q.line # None /\ made > 0
    BY <2>2 DEF NextUnit
  <2>3. CASE ~ (q.n > 1) /\ ~ (q.n <= 1 /\ q.line # None /\ made > 0)
    BY <2>3 DEF NextUnit
  <2> QED BY <2>1, <2>2, <2>3
<1>2. Careful(u)
  BY UnitCareful
<1>3. Careful(r)
  <2>1. r.op = "units" /\ r.pc = "event"
    <3> HIDE DEF q, w
    <3> QED BY DEF Idle
  <2> HIDE DEF r
  <2> QED BY <2>1 DEF Careful, Unpacking
<1>4. Careful(Idle)
  <2>1. Idle.op = "none"
    BY DEF Idle
  <2> QED BY <2>1, Untroubled
<1> HIDE DEF u, r
<1> QED BY <1>1, <1>2, <1>3, <1>4

LEMMA NextUnitFollows ==
    ASSUME ProcurementInv, NEW c \in Clients, NEW created,
           client' = [client EXCEPT ![c] = NextUnit(c, created)]
    PROVE  Follows(c)
<1>0. Shape
  BY InvOf
<1> QED BY <1>0, NextUnitCareful, SetFollows

LEMMA UnitsFollow ==
    ASSUME ProcurementInv, NEW c \in Clients, Careful(client[c]),
           CreateAsset(c) \/ ReceiveUnits(c) \/ UnitCheck(c) \/ UnitsEvent(c)
    PROVE  Follows(c)
<1> DEFINE x == client[c]
<1>0. Shape /\ DOMAIN x = DOMAIN Idle
  BY InvOf
<1>1. CASE CreateAsset(c) \/ ReceiveUnits(c)
  <2>1. \E l, y, m, n : client' = [client EXCEPT ![c] = Unit(l, y, m, n)]
    <3>1. CASE CreateAsset(c)
      <4>1. PICK y \in Known(locations, Locations) \cup {None}, m \in Models \cup {None} :
              Begin(c, "create asset", Unit(None, y, m, 1))
        BY <3>1 DEF CreateAsset
      <4> QED BY <4>1 DEF Begin
    <3>2. CASE ReceiveUnits(c)
      <4>1. PICK l \in Lines, n \in 1 .. Cardinality(Assets) :
              \E at \in {purchases[PurchaseOf(l)].location, None} :
                Begin(c, "receive units", Unit(l, at, lines[l].model, n))
        BY <3>2 DEF ReceiveUnits
      <4>2. PICK at : Begin(c, "receive units", Unit(l, at, lines[l].model, n))
        BY <4>1
      <4> QED BY <4>2 DEF Begin
    <3> QED BY <1>1, <3>1, <3>2
  <2>2. PICK l, y, m, n : client' = [client EXCEPT ![c] = Unit(l, y, m, n)]
    BY <2>1
  <2>3. Careful(Unit(l, y, m, n))
    BY UnitCareful
  <2> QED BY <1>0, <2>2, <2>3, SetFollows
<1>2. CASE UnitCheck(c)
  <2>1. CASE client' = [client EXCEPT ![c] = NextUnit(c, 0)]
    BY <2>1, NextUnitFollows
  <2>2. CASE ~ (client' = [client EXCEPT ![c] = NextUnit(c, 0)])
    <3> DEFINE w == Row("model", x.of, "key share") \cup Row("line", x.line, "key share")
               r == Onward(c, "insert", w)
    <3>1. /\ client' = [client EXCEPT ![c] = r] /\ x.op = "units" /\ x.pc = "location"
          /\ Usable(x.to)
      BY <1>2, <2>2 DEF UnitCheck, Granted, Usable
    <3>2. Alike(r, x) /\ r.pc = "insert" /\ r.wants = w /\ r.locks = x.locks \cup x.wants
      <4> HIDE DEF w
      <4> QED BY <1>0, OnwardAs
    <3>3. x.wants = Place(x.to)
      BY <3>1 DEF Careful, Unpacking
    <3> HIDE DEF r
    <3>4. r.op = "units" /\ r.to = x.to /\ r.line = x.line
      BY <3>1, <3>2 DEF Alike
    <3>5. Unpacking(r)
      BY <3>1, <3>2, <3>3, <3>4 DEF Unpacking
    <3> HIDE DEF x
    <3>6. Careful(r)
      BY <3>4, <3>5 DEF Careful
    <3> QED BY <1>0, <3>1, <3>6, SetFollows
  <2> QED BY <2>1, <2>2
<1>3. CASE UnitsEvent(c)
  BY <1>0, <1>3, EndFollows DEF UnitsEvent
<1> QED BY <1>1, <1>2, <1>3
-----------------------------------------------------------------------------
LEMMA UpFrom ==
    ASSUME NEW y, LocationLive(y), NEW x, ~ IsBelow(y, x), TreeSound, TypeOK, y \in Locations
    PROVE  \E T : Avoids(T, y, x)
<1>1. PICK S \in SUBSET Locations : WalkedUp(y, S) /\ x \notin S
  BY DEF IsBelow
<1> DEFINE T == {z \in S : LocationLive(z)}
<1>2. \A z \in Locations : LocationLive(z) => Parent(z) = None \/ LocationLive(Parent(z))
  BY DEF TreeSound, Forest, LocationLive, Parent
<1>3. WalkedUp(y, T)
  BY <1>1, <1>2 DEF WalkedUp
<1>4. T \in SUBSET Locations /\ x \notin T /\ \A z \in T : LocationLive(z)
  BY <1>1
<1> HIDE DEF T
<1>5. Avoids(T, y, x)
  BY <1>3, <1>4 DEF Avoids
<1> QED BY <1>5

LEMMA ReparentFollows ==
    ASSUME ProcurementInv, TreeSound, NEW c \in Clients, Careful(client[c]),
           Reparent(c) \/ ReparentCheck(c)
    PROVE  Follows(c)
<1> DEFINE x == client[c]
<1>0. Shape /\ DOMAIN x = DOMAIN Idle /\ Subject(x)
  BY InvOf
<1>1. CASE Reparent(c)
  <2>1. PICK on, to, w : w = TreeLock(on) /\ client' = [client EXCEPT ![c] =
            [Idle EXCEPT !.op = "reparent", !.pc = "tree", !.on = on, !.to = to, !.wants = w]]
    BY <1>1 DEF Reparent, Begin
  <2> DEFINE r == [Idle EXCEPT !.op = "reparent", !.pc = "tree", !.on = on, !.to = to, !.wants = w]
  <2>2. r.op = "reparent" /\ r.pc = "tree" /\ r.wants = w
    BY DEF Idle
  <2> HIDE DEF r
  <2>3. Careful(r)
    BY <2>1, <2>2 DEF Careful, Rearranging, TreeLock
  <2> QED BY <1>0, <2>1, <2>3, SetFollows DEF r
<1>2. CASE ReparentCheck(c)
  <2>1. CASE End(c)
    BY <1>0, <2>1, EndFollows
  <2>2. CASE ~ End(c)
    <3> DEFINE w == Row("location", x.on, "no key update")
               r == Onward(c, "write", w)
    <3>1. /\ client' = [client EXCEPT ![c] = r] /\ x.op = "reparent" /\ x.pc = "tree"
          /\ LocationLive(x.on) /\ ParentAssignable(x.on, x.to)
      BY <1>2, <2>2 DEF ReparentCheck, Granted, Go
    <3>2. Alike(r, x) /\ r.pc = "write" /\ r.locks = x.locks \cup x.wants
      <4> HIDE DEF w
      <4> QED BY <1>0, OnwardAs
    <3> HIDE DEF r
    <3>3. r.op = "reparent" /\ r.to = x.to /\ r.on = x.on
      BY <3>1, <3>2 DEF Alike
    <3>4. x.wants = Tree /\ x.to \in Locations \cup {None}
      BY <1>0, <3>1 DEF Careful, Rearranging, Subject
    <3>5. Above(x.to, x.on)
      <4> SUFFICES ASSUME x.to # None
                   PROVE  x.to # x.on /\ LocationLive(x.to) /\ \E T : Avoids(T, x.to, x.on)
        BY DEF Above
      <4> DEFINE to == x.to
                 on == x.on
      <4>1. to # on /\ LocationLive(to) /\ ~ IsBelow(to, on) /\ to \in Locations
        BY <3>1, <3>4 DEF ParentAssignable
      <4>2. \E T : Avoids(T, to, on)
        <5> HIDE DEF to, on
        <5> QED BY <4>1, UpFrom, SoundTables
      <4> QED BY <4>1, <4>2
    <3> HIDE DEF x
    <3>6. Careful(r)
      BY <3>1, <3>2, <3>3, <3>4, <3>5 DEF Careful, Rearranging
    <3> QED BY <1>0, <3>1, <3>6, SetFollows
  <2> QED BY <2>1, <2>2
<1> QED BY <1>1, <1>2

\* The delete of a location on its way: what it is about stays.
LEMMA VacatingCareful ==
    ASSUME NEW r, r.op = "delete location", Vacating(r), VacatingOrders(r), VacatingAssets(r)
    PROVE  Careful(r)
BY DEF Careful

LEMMA DeleteBeginsFollow ==
    ASSUME ProcurementInv, NEW c \in Clients, Careful(client[c]),
           DeleteLocation(c) \/ DeleteLockTree(c) \/ DeleteRefused(c)
    PROVE  Follows(c)
<1> DEFINE x == client[c]
<1>0. Shape /\ DOMAIN x = DOMAIN Idle
  BY InvOf
<1>1. CASE DeleteLocation(c)
  <2>1. PICK on, to, change, w : w = TreeLock(on) /\ client' = [client EXCEPT ![c] =
            [Idle EXCEPT !.op = "delete location", !.pc = "tree", !.on = on, !.to = to,
                         !.change = change, !.wants = w]]
    BY <1>1 DEF DeleteLocation, Begin
  <2> DEFINE r == [Idle EXCEPT !.op = "delete location", !.pc = "tree", !.on = on, !.to = to,
                         !.change = change, !.wants = w]
  <2>2. r.op = "delete location" /\ r.pc = "tree" /\ r.wants = w /\ r.staged = {}
    BY DEF Idle
  <2> HIDE DEF r
  <2>3. Vacating(r)
    BY <2>1, <2>2 DEF Vacating, AfterRow, TreeLock, RowsOf
  <2>4. VacatingOrders(r) /\ VacatingAssets(r)
    BY <2>2 DEF VacatingOrders, VacatingAssets, RowsOf
  <2> QED BY <1>0, <2>1, <2>2, <2>3, <2>4, VacatingCareful, SetFollows DEF r
<1>2. CASE DeleteLockTree(c)
  <2> DEFINE w == Row("location", x.on, "update")
             r == Onward(c, "row", w)
  <2>1. client' = [client EXCEPT ![c] = r] /\ x.op = "delete location" /\ x.pc = "tree"
    BY <1>2 DEF DeleteLockTree, Granted, Go
  <2>2. /\ Alike(r, x) /\ r.pc = "row" /\ r.wants = w /\ r.locks = x.locks \cup x.wants
        /\ r.staged = x.staged
    BY <1>0, OnwardAs
  <2> HIDE DEF r
  <2>3. r.op = "delete location" /\ r.on = x.on
    BY <2>1, <2>2 DEF Alike
  <2>4. x.wants = Tree /\ RowsOf(x, "asset") = {} /\ RowsOf(x, "location") = {}
    BY <2>1 DEF Careful, Vacating, VacatingAssets
  <2> HIDE DEF x
  <2>5. RowsOf(r, "asset") = {} /\ RowsOf(r, "location") = {}
    BY <2>2, <2>4, SameRows
  <2>6. Vacating(r)
    BY <2>2, <2>3, <2>4, <2>5 DEF Vacating, AfterRow
  <2>7. VacatingOrders(r) /\ VacatingAssets(r)
    BY <2>2, <2>5 DEF VacatingOrders, VacatingAssets
  <2> QED BY <1>0, <2>1, <2>3, <2>6, <2>7, VacatingCareful, SetFollows
<1>3. CASE DeleteRefused(c)
  BY <1>0, <1>3, EndFollows DEF DeleteRefused
<1> QED BY <1>1, <1>2, <1>3

\* From one kind of row to the next: what was found is staged.
LEMMA DeleteScansFollow ==
    ASSUME ProcurementInv, NEW c \in Clients, Careful(client[c]),
           DeleteLockRow(c) \/ DeleteScanPurchases(c) \/ DeleteScanAssets(c)
    PROVE  Follows(c)
<1> DEFINE x == client[c]
<1>0. Shape /\ DOMAIN x = DOMAIN Idle
  BY InvOf
<1>1. CASE DeleteLockRow(c)
  <2>1. CASE End(c)
    BY <1>0, <2>1, EndFollows
  <2>2. CASE ~ End(c)
    <3> DEFINE S == Children(x.on)
               r == Queued(Onward(c, "children", {}), "children", "location", "no key update", S)
    <3>1. /\ client' = [client EXCEPT ![c] = r] /\ x.op = "delete location" /\ x.pc = "row"
          /\ LocationLive(x.on)
      BY <1>1, <2>2 DEF DeleteLockRow, Granted
    <3>b. QueuedOn(r, x, "children", "location", "no key update", S)
      BY <1>0, QueuesAs
    <3>2. /\ Alike(r, x) /\ r.pc = "children" /\ r.ids = S
          /\ r.locks = x.locks \cup x.wants /\ r.staged = x.staged
      <4> HIDE DEF r
      <4> QED BY <3>b DEF QueuedOn
    <3> HIDE DEF r
    <3>3. r.op = "delete location" /\ r.on = x.on
      BY <3>1, <3>2 DEF Alike
    <3>4. /\ Tree \subseteq x.locks /\ x.wants = Row("location", x.on, "update")
          /\ RowsOf(x, "asset") = {} /\ RowsOf(x, "location") = {}
      BY <3>1 DEF Careful, Vacating, VacatingAssets
    <3>5. RowsOf(r, "asset") = {} /\ RowsOf(r, "location") = {}
      BY <3>2, <3>4, SameRows
    <3> HIDE DEF x
    <3>6. Vacating(r)
      BY <3>1, <3>2, <3>3, <3>4, <3>5 DEF Vacating, AfterRow
    <3>7. VacatingOrders(r) /\ VacatingAssets(r)
      BY <3>2, <3>5 DEF VacatingOrders, VacatingAssets
    <3> QED BY <1>0, <3>1, <3>3, <3>6, <3>7, VacatingCareful, SetFollows
  <2> QED BY <2>1, <2>2
<1>2. CASE DeleteScanPurchases(c)
  <2> DEFINE S == Opens(x.on)
             r == Queued(Onward(c, "purchases", {}), "purchases", "purchase", "update", S)
  <2>1. /\ client' = [client EXCEPT ![c] = r] /\ x.op = "delete location" /\ x.pc = "children"
        /\ x.ids = {}
    BY <1>2 DEF DeleteScanPurchases, Granted, Opens
  <2>b. QueuedOn(r, x, "purchases", "purchase", "update", S)
    BY <1>0, QueuesAs
  <2>2. /\ Alike(r, x) /\ r.pc = "purchases" /\ r.ids = S
        /\ r.locks = x.locks \cup x.wants /\ r.staged = x.staged
    <3> HIDE DEF r
    <3> QED BY <2>b DEF QueuedOn
  <2> HIDE DEF r
  <2>3. r.op = "delete location" /\ r.on = x.on
    BY <2>1, <2>2 DEF Alike
  <2>4. Vacating(x) /\ RowsOf(x, "asset") = {}
    BY <2>1 DEF Careful, VacatingAssets
  <2>5. \A table : RowsOf(r, table) = RowsOf(x, table)
    BY <2>2, SameRows
  <2>6. Vacating(r)
    BY <2>1, <2>2, <2>3, <2>4, <2>5 DEF Vacating, AfterRow
  <2> HIDE DEF x
  <2>7. VacatingOrders(r)
    BY <2>2, <2>3 DEF VacatingOrders
  <2>8. VacatingAssets(r)
    BY <2>2, <2>4, <2>5 DEF VacatingAssets
  <2> QED BY <1>0, <2>1, <2>3, <2>6, <2>7, <2>8, VacatingCareful, SetFollows
<1>3. CASE DeleteScanAssets(c)
  <2> DEFINE S == PlacedAt(x.on)
             r == Queued(Onward(c, "assets", {}), "assets", "asset", "update", S)
  <2>1. /\ client' = [client EXCEPT ![c] = r] /\ x.op = "delete location" /\ x.pc = "purchases"
        /\ x.ids = {}
    BY <1>3 DEF DeleteScanAssets, Granted
  <2>b. QueuedOn(r, x, "assets", "asset", "update", S)
    BY <1>0, QueuesAs
  <2>2. /\ Alike(r, x) /\ r.pc = "assets" /\ r.ids = S /\ r.wants = FirstRow("asset", "update", S)
        /\ r.locks = x.locks \cup x.wants /\ r.staged = x.staged
    <3> HIDE DEF r
    <3> QED BY <2>b DEF QueuedOn
  <2> HIDE DEF r
  <2>3. r.op = "delete location" /\ r.on = x.on
    BY <2>1, <2>2 DEF Alike
  <2>4. Vacating(x) /\ VacatingOrders(x) /\ RowsOf(x, "asset") = {}
    BY <2>1 DEF Careful, VacatingAssets
  <2>5. \A table : RowsOf(r, table) = RowsOf(x, table)
    BY <2>2, SameRows
  <2>6. Vacating(r)
    BY <2>1, <2>2, <2>3, <2>4, <2>5 DEF Vacating, AfterRow
  <2>7. VacatingOrders(r)
    BY <2>1, <2>2, <2>3, <2>4, <2>5 DEF VacatingOrders
  <2> HIDE DEF x
  <2>8. VacatingAssets(r)
    BY <2>2, <2>3, <2>4, <2>5 DEF VacatingAssets, AssetsLocked
  <2> QED BY <1>0, <2>1, <2>3, <2>6, <2>7, <2>8, VacatingCareful, SetFollows
<1> QED BY <1>1, <1>2, <1>3

LEMMA DeleteLocksFollow ==
    ASSUME ProcurementInv, NEW c \in Clients, Careful(client[c]),
           DeleteLockChild(c) \/ DeleteLockPurchase(c) \/ DeleteLockAsset(c)
    PROVE  Follows(c)
<1> DEFINE x == client[c]
<1>0. Shape /\ DOMAIN x = DOMAIN Idle
  BY InvOf
<1>1. CASE DeleteLockChild(c)
  <2> DEFINE S == Children(x.on)
  <2>1. x.op = "delete location" /\ x.pc = "children" /\ LockNext(c, "location", "no key update", S)
    BY <1>1 DEF DeleteLockChild, Granted
  <2>b. PICK id, r : client'[c] = r /\ NextLocked(r, x, id, "location", "no key update", S)
    BY <1>0, <2>1, LocksFirst
  <2>2. /\ client'[c] = r /\ Alike(r, x) /\ r.pc = x.pc /\ r.locks = x.locks \cup x.wants
        /\ r.ids = x.ids \ {id} /\ AddsRows(r, x, "location", {id} \cap S)
    BY <2>b DEF NextLocked
  <2>3. r.op = "delete location" /\ r.on = x.on /\ r.pc = "children"
    BY <2>1, <2>2 DEF Alike
  <2>4. RowsOf(r, "location") = RowsOf(x, "location") \cup ({id} \cap S) /\ RowsOf(r, "asset") = RowsOf(x, "asset")
    <3>1. /\ RowsOf(r, "location") = RowsOf(x, "location") \cup ({id} \cap S)
          /\ \A other : other # "location" => RowsOf(r, other) = RowsOf(x, other)
      <4> HIDE DEF x, S
      <4> QED BY <2>2, RowsAdded
    <3> QED BY <3>1
  <2>5. Vacating(x) /\ RowsOf(x, "asset") = {}
    BY <2>1 DEF Careful, VacatingAssets
  <2>6. S \subseteq RowsOf(r, "location") \cup r.ids /\ RowsOf(r, "location") \subseteq S
    BY <2>1, <2>2, <2>4, <2>5 DEF Vacating, AfterRow
  <2>7. Vacating(r)
    BY <2>1, <2>2, <2>3, <2>5, <2>6 DEF Vacating, AfterRow
  <2>8. VacatingOrders(r) /\ VacatingAssets(r)
    BY <2>3, <2>4, <2>5 DEF VacatingOrders, VacatingAssets
  <2> QED BY <2>2, <2>3, <2>7, <2>8, VacatingCareful DEF Follows
<1>2. CASE DeleteLockPurchase(c)
  <2> DEFINE S == DeliversTo(x.on)
  <2>1. x.op = "delete location" /\ x.pc = "purchases" /\ LockNext(c, "purchase", "update", S)
    BY <1>2 DEF DeleteLockPurchase, Granted
  <2>b. PICK id, r : client'[c] = r /\ NextLocked(r, x, id, "purchase", "update", S)
    BY <1>0, <2>1, LocksFirst
  <2>2. /\ client'[c] = r /\ Alike(r, x) /\ r.pc = x.pc /\ r.locks = x.locks \cup x.wants
        /\ r.ids = x.ids \ {id} /\ AddsRows(r, x, "purchase", {id} \cap S)
    BY <2>b DEF NextLocked
  <2>3. r.op = "delete location" /\ r.on = x.on /\ r.pc = "purchases"
    BY <2>1, <2>2 DEF Alike
  <2>4. /\ RowsOf(r, "purchase") = RowsOf(x, "purchase") \cup ({id} \cap S)
        /\ RowsOf(r, "asset") = RowsOf(x, "asset") /\ RowsOf(r, "location") = RowsOf(x, "location")
    <3>1. /\ RowsOf(r, "purchase") = RowsOf(x, "purchase") \cup ({id} \cap S)
          /\ \A other : other # "purchase" => RowsOf(r, other) = RowsOf(x, other)
      <4> HIDE DEF x, S
      <4> QED BY <2>2, RowsAdded
    <3> QED BY <3>1
  <2>5. Vacating(x) /\ VacatingOrders(x) /\ RowsOf(x, "asset") = {}
    BY <2>1 DEF Careful, VacatingAssets
  <2>6. Opens(x.on) \subseteq S
    BY DEF Opens
  <2>7. Vacating(r)
    BY <2>1, <2>2, <2>3, <2>4, <2>5 DEF Vacating, AfterRow
  <2>8. VacatingOrders(r)
    <3> SUFFICES ASSUME mix \cap Reopening = {}
                 PROVE  Opens(x.on) \subseteq RowsOf(r, "purchase") \cup r.ids
      BY <2>3 DEF VacatingOrders
    <3>1. Opens(x.on) \subseteq RowsOf(x, "purchase") \cup x.ids
      BY <2>1, <2>5 DEF VacatingOrders
    <3> QED BY <2>2, <2>4, <2>6, <3>1
  <2>9. VacatingAssets(r)
    BY <2>3, <2>4, <2>5 DEF VacatingAssets
  <2> QED BY <2>2, <2>3, <2>7, <2>8, <2>9, VacatingCareful DEF Follows
<1>3. CASE DeleteLockAsset(c)
  <2> DEFINE S == PlacedAt(x.on)
  <2>1. x.op = "delete location" /\ x.pc = "assets" /\ LockNext(c, "asset", "update", S)
    BY <1>3 DEF DeleteLockAsset, Granted
  <2>2. Vacating(x) /\ VacatingOrders(x) /\ VacatingAssets(x)
    BY <2>1 DEF Careful
  <2>3. /\ x.wants = FirstRow("asset", "update", x.ids) /\ AssetsLocked(x, RowsOf(x, "asset"))
        /\ "restore asset" \notin mix => S \subseteq RowsOf(x, "asset") \cup x.ids
    BY <2>1, <2>2 DEF VacatingAssets
  <2>b. PICK id, r : client'[c] = r /\ NextLocked(r, x, id, "asset", "update", S)
    BY <1>0, <2>1, LocksFirst
  <2>4. /\ client'[c] = r /\ Alike(r, x) /\ r.pc = x.pc /\ r.locks = x.locks \cup x.wants
        /\ r.ids = x.ids \ {id} /\ AddsRows(r, x, "asset", {id} \cap S)
        /\ r.wants = FirstRow("asset", "update", r.ids) /\ <<"asset", id, "update">> \in r.locks
    BY <2>3, <2>b DEF NextLocked
  <2>5. r.op = "delete location" /\ r.on = x.on /\ r.pc = "assets"
    BY <2>1, <2>4 DEF Alike
  <2>6. /\ RowsOf(r, "asset") = RowsOf(x, "asset") \cup ({id} \cap S)
        /\ RowsOf(r, "purchase") = RowsOf(x, "purchase") /\ RowsOf(r, "location") = RowsOf(x, "location")
    <3>1. /\ RowsOf(r, "asset") = RowsOf(x, "asset") \cup ({id} \cap S)
          /\ \A other : other # "asset" => RowsOf(r, other) = RowsOf(x, other)
      <4> HIDE DEF x, S
      <4> QED BY <2>4, RowsAdded
    <3> QED BY <3>1
  <2>7. Vacating(r)
    BY <2>1, <2>2, <2>4, <2>5, <2>6 DEF Vacating, AfterRow
  <2>8. VacatingOrders(r)
    BY <2>1, <2>2, <2>5, <2>6 DEF VacatingOrders
  <2>9. AssetsLocked(r, RowsOf(r, "asset"))
    <3> SUFFICES ASSUME NEW a \in RowsOf(r, "asset") PROVE Row("asset", a, "update") \subseteq r.locks
      BY DEF AssetsLocked
    <3>1. CASE a = id
      BY <2>3, <2>4, <3>1 DEF Row
    <3>2. CASE a # id
      BY <2>3, <2>4, <2>6, <3>2 DEF AssetsLocked
    <3> QED BY <3>1, <3>2
  <2>10. "restore asset" \notin mix => PlacedAt(r.on) \subseteq RowsOf(r, "asset") \cup r.ids
    BY <2>3, <2>4, <2>5, <2>6
  <2>11. VacatingAssets(r)
    BY <2>4, <2>5, <2>9, <2>10 DEF VacatingAssets
  <2> QED BY <2>4, <2>5, <2>7, <2>8, <2>11, VacatingCareful DEF Follows
<1> QED BY <1>1, <1>2, <1>3

LEMMA ModelDeletesFollow ==
    ASSUME ProcurementInv, NEW c \in Clients,
           \/ DeleteModel(c) \/ ModelLockRow(c) \/ ModelScanPurchases(c) \/ ModelLockPurchase(c)
           \/ ModelScanAssets(c) \/ ModelLockAsset(c) \/ ModelScanLines(c) \/ ModelLockLine(c)
           \/ ModelRefused(c)
    PROVE  Follows(c)
<1> DEFINE x == client[c]
<1>0. Shape /\ DOMAIN x = DOMAIN Idle
  BY InvOf
<1>1. CASE DeleteModel(c)
  <2>0. PICK m \in Models, k \in Models, change \in Resolutions :
          Begin(c, "delete model",
            Queued([Idle EXCEPT !.op = "delete model", !.on = m, !.to = k, !.change = change],
                   "models", "model", "update", {j \in {m, k} : models[j] = "live"}))
    BY <1>1 DEF DeleteModel
  <2>1. PICK S, w : client' = [client EXCEPT ![c] =
            [[Idle EXCEPT !.op = "delete model", !.on = m, !.to = k, !.change = change]
               EXCEPT !.pc = "models", !.ids = S, !.wants = w]]
    BY <2>0 DEF Begin, Queued
  <2> DEFINE r == [[Idle EXCEPT !.op = "delete model", !.on = m, !.to = k, !.change = change]
                     EXCEPT !.pc = "models", !.ids = S, !.wants = w]
  <2>2. r.op = "delete model"
    BY DEF Idle
  <2> HIDE DEF r
  <2> QED BY <1>0, <2>1, <2>2, SetUntroubled DEF r
<1>2. CASE ModelLockRow(c) \/ ModelLockPurchase(c) \/ ModelLockAsset(c) \/ ModelLockLine(c)
  <2>1. x.op = "delete model" /\ \E table, mode, S : LockNext(c, table, mode, S)
    BY <1>2 DEF ModelLockRow, ModelLockPurchase, ModelLockAsset, ModelLockLine, Granted
  <2>2. PICK r : client'[c] = r /\ Alike(r, x)
    BY <1>0, <2>1, LocksFirst DEF NextLocked
  <2>3. Careful(r)
    BY <2>1, <2>2, Untroubled DEF Alike
  <2> QED BY <2>2, <2>3 DEF Follows
<1>3. CASE ModelScanAssets(c) \/ ModelScanLines(c)
  <2>1. PICK pc, table, mode, S : client' = [client EXCEPT ![c] =
            Queued(Onward(c, pc, {}), pc, table, mode, S)]
    BY <1>3 DEF ModelScanAssets, ModelScanLines
  <2> DEFINE r == Queued(Onward(c, pc, {}), pc, table, mode, S)
  <2>b. QueuedOn(r, x, pc, table, mode, S)
    BY <1>0, QueuesAs
  <2>2. Alike(r, x) /\ x.op = "delete model"
    <3> HIDE DEF r
    <3> QED BY <1>3, <2>b DEF QueuedOn, ModelScanAssets, ModelScanLines, Granted
  <2> HIDE DEF r
  <2>3. r.op = "delete model"
    BY <2>2 DEF Alike
  <2> QED BY <1>0, <2>1, <2>3, SetUntroubled DEF r
<1>4. CASE ModelScanPurchases(c)
  <2>1. CASE End(c)
    BY <1>0, <2>1, EndFollows
  <2>2. CASE ~ End(c)
    <3>1. PICK seen, S : client' = [client EXCEPT ![c] =
              Queued([Onward(c, "purchases", {}) EXCEPT !.seen = seen, !.staged = {}],
                     "purchases", "purchase", "share", S)]
      BY <1>4, <2>2 DEF ModelScanPurchases
    <3> DEFINE y == Onward(c, "purchases", {})
               z == [y EXCEPT !.seen = seen, !.staged = {}]
               r == Queued(z, "purchases", "purchase", "share", S)
    <3>2. Alike(y, x) /\ x.op = "delete model"
      BY <1>0, <1>4, OnwardAs DEF ModelScanPurchases, Granted
    <3>3. DOMAIN y = DOMAIN Idle /\ y.op = "delete model"
      BY <3>2 DEF Alike
    <3>4. DOMAIN z = DOMAIN Idle /\ z.op = "delete model"
      <4> HIDE DEF y
      <4> QED BY <3>3 DEF Idle
    <3>5. Alike(r, z)
      <4> HIDE DEF z
      <4> QED BY <3>4, QueuedAs
    <3> HIDE DEF r
    <3>6. r.op = "delete model"
      BY <3>4, <3>5 DEF Alike
    <3> QED BY <1>0, <3>1, <3>6, SetUntroubled DEF r
  <2> QED BY <2>1, <2>2
<1>5. CASE ModelRefused(c)
  BY <1>0, <1>5, EndFollows DEF ModelRefused
<1> QED BY <1>1, <1>2, <1>3, <1>4, <1>5

LEMMA AssetFollows ==
    ASSUME ProcurementInv, NEW c \in Clients, Careful(client[c]),
           MoveAsset(c) \/ AssetLockLocation(c) \/ ChangeModel(c) \/ AssetCheck(c)
    PROVE  Follows(c)
<1> DEFINE x == client[c]
<1>0. Shape /\ DOMAIN x = DOMAIN Idle /\ Subject(x)
  BY InvOf
<1>1. CASE MoveAsset(c)
  <2>1. PICK a \in Known(assets, Assets), y \in Known(locations, Locations) :
          Begin(c, "move asset", [Idle EXCEPT !.op = "asset", !.pc = "location", !.on = a, !.to = y,
                                        !.change = "location", !.wants = AssetPlace(y)])
    BY <1>1 DEF MoveAsset
  <2> DEFINE w == Place(y)
             r == [Idle EXCEPT !.op = "asset", !.pc = "location", !.on = a, !.to = y,
                               !.change = "location", !.wants = w]
  <2>2. client' = [client EXCEPT ![c] = r] /\ a \in Assets
    BY <2>1 DEF Begin, AssetPlace, Known
  <2>3. /\ r.op = "asset" /\ r.pc = "location" /\ r.on = a /\ r.to = y /\ r.wants = w /\ r.seen = 0
        /\ r.change = "location"
    <3> HIDE DEF w
    <3> QED BY DEF Idle
  <2> HIDE DEF r
  <2>4. Relocating(r)
    BY <2>2, <2>3 DEF Relocating
  <2>5. Careful(r)
    BY <2>3, <2>4 DEF Careful
  <2> QED BY <1>0, <2>2, <2>5, SetFollows
<1>2. CASE ChangeModel(c)
  <2>1. PICK a, m, w : client' = [client EXCEPT ![c] =
            [Idle EXCEPT !.op = "asset", !.pc = "asset", !.on = a, !.to = m, !.change = "model",
                         !.wants = w]]
    BY <1>2 DEF ChangeModel, Begin
  <2> DEFINE r == [Idle EXCEPT !.op = "asset", !.pc = "asset", !.on = a, !.to = m, !.change = "model",
                               !.wants = w]
  <2>2. r.op = "asset" /\ r.change = "model"
    BY DEF Idle
  <2> HIDE DEF r
  <2> QED BY <1>0, <2>1, <2>2, Untroubled, SetFollows DEF r
<1>3. CASE AssetLockLocation(c)
  <2> DEFINE w == Row("asset", x.on, "update")
             y == Onward(c, "asset", w)
  <2>1. /\ x.op = "asset" /\ x.pc = "location"
        /\ \/ client' = [client EXCEPT ![c] = [y EXCEPT !.seen = 1]] /\ LocationLive(x.to)
           \/ client' = [client EXCEPT ![c] = [x EXCEPT !.pc = "asset", !.wants = w]]
    BY <1>3 DEF AssetLockLocation, Granted
  <2>2. PICK r : /\ client' = [client EXCEPT ![c] = r]
                 /\ r.op = "asset" /\ r.change = x.change /\ r.on = x.on /\ r.to = x.to
                 /\ r.pc = "asset" /\ r.wants = w
                 /\ \/ r.seen = 1 /\ r.locks = x.locks \cup x.wants /\ LocationLive(x.to)
                    \/ r.seen = x.seen /\ r.locks = x.locks
    <3>1. CASE client' = [client EXCEPT ![c] = [y EXCEPT !.seen = 1]] /\ LocationLive(x.to)
      <4> DEFINE r == [y EXCEPT !.seen = 1]
      <4>1. Alike(y, x) /\ y.pc = "asset" /\ y.wants = w /\ y.locks = x.locks \cup x.wants
        BY <1>0, OnwardAs
      <4>2. /\ DOMAIN y = DOMAIN Idle /\ y.op = "asset" /\ y.change = x.change /\ y.on = x.on
            /\ y.to = x.to
        BY <2>1, <4>1 DEF Alike
      <4>3. /\ r.op = y.op /\ r.change = y.change /\ r.on = y.on /\ r.to = y.to /\ r.pc = y.pc
            /\ r.wants = y.wants /\ r.seen = 1 /\ r.locks = y.locks
        <5> HIDE DEF y
        <5> QED BY <4>2 DEF Idle
      <4> HIDE DEF y, w
      <4> WITNESS r
      <4> HIDE DEF r
      <4> QED BY <3>1, <4>1, <4>2, <4>3 DEF r
    <3>2. CASE client' = [client EXCEPT ![c] = [x EXCEPT !.pc = "asset", !.wants = w]]
      <4> DEFINE r == [x EXCEPT !.pc = "asset", !.wants = w]
      <4>1. /\ r.op = x.op /\ r.change = x.change /\ r.on = x.on /\ r.to = x.to /\ r.pc = "asset"
            /\ r.wants = w /\ r.seen = x.seen /\ r.locks = x.locks
        <5> HIDE DEF x, w
        <5> QED BY <1>0 DEF Idle
      <4> HIDE DEF w
      <4> WITNESS r
      <4> HIDE DEF r
      <4> QED BY <2>1, <3>2, <4>1 DEF r
    <3> QED BY <2>1, <3>1, <3>2
  <2>3. x.change = "location" => Relocating(x)
    BY <2>1 DEF Careful
  <2>4. x.change = "location" => Relocating(r)
    BY <2>1, <2>2, <2>3 DEF Relocating
  <2> HIDE DEF x
  <2>5. Careful(r)
    BY <2>2, <2>4 DEF Careful
  <2> QED BY <1>0, <2>2, <2>5, SetFollows
<1>4. CASE AssetCheck(c)
  <2>1. CASE End(c)
    BY <1>0, <2>1, EndFollows
  <2>2. CASE ~ End(c)
    <3>1. PICK w : /\ client' = [client EXCEPT ![c] = Onward(c, "write", w)]
                   /\ x.op = "asset" /\ x.pc = "asset" /\ assets[x.on].state = "live"
                   /\ x.change = "location" => x.to = assets[x.on].location \/ x.seen = 1
      BY <1>4, <2>2 DEF AssetCheck, Granted, Go
    <3> DEFINE r == Onward(c, "write", w)
    <3>2. Alike(r, x) /\ r.pc = "write" /\ r.locks = x.locks \cup x.wants /\ r.seen = x.seen
      BY <1>0, OnwardAs
    <3> HIDE DEF r
    <3>3. r.op = "asset" /\ r.change = x.change /\ r.on = x.on /\ r.to = x.to
      BY <3>1, <3>2 DEF Alike
    <3>4. x.change = "location" => Relocating(x)
      BY <3>1 DEF Careful
    <3>5. x.change = "location" => Relocating(r)
      BY <3>1, <3>2, <3>3, <3>4 DEF Relocating
    <3> HIDE DEF x
    <3>6. Careful(r)
      BY <3>3, <3>5 DEF Careful
    <3> QED BY <1>0, <3>1, <3>6, SetFollows DEF r
  <2> QED BY <2>1, <2>2
<1> QED BY <1>1, <1>2, <1>3, <1>4
-----------------------------------------------------------------------------
\* A request that stays as it was is careful where each of its parts is.
LEMMA CarefulAgain ==
    ASSUME NEW d \in Clients, NEW y, y = client'[d], Careful(y), mix' = mix,
           y.op = "reparent" => Rearranging(client[d])',
           y.op = "delete location" =>
             Vacating(client[d])' /\ VacatingOrders(client[d])' /\ VacatingAssets(client[d])',
           y.op = "asset" /\ y.change = "location" => Relocating(client[d])',
           y.op = "from assets" => Gathering(client[d])',
           y.op = "units" => Unpacking(client[d])',
           y.op = "cancel" /\ y.pc = "write" => Remaining(client[d])',
           y.op \in {"link", "unlink", "from assets"} => Collecting(client[d])',
           y.op = "update line" /\ y.change = "map line" /\ y.pc = "write" => Remapping(client[d])'
    PROVE  Careful(client[d])'
<1>1. y.op = "update purchase" /\ y.change = "deliver" => Redirecting(client[d])'
  BY DEF Careful, Redirecting
<1>2. y.op = "link" => Attaching(client[d])'
  BY DEF Careful, Attaching
<1>3. /\ y.op = "create purchase" => y.wants = Place(y.to)
      /\ y.op \in {"add line", "remove line", "unlink"} => y.op \in mix'
      /\ y.op = "move" /\ y.pc = "insert" => Row("line", y.line, "key share") \subseteq y.wants
  BY DEF Careful
<1>4. /\ (client[d].op = "reparent" => Rearranging(client[d]))'
      /\ (client[d].op = "delete location" =>
            Vacating(client[d]) /\ VacatingOrders(client[d]) /\ VacatingAssets(client[d]))'
      /\ (client[d].op = "asset" /\ client[d].change = "location" => Relocating(client[d]))'
      /\ (client[d].op = "update purchase" /\ client[d].change = "deliver" => Redirecting(client[d]))'
  BY <1>1
<1>5. /\ (client[d].op = "from assets" => Gathering(client[d]))'
      /\ (client[d].op = "units" => Unpacking(client[d]))'
      /\ (client[d].op = "cancel" /\ client[d].pc = "write" => Remaining(client[d]))'
      /\ (client[d].op \in {"link", "unlink", "from assets"} => Collecting(client[d]))'
      /\ (client[d].op = "link" => Attaching(client[d]))'
  BY <1>2
<1>6. /\ (client[d].op = "update line" /\ client[d].change = "map line" /\ client[d].pc = "write" =>
            Remapping(client[d]))'
      /\ (client[d].op = "create purchase" => client[d].wants = Place(client[d].to))'
      /\ (client[d].op \in {"add line", "remove line", "unlink"} => client[d].op \in mix)'
      /\ (client[d].op = "move" /\ client[d].pc = "insert" =>
            Row("line", client[d].line, "key share") \subseteq client[d].wants)'
  BY <1>3 DEF Place, Row
<1> QED BY <1>4, <1>5, <1>6 DEF Careful

\* Tables that do not change keep a request careful.
LEMMA SameCareful ==
    ASSUME UNCHANGED <<tables, mix>>, NEW d \in Clients, NEW y, y = client'[d], Careful(y)
    PROVE  Careful(client[d])'
<1>1. /\ movements' = movements /\ purchases' = purchases /\ lines' = lines /\ assets' = assets
      /\ locations' = locations /\ mix' = mix
  BY DEF tables, stockTables
<1>2. \A x : /\ LocationLive(x)' <=> LocationLive(x)
             /\ Usable(x)' <=> Usable(x)
             /\ Children(x)' = Children(x)
  BY <1>1 DEF LocationLive, Usable, Children, Parent
<1>3. \A x : PlacedAt(x)' = PlacedAt(x)
  BY <1>1 DEF PlacedAt, LiveAssets
<1>4. \A l : Received(l)' = Received(l)
  BY <1>1 DEF Received, Quantity, LiveAssets
<1>5. \A x : Opens(x)' = Opens(x)
  <2>1. \A p : OpenPurchase(p)' <=> OpenPurchase(p)
    BY <1>1, <1>4 DEF OpenPurchase, LinesOf, Countable, Pending
  <2> QED BY <1>1, <2>1 DEF Opens, DeliversTo
<1>6. \A x, z : Above(z, x)' <=> Above(z, x)
  <2>1. \A T, x, z : Avoids(T, z, x)' <=> Avoids(T, z, x)
    BY <1>1 DEF Avoids, WalkedUp, LocationLive, Parent
  <2> QED BY <1>2, <2>1 DEF Above
<1>7. y.op = "reparent" => Rearranging(client[d])'
  BY <1>2, <1>6 DEF Careful, Rearranging
<1>8. y.op = "delete location" => Vacating(client[d])'
  BY <1>2 DEF Careful, Vacating, RowsOf
<1>9. y.op = "delete location" => VacatingOrders(client[d])'
  BY <1>1, <1>5 DEF Careful, VacatingOrders, RowsOf
<1>10. y.op = "delete location" => VacatingAssets(client[d])'
  BY <1>1, <1>3 DEF Careful, VacatingAssets, RowsOf, AssetsLocked
<1>11. y.op = "asset" /\ y.change = "location" => Relocating(client[d])'
  BY <1>1, <1>2 DEF Careful, Relocating
<1>12. /\ y.op = "from assets" => Gathering(client[d])'
       /\ y.op = "units" => Unpacking(client[d])'
  BY <1>2 DEF Careful, Gathering, Unpacking
<1>13. y.op = "cancel" /\ y.pc = "write" => Remaining(client[d])'
  BY <1>1, <1>4 DEF Careful, Remaining
<1>14. y.op \in {"link", "unlink", "from assets"} => Collecting(client[d])'
  BY <1>1 DEF Careful, Collecting, AssetsLocked
<1>15. y.op = "update line" /\ y.change = "map line" /\ y.pc = "write" => Remapping(client[d])'
  BY <1>1 DEF Careful, Remapping
<1> QED BY <1>1, <1>7, <1>8, <1>9, <1>10, <1>11, <1>12, <1>13, <1>14, <1>15, CarefulAgain

\* A step that writes nothing.
LEMMA QuietSafe ==
    ASSUME SafetyInv, NEW c \in Clients, Kept(c), Follows(c), UNCHANGED <<tables, mix>>
    PROVE  SafetyInv'
<1>1. \A d \in Clients \ {c} : client'[d] = client[d]
  BY DEF Kept, Advances
<1>2. ASSUME NEW d \in Clients
      PROVE  Careful(client[d])'
  <2>1. \E y : y = client'[d] /\ Careful(y)
    BY <1>1 DEF Follows, SafetyInv
  <2> QED BY <2>1, SameCareful
<1>3. TreeSound'
  BY DEF SafetyInv, TreeSound, Forest, tables
<1> QED BY <1>2, <1>3 DEF SafetyInv
-----------------------------------------------------------------------------
(***************************************************************************)
(* Steps that write.  What a write may do to the rows of the others, unless   *)
(* nobody else may hold them (Gentle), and what that leaves a request with     *)
(* locks of its own (Spares).                                                   *)
(***************************************************************************)
\* The only new locations are roots.
RootsAdded == \A x \in Locations :
    \/ locations'[x] = locations[x]
    \/ locations[x].state = "none" /\ locations'[x].parent = None

PlacesKept(c) ==
    /\ \A x \in Locations : LocationLive(x) =>
         LocationLive(x)' \/ Owns(c, Row("location", x, "update"))
    /\ Owns(c, Tree) \/ RootsAdded

AssetsKept(c) == \A a \in Assets : assets[a].state # "none" =>
    /\ assets'[a].state # "none"
    /\ \/ assets'[a].location = assets[a].location /\ assets'[a].line = assets[a].line
       \/ Owns(c, Row("asset", a, "update"))

\* Nobody else is deleting the location.
Welcomed(c, x) == x = None \/ Owns(c, Place(x)) \/ Owns(c, Tree)

ArrivalsKept(c) == "restore asset" \notin mix =>
    \A a \in Assets : assets'[a].state = "live" =>
      \/ assets[a].state = "live" /\ assets'[a].location = assets[a].location
      \/ Welcomed(c, assets'[a].location)

OrderedKept(c) == \A l \in Lines : lines[l].state # "none" =>
    \/ /\ lines'[l].quantity = lines[l].quantity /\ lines'[l].cancelled = lines[l].cancelled
       /\ lines'[l].kind = lines[l].kind
    \/ Owns(c, LineRow(l))

ReceiptsKept(c) == "restore asset" \notin mix =>
    \A l \in Lines : lines[l].state # "none" =>
      \/ Received(l)' <= Received(l)
      \/ Owns(c, Row("line", l, "key share")) \/ Owns(c, LineRow(l))

\* Nothing of the purchase is still to come that was not before.
Fills(p) == \A l \in Lines :
    /\ l \in LinesOf(p)' <=> l \in LinesOf(p)
    /\ l \in LinesOf(p) =>
         /\ lines'[l].kind = lines[l].kind /\ lines'[l].quantity = lines[l].quantity
         /\ lines[l].cancelled <= lines'[l].cancelled /\ Received(l) <= Received(l)'

OrdersKept(c) == mix \cap Reopening = {} =>
    \A p \in Purchases : purchases'[p].state = "live" =>
      \/ Welcomed(c, purchases'[p].location)
      \/ /\ purchases[p].state = "live" /\ purchases'[p].location = purchases[p].location
         /\ Fills(p)

Gentle(c) ==
    /\ mix' = mix
    /\ PlacesKept(c) /\ AssetsKept(c) /\ ArrivalsKept(c)
    /\ OrderedKept(c) /\ ReceiptsKept(c) /\ OrdersKept(c)

\* The request is deleting the location.
Sole(y, x) == Tree \subseteq y.locks /\ Row("location", x, "update") \subseteq y.locks

SparesPlaces(y) ==
    /\ \A x \in Locations : LocationLive(x) /\ Place(x) \subseteq y.locks => LocationLive(x)'
    /\ Tree \subseteq y.locks => RootsAdded

SparesArrivals(y) == \A x \in Locations : Sole(y, x) =>
    /\ "restore asset" \notin mix => PlacedAt(x)' \subseteq PlacedAt(x)
    /\ mix \cap Reopening = {} => Opens(x)' \subseteq Opens(x)

SparesAssets(y) == \A a \in Assets :
    assets[a].state # "none" /\ Row("asset", a, "update") \subseteq y.locks =>
      /\ assets'[a].state # "none" /\ assets'[a].location = assets[a].location
      /\ assets'[a].line = assets[a].line

SparesLines(y) == \A l \in Lines :
    lines[l].state # "none" /\ LineRow(l) \subseteq y.locks =>
      /\ lines'[l].quantity = lines[l].quantity /\ lines'[l].cancelled = lines[l].cancelled
      /\ lines'[l].kind = lines[l].kind
      /\ "restore asset" \notin mix => Received(l)' <= Received(l)

Spares(y) == mix' = mix /\ SparesPlaces(y) /\ SparesArrivals(y) /\ SparesAssets(y) /\ SparesLines(y)

LEMMA ReceivedType == ProcurementInv => \A l \in Lines : Received(l) \in Nat
BY ReceivedNat, SoundTables

LEMMA FillsOpen ==
    ASSUME ProcurementInv, ProcurementInv', NEW p, Fills(p), OpenPurchase(p)'
    PROVE  OpenPurchase(p)
<1>1. /\ \A l \in Lines : Received(l) \in Nat /\ lines[l] \in LineRecord
      /\ LinesOf(p) \subseteq Lines
  BY ReceivedType, TypesOf DEF LinesOf
<1>2. (\A l \in Lines : Received(l) \in Nat)' /\ LinesOf(p)' \subseteq Lines
  <2>1. (\A l \in Lines : Received(l) \in Nat)'
    BY ReceivedType, PTL
  <2> QED BY <2>1 DEF LinesOf
<1>3. TypeOK'
  BY DEF ProcurementInv, TablesSound
<1>4. \A l \in Lines : lines'[l] \in LineRecord
  BY <1>3 DEF TypeOK
<1>5. \A l \in LinesOf(p) : Countable(l)' <=> Countable(l)
  BY <1>1 DEF Fills, Countable
<1>6. LinesOf(p)' = LinesOf(p)
  BY <1>1, <1>2 DEF Fills
<1>7. ASSUME NEW l \in LinesOf(p), Countable(l), Pending(l)' > 0
      PROVE  Pending(l) > 0
  <2> DEFINE q == lines[l].quantity
             k == lines[l].cancelled
             m == lines'[l].cancelled
             r == Received(l)
             s == Received(l)'
  <2>1. l \in Lines /\ q \in Int /\ k \in Int /\ m \in Int /\ r \in Int /\ s \in Int
    BY <1>1, <1>2, <1>4, <1>7, CeilingNat DEF LineRecord
  <2>2. lines'[l].quantity = q /\ k <= m /\ r <= s /\ Countable(l)'
    BY <1>5, <1>7, <2>1 DEF Fills
  <2>3. q - m - s > 0
    BY <1>7, <2>2 DEF Pending
  <2>4. q - k - r > 0
    <3> HIDE DEF q, k, m, r, s
    <3> QED BY <2>1, <2>2, <2>3
  <2> QED BY <1>7, <2>4 DEF Pending
<1> QED BY <1>5, <1>6, <1>7 DEF OpenPurchase

LEMMA GentleSpares ==
    ASSUME ProcurementInv, ProcurementInv', NEW c \in Clients, Gentle(c), NEW d \in Clients \ {c}
    PROVE  Spares(client[d])
<1> DEFINE y == client[d]
<1>1. /\ LocksExclude /\ Conflicting("update", "update") /\ Conflicting("update", "share")
      /\ Conflicting("share", "update") /\ Conflicting("key share", "update")
  BY SoundTables DEF Conflicting
<1>2. \A x \in Locations : x # None
  BY ProcurementAssumption
<1>3. /\ \A a \in Assets : Row("asset", a, "update") \subseteq y.locks => ~ Owns(c, Row("asset", a, "update"))
      /\ \A x \in Locations : Place(x) \subseteq y.locks => ~ Owns(c, Row("location", x, "update"))
  <2>1. \A a \in Assets : a # None
    BY ProcurementAssumption
  <2>2. ASSUME NEW a \in Assets, Row("asset", a, "update") \subseteq y.locks
        PROVE  ~ Owns(c, Row("asset", a, "update"))
    <3>1. a # None /\ Conflicting("update", "update")
      BY <1>1, <2>1
    <3> QED BY <1>1, <2>2, <3>1, Owned
  <2>3. ASSUME NEW x \in Locations, Place(x) \subseteq y.locks
        PROVE  ~ Owns(c, Row("location", x, "update"))
    BY <1>1, <1>2, <2>3, Owned DEF Place
  <2> QED BY <2>2, <2>3
<1>4. \A l \in Lines : LineRow(l) \subseteq y.locks =>
        ~ Owns(c, LineRow(l)) /\ ~ Owns(c, Row("line", l, "key share"))
  <2>1. \A l \in Lines : l # None
    BY ProcurementAssumption
  <2> QED BY <1>1, <2>1, Owned DEF LineRow
<1>5. Tree \subseteq y.locks => ~ Owns(c, Tree)
  BY <1>1, OwnedTree
<1>6. \A x \in Locations : Sole(y, x) => ~ Welcomed(c, x)
  <2>1. \A x \in Locations : Row("location", x, "update") \subseteq y.locks => ~ Owns(c, Place(x))
    BY <1>1, <1>2, Owned DEF Place
  <2> QED BY <1>2, <1>5, <2>1 DEF Sole, Welcomed
<1>7. SparesPlaces(y)
  BY <1>3, <1>5 DEF SparesPlaces, Gentle, PlacesKept
<1>8. SparesAssets(y)
  BY <1>3 DEF SparesAssets, Gentle, AssetsKept
<1>9. SparesLines(y)
  BY <1>4 DEF SparesLines, Gentle, OrderedKept, ReceiptsKept
<1>10. SparesArrivals(y)
  <2> SUFFICES ASSUME NEW x \in Locations, Sole(y, x)
               PROVE  /\ "restore asset" \notin mix => PlacedAt(x)' \subseteq PlacedAt(x)
                      /\ mix \cap Reopening = {} => Opens(x)' \subseteq Opens(x)
    BY DEF SparesArrivals
  <2>1. ~ Welcomed(c, x)
    BY <1>6
  <2>2. "restore asset" \notin mix => PlacedAt(x)' \subseteq PlacedAt(x)
    BY <2>1 DEF PlacedAt, LiveAssets, Gentle, ArrivalsKept
  <2>3. ASSUME mix \cap Reopening = {}, NEW p \in Opens(x)'
        PROVE  p \in Opens(x)
    <3>1. /\ p \in Purchases /\ purchases'[p].state = "live" /\ purchases'[p].location = x
          /\ OpenPurchase(p)'
      BY <2>3 DEF Opens, DeliversTo
    <3>2. /\ purchases[p].state = "live" /\ purchases[p].location = x /\ Fills(p)
      BY <2>1, <2>3, <3>1 DEF Gentle, OrdersKept
    <3> QED BY <3>1, <3>2, FillsOpen DEF Opens, DeliversTo
  <2> QED BY <2>2, <2>3
<1> QED BY <1>7, <1>8, <1>9, <1>10 DEF Spares, Gentle

\* A walk up over live locations stays one where only roots are added.
LEMMA AvoidsStill ==
    ASSUME ProcurementInv, RootsAdded, NEW x, NEW z \in Locations \cup {None}, Above(z, x)
    PROVE  Above(z, x)'
<1> SUFFICES ASSUME z # None PROVE (z # x /\ LocationLive(z) /\ \E T : Avoids(T, z, x))'
  BY DEF Above
<1>1. PICK T : Avoids(T, z, x)
  BY DEF Above
<1>2. z # x /\ z \in Locations /\ LocationLive(z)
  BY DEF Above
<1>3. \A y \in T \cup {z} : locations'[y] = locations[y]
  BY <1>1, <1>2 DEF Avoids, RootsAdded, LocationLive
<1>4. Avoids(T, z, x)'
  BY <1>1, <1>3 DEF Avoids, WalkedUp, Parent, LocationLive
<1> QED BY <1>2, <1>3, <1>4 DEF LocationLive

LEMMA StillFits ==
    ASSUME NEW q \in Int, NEW k \in Int, NEW r \in Int, NEW s \in Int, r + k <= q, s <= r
    PROVE  s + k <= q
OBVIOUS

LEMMA SparedCareful ==
    ASSUME ProcurementInv, ProcurementInv', NEW d \in Clients, NEW y, y = client[d], y = client'[d],
           Careful(y), Spares(y)
    PROVE  Careful(client[d])'
<1>1. Subject(y) /\ Standing(y) /\ mix' = mix
  BY InvOf DEF Spares
<1>2. /\ \A x \in Locations : x # None
      /\ \A l \in Lines : Received(l) \in Nat /\ lines[l] \in LineRecord
  BY ProcurementAssumption, ReceivedType, TypesOf
<1>3. \A l \in Lines : Received(l)' \in Nat
  <2>1. (\A l \in Lines : Received(l) \in Nat)'
    BY ReceivedType, PTL
  <2> QED BY <2>1
<1>4. Tree \subseteq y.locks =>
        /\ RootsAdded
        /\ \A x \in Locations : LocationLive(x) => LocationLive(x)'
        /\ \A x \in Locations : Children(x)' = Children(x)
  <2> SUFFICES ASSUME RootsAdded
               PROVE  /\ \A x \in Locations : LocationLive(x) => LocationLive(x)'
                      /\ \A x \in Locations : Children(x)' = Children(x)
    BY DEF Spares, SparesPlaces
  <2>1. \A x \in Locations : LocationLive(x) => LocationLive(x)'
    BY DEF RootsAdded, LocationLive
  <2>2. \A x \in Locations : Children(x)' = Children(x)
    BY <1>2 DEF RootsAdded, LocationLive, Children, Parent
  <2> QED BY <2>1, <2>2
<1>5. y.op = "reparent" => Rearranging(client[d])'
  <2> SUFFICES ASSUME y.op = "reparent" PROVE Rearranging(client[d])'
    OBVIOUS
  <2>1. Rearranging(y) /\ y.on \in Locations /\ y.to \in Locations \cup {None}
    BY <1>1 DEF Careful, Subject
  <2>2. y.pc = "write" => Tree \subseteq y.locks /\ LocationLive(y.on)' /\ Above(y.to, y.on)'
    BY <1>4, <2>1, AvoidsStill DEF Rearranging
  <2>3. y.pc = "write" => LocationLive(client[d].on)' /\ Above(client[d].to, client[d].on)'
    BY <2>2 DEF LocationLive, Above, Avoids, WalkedUp, Parent
  <2> QED BY <2>1, <2>2, <2>3 DEF Rearranging
<1>6. y.op = "delete location" => Vacating(client[d])'
  <2> SUFFICES ASSUME y.op = "delete location" PROVE Vacating(client[d])'
    OBVIOUS
  <2>1. Vacating(y) /\ y.on \in Locations
    BY <1>1 DEF Careful, Subject
  <2>2. y.pc \in AfterRow => LocationLive(y.on)' /\ Children(y.on)' = Children(y.on)
    BY <1>4, <2>1 DEF Vacating, AfterRow
  <2>3. y.pc \in AfterRow => LocationLive(client[d].on)' /\ Children(client[d].on)' = Children(y.on)
    BY <2>2 DEF LocationLive, Children, Parent
  <2> QED BY <2>1, <2>3 DEF Vacating, RowsOf, AfterRow
<1>7. y.op = "delete location" => VacatingOrders(client[d])' /\ VacatingAssets(client[d])'
  <2> SUFFICES ASSUME y.op = "delete location"
               PROVE  VacatingOrders(client[d])' /\ VacatingAssets(client[d])'
    OBVIOUS
  <2>1. Vacating(y) /\ VacatingOrders(y) /\ VacatingAssets(y) /\ y.on \in Locations
    BY <1>1 DEF Careful, Subject
  <2>2. y.pc \in AfterRow =>
          /\ "restore asset" \notin mix => PlacedAt(y.on)' \subseteq PlacedAt(y.on)
          /\ mix \cap Reopening = {} => Opens(y.on)' \subseteq Opens(y.on)
    BY <2>1 DEF Spares, SparesArrivals, Sole, Vacating, AfterRow
  <2>3. PlacedAt(client[d].on)' = PlacedAt(y.on)' /\ Opens(client[d].on)' = Opens(y.on)'
    BY DEF PlacedAt, Opens, DeliversTo
  <2>4. VacatingOrders(client[d])'
    BY <1>1, <2>1, <2>2, <2>3 DEF VacatingOrders, RowsOf, AfterRow
  <2>5. VacatingAssets(client[d])'
    BY <1>1, <2>1, <2>2, <2>3 DEF VacatingAssets, RowsOf, AfterRow, AssetsLocked
  <2> QED BY <2>4, <2>5
<1>8. y.op = "asset" /\ y.change = "location" => Relocating(client[d])'
  <2> SUFFICES ASSUME y.op = "asset", y.change = "location" PROVE Relocating(client[d])'
    OBVIOUS
  <2>1. Relocating(y) /\ y.to \in Locations
    BY <1>1 DEF Careful, Subject
  <2>2. y.seen = 1 => LocationLive(y.to)'
    BY <2>1 DEF Relocating, Spares, SparesPlaces
  <2>3. y.pc = "write" =>
          assets'[y.on].state # "none" /\ (y.seen = 1 \/ assets'[y.on].location = y.to)
    BY <2>1 DEF Relocating, Spares, SparesAssets
  <2> QED BY <2>1, <2>2, <2>3 DEF Relocating, LocationLive
<1>9. \A x \in Locations \cup {None} : Usable(x) /\ Place(x) \subseteq y.locks => Usable(x)'
  BY DEF Usable, Spares, SparesPlaces
<1>10. /\ y.op = "from assets" => Gathering(client[d])'
       /\ y.op = "units" => Unpacking(client[d])'
  <2>1. y.op \in {"from assets", "units"} => y.to \in Locations \cup {None}
    BY <1>1 DEF Subject
  <2>2. Usable(client[d].to)' <=> Usable(y.to)'
    BY DEF Usable, LocationLive
  <2> QED BY <1>9, <2>1, <2>2 DEF Careful, Gathering, Unpacking
<1>11. y.op = "cancel" /\ y.pc = "write" => Remaining(client[d])'
  <2> SUFFICES ASSUME y.op = "cancel", y.pc = "write" PROVE Remaining(client[d])'
    OBVIOUS
  <2>1. Remaining(y) /\ Cancelling(y) /\ y.line \in Lines
    BY <1>1 DEF Careful, Standing, Subject, OnLines
  <2>2. LineRow(y.line) \subseteq y.locks /\ lines[y.line].state # "none"
        /\ y.seen \in 0 .. lines[y.line].quantity
    BY <2>1 DEF Cancelling
  <2>3. /\ lines'[y.line].quantity = lines[y.line].quantity
        /\ lines'[y.line].cancelled = lines[y.line].cancelled
        /\ "restore asset" \notin mix => Received(y.line)' <= Received(y.line)
    BY <2>1, <2>2 DEF Spares, SparesLines
  <2> DEFINE q == lines[y.line].quantity
             k == y.seen
             r == Received(y.line)
             s == Received(y.line)'
  <2>4. q \in Int /\ k \in Int /\ r \in Int /\ s \in Int
    BY <1>2, <1>3, <2>1, <2>2, CeilingNat DEF LineRecord
  <2>5. "restore asset" \notin mix => s + k <= q
    <3>1. "restore asset" \notin mix => r + k <= q /\ s <= r
      BY <2>1, <2>3 DEF Remaining
    <3> HIDE DEF q, k, r, s
    <3> QED BY <2>4, <3>1, StillFits
  <2>6. Received(client[d].line)' = s
    BY DEF Received
  <2> HIDE DEF s
  <2> QED BY <1>1, <2>1, <2>3, <2>5, <2>6 DEF Remaining
<1>12. y.op \in {"link", "unlink", "from assets"} => Collecting(client[d])'
  <2> SUFFICES ASSUME y.op \in {"link", "unlink", "from assets"} PROVE Collecting(client[d])'
    OBVIOUS
  <2>1. Collecting(y)
    BY DEF Careful
  <2>2. y.pc \in {"model", "line", "events", "event"} =>
          \A a \in y.staged : assets'[a].state # "none" /\ assets'[a].line = assets[a].line
    BY <2>1 DEF Collecting, AssetsLocked, Spares, SparesAssets
  <2> QED BY <2>1, <2>2 DEF Collecting, AssetsLocked
<1>13. y.op = "update line" /\ y.change = "map line" /\ y.pc = "write" => Remapping(client[d])'
  <2> SUFFICES ASSUME y.op = "update line", y.change = "map line", y.pc = "write"
               PROVE  Remapping(client[d])'
    OBVIOUS
  <2>1. Remapping(y) /\ LineRow(y.line) \subseteq y.locks /\ lines[y.line].state # "none"
        /\ y.line \in Lines
    BY <1>1 DEF Careful, Standing, Updating, Subject, OnLines
  <2> QED BY <2>1 DEF Remapping, Spares, SparesLines
<1> QED BY <1>1, <1>5, <1>6, <1>7, <1>8, <1>10, <1>11, <1>12, <1>13, CarefulAgain

\* What a request becomes once it has written: nothing, or it goes on to the
\* next unit.
Settled(y) ==
    \/ y.op = "none"
    \/ y.op = "units" /\ y.pc \in {"location", "event"} /\ (y.pc = "location" => y.wants = Place(y.to))

LEMMA SettledCareful ==
    ASSUME NEW d \in Clients, Settled(client'[d])
    PROVE  Careful(client[d])'
<1>1. PICK y : y = client'[d]
  OBVIOUS
<1>2. \/ y.op = "none"
      \/ y.op = "units" /\ y.pc \in {"location", "event"} /\ (y.pc = "location" => y.wants = Place(y.to))
  BY <1>1 DEF Settled
<1>3. Careful(client[d])'
  BY <1>1, <1>2 DEF Careful, Unpacking, Place
<1> QED BY <1>3

LEMMA GentleSafe ==
    ASSUME ProcurementInv, ProcurementInv', SafetyInv, NEW c \in Clients, Gentle(c),
           \A d \in Clients \ {c} : client'[d] = client[d], Settled(client'[c]), TreeSound'
    PROVE  SafetyInv'
<1>1. ASSUME NEW d \in Clients \ {c} PROVE Careful(client[d])'
  BY <1>1, GentleSpares, SparedCareful DEF SafetyInv
<1>2. Careful(client[c])'
  BY SettledCareful
<1> QED BY <1>1, <1>2 DEF SafetyInv
-----------------------------------------------------------------------------
(***************************************************************************)
(* What every step comes to.                                                *)
(***************************************************************************)
StrandsNothing ==
    /\ \A x \in Locations : LocationLive(x) /\ locations'[x].state # "live" =>
         /\ "restore asset" \notin mix => PlacedAt(x)' = {}
         /\ mix \cap Reopening = {} => \A p \in DeliversTo(x)' : ~ OpenPurchase(p)'
    /\ \A a \in Assets : LET x == assets'[a].location IN
         x \notin {assets[a].location, None} => locations'[x].state = "live"
    /\ \A p \in Purchases : LET x == purchases'[p].location IN
         x \notin {purchases[p].location, None} => locations'[x].state = "live"

CancelsNothingHere(x) ==
    x.op = "cancel" /\ x.pc = "write" /\ lines' # lines /\ "restore asset" \notin mix =>
      Received(x.line) + lines'[x.line].cancelled <= lines[x.line].quantity

CancelsNothing == \A c \in Clients : CancelsNothingHere(client[c])

Safely == SafetyInv' /\ StrandsNothing /\ CancelsNothing

\* The step is c's, and its request has written.
Here(c) ==
    /\ mix' = mix /\ Settled(client'[c]) /\ \A d \in Clients \ {c} : client'[d] = client[d]

LEMMA CarefulOf ==
    ASSUME SafetyInv, NEW c \in Clients PROVE Careful(client[c]) /\ TreeSound
BY DEF SafetyInv

LEMMA EndsHere ==
    ASSUME ProcurementInv, NEW c \in Clients, End(c), mix' = mix
    PROVE  Here(c)
<1>1. client'[c] = Idle /\ \A d \in Clients \ {c} : client'[d] = client[d]
  BY InvOf, EndedAs DEF Advances
<1>2. client'[c].op = "none"
  BY <1>1 DEF Idle
<1> QED BY <1>1, <1>2 DEF Here, Settled

LEMMA SinglesHere ==
    ASSUME ProcurementInv, NEW c \in Clients, NEW kind, NEW wants, Single(c, kind, wants)
    PROVE  Here(c) /\ kind \in mix /\ client[c].op = "none" /\ Free(wants)
<1>1. client' = client /\ mix' = mix /\ client[c].pc = "idle" /\ kind \in mix /\ Free(wants)
  BY DEF Single, Allowed
<1>2. client[c].op = "none"
  BY <1>1, InvOf DEF Subject
<1> QED BY <1>1, <1>2 DEF Here, Settled

\* Where more may be cancelled, what has been cancelled fits.
LEMMA CancelledFits ==
    ASSUME ProcurementInv, NEW l \in Lines, NEW k, k \in 0 .. lines[l].quantity,
           lines[l].cancelled <= k, Received(l) + k <= lines[l].quantity
    PROVE  Received(l) + lines[l].cancelled <= lines[l].quantity
<1>1. lines[l].quantity \in 1 .. Ceiling /\ lines[l].cancelled \in 0 .. Ceiling /\ Received(l) \in Nat
  BY TypesOf, ReceivedType DEF LineRecord
<1> DEFINE q == lines[l].quantity
           m == lines[l].cancelled
           r == Received(l)
<1>2. q \in Int /\ m \in Int /\ r \in Int /\ k \in 0 .. q /\ m <= k /\ r + k <= q
  BY <1>1, CeilingNat
<1> HIDE DEF q, m, r
<1>3. r + m <= q
  BY <1>2
<1> QED BY <1>3 DEF q, m, r

\* What is cancelled while another request writes had been cancelled before.
LEMMA CancelsAlone ==
    ASSUME ProcurementInv, ProcurementInv', SafetyInv, NEW c \in Clients, Gentle(c),
           \/ client[c].op # "cancel" \/ lines' = lines
           \/ lines'[client[c].line].cancelled = client[c].seen
    PROVE  CancelsNothing
<1> SUFFICES ASSUME NEW d \in Clients, client[d].op = "cancel", client[d].pc = "write",
                    lines' # lines, "restore asset" \notin mix
             PROVE  Received(client[d].line) + lines'[client[d].line].cancelled
                      <= lines[client[d].line].quantity
  BY DEF CancelsNothing, CancelsNothingHere
<1> DEFINE l == client[d].line
           q == lines[l].quantity
           k == client[d].seen
           m == lines'[l].cancelled
           r == Received(l)
<1>1. Cancelling(client[d]) /\ l \in Lines /\ Remaining(client[d])
  BY InvOf, CarefulOf DEF Standing, Subject, OnLines, Careful
<1>2. r + k <= q /\ lines[l].cancelled <= k /\ k \in 0 .. q
  BY <1>1 DEF Cancelling, Remaining
<1>3. CASE d = c
  <2>1. m = k
    BY <1>3
  <2> QED BY <1>2, <2>1
<1>4. CASE d # c
  <2>1. m = lines[l].cancelled
    <3>1. Spares(client[d])
      BY <1>4, GentleSpares
    <3> QED BY <1>1, <3>1 DEF Spares, SparesLines, Cancelling
  <2>2. r + lines[l].cancelled <= q
    <3> HIDE DEF l
    <3> QED BY <1>1, <1>2, CancelledFits
  <2> QED BY <2>1, <2>2
<1> QED BY <1>3, <1>4

LEMMA WritesSafely ==
    ASSUME ProcurementInv, ProcurementInv', SafetyInv, NEW c \in Clients, Here(c), Gentle(c),
           TreeSound', StrandsNothing,
           \/ client[c].op # "cancel" \/ lines' = lines
           \/ lines'[client[c].line].cancelled = client[c].seen
    PROVE  Safely
<1>1. SafetyInv'
  BY GentleSafe DEF Here
<1> QED BY <1>1, CancelsAlone DEF Safely

LEMMA QuietSafely ==
    ASSUME SafetyInv, NEW c \in Clients, Kept(c), Follows(c), UNCHANGED <<tables, mix>>
    PROVE  Safely
<1>1. SafetyInv'
  BY QuietSafe
<1>2. purchases' = purchases /\ lines' = lines /\ assets' = assets /\ locations' = locations
  BY DEF tables
<1>3. StrandsNothing
  BY <1>2 DEF StrandsNothing, LocationLive
<1>4. CancelsNothing
  BY <1>2 DEF CancelsNothing, CancelsNothingHere
<1> QED BY <1>1, <1>3, <1>4 DEF Safely
-----------------------------------------------------------------------------
(***************************************************************************)
(* What is as it was.                                                       *)
(***************************************************************************)
\* What is newly placed is placed somewhere live.
Arrives(S, old, new) == \A i \in S :
    new[i].location \in {old[i].location, None} \/ LocationLive(new[i].location)

\* A write that leaves the locations alone.
LEMMA PlacesAlone ==
    ASSUME SafetyInv, NEW c \in Clients, locations' = locations,
           Arrives(Assets, assets, assets'), Arrives(Purchases, purchases, purchases')
    PROVE  TreeSound' /\ PlacesKept(c) /\ StrandsNothing
<1>1. TreeSound'
  BY DEF SafetyInv, TreeSound, Forest
<1>2. PlacesKept(c)
  BY DEF PlacesKept, RootsAdded, LocationLive
<1>3. StrandsNothing
  BY DEF StrandsNothing, LocationLive, Arrives
<1> QED BY <1>1, <1>2, <1>3

LEMMA SameArrives == ASSUME NEW S, NEW table PROVE Arrives(S, table, table)
BY DEF Arrives

LEMMA AssetsAlone ==
    ASSUME NEW c \in Clients,
           \A a \in Assets : /\ assets'[a].state = assets[a].state
                             /\ assets'[a].location = assets[a].location
                             /\ assets'[a].line = assets[a].line
    PROVE  AssetsKept(c) /\ ArrivalsKept(c) /\ Arrives(Assets, assets, assets')
BY DEF AssetsKept, ArrivalsKept, Arrives

OnLine(l) == {a \in LiveAssets(Assets) : assets[a].line = l}

LEMMA ReceivedSame ==
    ASSUME movements' = movements, NEW l \in Lines, lines'[l].kind = lines[l].kind,
           lines'[l].applied = lines[l].applied, OnLine(l)' = OnLine(l)
    PROVE  Received(l)' = Received(l)
<1>1. Quantity' = Quantity
  BY DEF Quantity
<1>2. {a \in LiveAssets(Assets) : assets[a].line = l}' = {a \in LiveAssets(Assets) : assets[a].line = l}
  BY DEF OnLine
<1> QED BY <1>1, <1>2 DEF Received

\* More assets on a line are more units received.
LEMMA ReceivedMore ==
    ASSUME ProcurementInv, movements' = movements, lines' = lines, NEW l \in Lines
    PROVE  /\ OnLine(l) \subseteq OnLine(l)' => Received(l) <= Received(l)'
           /\ OnLine(l)' \subseteq OnLine(l) => Received(l)' <= Received(l)
<1> DEFINE S == OnLine(l)
           T == OnLine(l)'
<1>1. Received(l) \in Nat
  BY ReceivedType
<1>2. CASE lines[l].kind \in {"CONSUMABLE", "LICENSE"}
  <2>1. Received(l)' = Received(l)
    BY <1>2 DEF Received, Quantity
  <2> QED BY <1>1, <2>1
<1>3. CASE lines[l].kind \notin {"CONSUMABLE", "LICENSE"}
  <2>1. Received(l) = Cardinality(S) /\ Received(l)' = Cardinality(T)
    BY <1>3 DEF Received, OnLine
  <2>2. S \subseteq Assets /\ T \subseteq Assets
    BY DEF OnLine, LiveAssets
  <2>3. IsFiniteSet(S) /\ IsFiniteSet(T)
    BY <2>2, FS_Subset, ProcurementAssumption
  <2> HIDE DEF S, T
  <2>4. /\ S \subseteq T => Cardinality(S) <= Cardinality(T)
        /\ T \subseteq S => Cardinality(T) <= Cardinality(S)
    BY <2>3, FS_Subset
  <2>5. /\ S \subseteq T => Received(l) <= Received(l)'
        /\ T \subseteq S => Received(l)' <= Received(l)
    BY <2>1, <2>4
  <2> QED BY <2>5 DEF S, T
<1> QED BY <1>2, <1>3

LEMMA ReceiptsAlone ==
    ASSUME ProcurementInv, NEW c \in Clients,
           \A l \in Lines : lines[l].state # "none" => Received(l)' = Received(l)
    PROVE  ReceiptsKept(c)
<1> SUFFICES ASSUME NEW l \in Lines, lines[l].state # "none" PROVE Received(l)' <= Received(l)
  BY DEF ReceiptsKept
<1>1. Received(l)' = Received(l) /\ Received(l) \in Nat
  BY ReceivedType
<1> QED BY <1>1

LEMMA LinesAlone == ASSUME NEW c \in Clients, lines' = lines PROVE OrderedKept(c)
BY DEF OrderedKept

\* Nothing but the receipts of a purchase grows.
LEMMA FillsMore ==
    ASSUME ProcurementInv, lines' = lines, NEW p,
           \A l \in Lines : lines[l].state # "none" => Received(l) <= Received(l)'
    PROVE  Fills(p)
<1>1. LinesOf(p)' = LinesOf(p) /\ \A l \in LinesOf(p) : l \in Lines /\ lines[l].state # "none"
  BY DEF LinesOf
<1>2. \A l \in Lines : lines[l].cancelled <= lines[l].cancelled
  BY TypesOf, CeilingNat DEF LineRecord
<1> QED BY <1>1, <1>2 DEF Fills

LEMMA OrdersMore ==
    ASSUME ProcurementInv, NEW c \in Clients, purchases' = purchases, lines' = lines,
           \A l \in Lines : lines[l].state # "none" => Received(l) <= Received(l)'
    PROVE  OrdersKept(c)
BY FillsMore DEF OrdersKept

\* The receipts are what they were.
LEMMA ReceivedStay ==
    ASSUME ProcurementInv, movements' = movements, lines' = lines,
           \A a \in Assets : assets'[a].state = assets[a].state /\ assets'[a].line = assets[a].line
    PROVE  \A l \in Lines : Received(l)' = Received(l) /\ Received(l) <= Received(l)'
<1>1. \A l : OnLine(l)' = OnLine(l)
  BY DEF OnLine, LiveAssets
<1>2. \A l \in Lines : Received(l)' = Received(l)
  BY <1>1, ReceivedSame
<1>3. \A l \in Lines : Received(l) \in Nat
  BY ReceivedType
<1> QED BY <1>2, <1>3

\* A write that touches nothing of what the others rely on.
LEMMA NothingTouched ==
    ASSUME ProcurementInv, ProcurementInv', SafetyInv, NEW c \in Clients, Here(c),
           movements' = movements, purchases' = purchases, lines' = lines, locations' = locations,
           \A a \in Assets : /\ assets'[a].state = assets[a].state
                             /\ assets'[a].location = assets[a].location
                             /\ assets'[a].line = assets[a].line
    PROVE  Safely
<1>1. AssetsKept(c) /\ ArrivalsKept(c) /\ Arrives(Assets, assets, assets')
  BY AssetsAlone
<1>2. TreeSound' /\ PlacesKept(c) /\ StrandsNothing
  BY <1>1, SameArrives, PlacesAlone
<1>3. ReceiptsKept(c) /\ OrdersKept(c) /\ OrderedKept(c)
  BY ReceivedStay, ReceiptsAlone, OrdersMore, LinesAlone
<1>4. Gentle(c)
  BY <1>1, <1>2, <1>3 DEF Gentle, Here
<1> QED BY <1>2, <1>4, WritesSafely
-----------------------------------------------------------------------------
(***************************************************************************)
(* Stock.                                                                   *)
(***************************************************************************)
LEMMA ItemsSafely ==
    ASSUME ProcurementInv, ProcurementInv', SafetyInv, NEW c \in Clients,
           ArchiveItem(c) \/ RestoreItem(c) \/ RestoreModel(c)
    PROVE  Safely
<1>1. \E kind, wants : Single(c, kind, wants)
  BY DEF ArchiveItem, RestoreItem, RestoreModel
<1>2. /\ movements' = movements /\ purchases' = purchases /\ lines' = lines
      /\ assets' = assets /\ locations' = locations
  BY DEF ArchiveItem, RestoreItem, RestoreModel, stockOthers, stockTables
<1> QED BY <1>1, <1>2, SinglesHere, NothingTouched

LEMMA ReceivedGrows ==
    ASSUME ProcurementInv, NEW row \in MovementRecord, movements' = Append(movements, row),
           lines' = lines, assets' = assets, NEW l \in Lines
    PROVE  Received(l) <= Received(l)' /\ (row.line # l => Received(l)' = Received(l))
<1>0. Received(l) \in Nat
  BY ReceivedType
<1>1. CASE lines[l].kind # "CONSUMABLE"
  <2>1. Received(l)' = Received(l)
    BY <1>1 DEF Received, LiveAssets
  <2> QED BY <1>0, <2>1
<1>2. CASE lines[l].kind = "CONSUMABLE"
  <2> DEFINE N == Len(movements)
             S == {m \in DOMAIN movements : movements[m].line = l /\ movements[m].type = "IN"}
             T == {m \in DOMAIN movements' : movements'[m].line = l /\ movements'[m].type = "IN"}
             f == [m \in DOMAIN movements |-> movements[m].n]
             g == [m \in DOMAIN movements' |-> movements'[m].n]
             e == N + 1
  <2>1. Received(l) = Sum(S, f) /\ Received(l)' = Sum(T, g)
    BY <1>2 DEF Received, Quantity
  <2>2. /\ N \in Nat /\ DOMAIN movements = 1 .. N
        /\ DOMAIN movements' = DOMAIN movements \cup {e} /\ e \notin DOMAIN movements
        /\ \A m \in DOMAIN movements : movements'[m] = movements[m]
        /\ movements'[e] = row
    BY MovementAppended
  <2>3. Bounded(S, f) /\ Agree(S, f, g)
    BY <2>2, TypesOf DEF MovementRecord, Bounded, Agree
  <2>4. IsFiniteSet(S) /\ e \notin S
    <3>1. IsFiniteSet(1 .. N)
      BY <2>2, FS_Interval
    <3> QED BY <2>2, <3>1, FS_Subset
  <2>5. g[e] = row.n /\ g[e] \in Nat
    BY <2>2, CeilingNat DEF MovementRecord
  <2>6. CASE row.line = l /\ row.type = "IN"
    <3>1. T = S \cup {e}
      BY <2>2, <2>6
    <3>2. Sum(S \cup {e}, g) = Sum(S, f) + g[e]
      <4>1. IsFiniteSet(S) /\ e \notin S /\ Bounded(S, f) /\ Agree(S, f, g) /\ g[e] \in Nat
        BY <2>3, <2>4, <2>5
      <4> HIDE DEF S, T, f, g, e
      <4> QED BY <4>1, SumMore
    <3> HIDE DEF S, T, f, g, e
    <3> QED BY <1>0, <2>1, <2>5, <2>6, <3>1, <3>2
  <2>7. CASE ~ (row.line = l /\ row.type = "IN")
    <3>1. T = S
      BY <2>2, <2>7
    <3> HIDE DEF S, T, f, g, e
    <3>2. Sum(S, f) = Sum(S, g)
      BY <2>3, SumSame
    <3> QED BY <1>0, <2>1, <3>1, <3>2
  <2> QED BY <2>6, <2>7
<1> QED BY <1>1, <1>2

LEMMA RecordSafely ==
    ASSUME ProcurementInv, ProcurementInv', SafetyInv, NEW c \in Clients, RecordMovement(c)
    PROVE  Safely
<1> DEFINE row == MovementRow(client[c])
           l == client[c].line
<1>1. /\ client[c].op = "move" /\ client[c].pc = "insert" /\ ~ Waits(c) /\ End(c) /\ mix' = mix
      /\ movements' = Append(movements, row)
      /\ purchases' = purchases /\ lines' = lines /\ assets' = assets /\ locations' = locations
  BY DEF RecordMovement, Granted, bounds, stockOthers
<1>2. row \in MovementRecord /\ row.line = l
  BY <1>1, InvOf DEF Subject, MovementRow, MovementRecord
<1>3. Owns(c, Row("line", l, "key share"))
  BY <1>1, CarefulOf, OwnsGranted DEF Careful
<1> HIDE DEF row, l
<1>4. /\ \A k \in Lines : Received(k) <= Received(k)'
      /\ \A k \in Lines : k # l => Received(k)' = Received(k)
  BY <1>1, <1>2, ReceivedGrows
<1>5. ReceiptsKept(c)
  <2>1. \A k \in Lines : Received(k) \in Nat
    BY ReceivedType
  <2> QED BY <1>3, <1>4, <2>1 DEF ReceiptsKept
<1>6. OrdersKept(c) /\ OrderedKept(c) /\ Here(c)
  BY <1>1, <1>4, OrdersMore, LinesAlone, EndsHere
<1>7. AssetsKept(c) /\ ArrivalsKept(c)
  BY <1>1, AssetsAlone
<1>8. TreeSound' /\ PlacesKept(c) /\ StrandsNothing
  BY <1>1, SameArrives, PlacesAlone
<1>9. Gentle(c)
  BY <1>1, <1>5, <1>6, <1>7, <1>8 DEF Gentle
<1> QED BY <1>1, <1>6, <1>8, <1>9, WritesSafely
-----------------------------------------------------------------------------
(***************************************************************************)
(* Purchases and their lines.                                               *)
(***************************************************************************)
LEMMA HeaderSafely ==
    ASSUME ProcurementInv, ProcurementInv', SafetyInv, NEW c \in Clients, Here(c),
           movements' = movements, lines' = lines, assets' = assets, locations' = locations,
           mix \cap Reopening = {} => \A p \in Purchases : purchases'[p].state = "live" =>
             \/ Welcomed(c, purchases'[p].location)
             \/ purchases[p].state = "live" /\ purchases'[p].location = purchases[p].location,
           Arrives(Purchases, purchases, purchases')
    PROVE  Safely
<1>1. AssetsKept(c) /\ ArrivalsKept(c) /\ Arrives(Assets, assets, assets')
  BY AssetsAlone
<1>2. TreeSound' /\ PlacesKept(c) /\ StrandsNothing
  BY <1>1, PlacesAlone
<1>3. \A l \in Lines : Received(l)' = Received(l) /\ Received(l) <= Received(l)'
  BY ReceivedStay
<1>4. ReceiptsKept(c) /\ OrderedKept(c)
  BY <1>3, ReceiptsAlone, LinesAlone
<1>5. OrdersKept(c)
  BY <1>3, FillsMore DEF OrdersKept
<1>6. Gentle(c)
  BY <1>1, <1>2, <1>4, <1>5 DEF Gentle, Here
<1> QED BY <1>2, <1>6, WritesSafely

LEMMA UpdateSafely ==
    ASSUME ProcurementInv, ProcurementInv', SafetyInv, NEW c \in Clients, UpdateWrite(c)
    PROVE  Safely
<1> DEFINE p == client[c].on
           y == client[c].to
<1>1. /\ client[c].op = "update purchase" /\ client[c].pc = "write" /\ ~ Waits(c) /\ End(c)
      /\ mix' = mix /\ movements' = movements /\ lines' = lines /\ assets' = assets
      /\ locations' = locations
      /\ purchases' = CASE client[c].change = "clear" -> [purchases EXCEPT ![p].named = FALSE]
                        [] client[c].change = "deliver" /\ LocationLive(y) ->
                             [purchases EXCEPT ![p].location = y]
                        [] OTHER -> purchases
  BY DEF UpdateWrite, Granted, purchaseOthers, bounds, stockTables
<1>2. Here(c) /\ p \in Purchases /\ client[c].change \in {"clear", "deliver"}
  BY <1>1, EndsHere, InvOf DEF Subject
<1>3. client[c].change = "deliver" => Owns(c, Place(y))
  BY <1>1, CarefulOf, OwnsGranted DEF Careful, Redirecting
<1>4. purchases \in [Purchases -> PurchaseRecord]
  BY SoundTables DEF TypeOK
<1> HIDE DEF p, y
<1>5. CASE \A q \in Purchases : /\ purchases'[q].state = purchases[q].state
                                /\ purchases'[q].location = purchases[q].location
  BY <1>1, <1>2, <1>5, HeaderSafely DEF Arrives
<1>6. CASE purchases' = [purchases EXCEPT ![p].location = y] /\ LocationLive(y)
           /\ client[c].change = "deliver"
  <2>1. \A q \in Purchases \ {p} : purchases'[q] = purchases[q]
    BY <1>4, <1>6
  <2>2. purchases'[p].location = y
    BY <1>2, <1>4, <1>6 DEF PurchaseRecord
  <2>3. Welcomed(c, purchases'[p].location)
    BY <1>3, <1>6, <2>2 DEF Welcomed
  <2>4. Arrives(Purchases, purchases, purchases')
    BY <1>6, <2>1, <2>2 DEF Arrives
  <2> QED BY <1>1, <1>2, <2>1, <2>3, <2>4, HeaderSafely
<1>7. CASE client[c].change = "clear"
  BY <1>1, <1>2, <1>4, <1>5, <1>7 DEF PurchaseRecord
<1>8. CASE client[c].change = "deliver"
  BY <1>1, <1>5, <1>6, <1>8
<1> QED BY <1>2, <1>7, <1>8

LEMMA HeadersSafely ==
    ASSUME ProcurementInv, ProcurementInv', SafetyInv, NEW c \in Clients,
           UpdateWrite(c) \/ RemoveWrite(c) \/ RestorePurchase(c)
    PROVE  Safely
<1>1. purchases \in [Purchases -> PurchaseRecord]
  BY SoundTables DEF TypeOK
<1>2. CASE RemoveWrite(c)
  <2> DEFINE p == client[c].on
  <2>1. /\ purchases' = [purchases EXCEPT ![p].state = "deleted"] /\ End(c) /\ mix' = mix
        /\ movements' = movements /\ lines' = lines /\ assets' = assets /\ locations' = locations
    BY <1>2 DEF RemoveWrite, purchaseOthers, bounds, stockTables
  <2> HIDE DEF p
  <2>2. \A q \in Purchases : /\ purchases'[q].location = purchases[q].location
                             /\ purchases'[q].state \in {purchases[q].state, "deleted"}
    BY <1>1, <2>1 DEF PurchaseRecord
  <2>3. Arrives(Purchases, purchases, purchases')
    BY <2>2 DEF Arrives
  <2> QED BY <2>1, <2>2, <2>3, EndsHere, HeaderSafely
<1>3. CASE RestorePurchase(c)
  <2>1. PICK p \in Purchases :
          /\ Single(c, "restore purchase", Row("purchase", p, "no key update"))
          /\ purchases' = [purchases EXCEPT ![p].state = "live"]
          /\ movements' = movements /\ lines' = lines /\ assets' = assets /\ locations' = locations
    BY <1>3 DEF RestorePurchase, purchaseOthers, stockTables
  <2>2. Here(c) /\ mix \cap Reopening # {}
    BY <2>1, SinglesHere DEF Reopening
  <2>3. Arrives(Purchases, purchases, purchases')
    BY <1>1, <2>1 DEF Arrives, PurchaseRecord
  <2> QED BY <2>1, <2>2, <2>3, HeaderSafely
<1> QED BY <1>2, <1>3, UpdateSafely

\* What the insert of a purchase with its first line needs.
LEMMA InsertSafely ==
    ASSUME ProcurementInv, ProcurementInv', SafetyInv, NEW c \in Clients, Here(c),
           client[c].op # "cancel", locations' = locations, movements' = movements,
           NEW p \in Purchases, purchases[p].state = "none", NEW to,
           purchases'[p].location = to, Usable(to), Welcomed(c, to),
           \A q \in Purchases \ {p} : purchases'[q] = purchases[q],
           \A l \in Lines : \/ lines'[l] = lines[l]
                            \/ lines[l].state = "none" /\ lines'[l].purchase = p,
           AssetsKept(c), ArrivalsKept(c), Arrives(Assets, assets, assets'),
           \A l \in Lines : lines[l].state # "none" => OnLine(l)' = OnLine(l)
    PROVE  Safely
<1>1. Arrives(Purchases, purchases, purchases')
  BY DEF Arrives, Usable
<1>2. TreeSound' /\ PlacesKept(c) /\ StrandsNothing
  BY <1>1, PlacesAlone
<1>3. \A l \in Lines : lines[l].state # "none" => Received(l)' = Received(l) /\ lines'[l] = lines[l]
  BY ReceivedSame
<1>4. ReceiptsKept(c) /\ OrderedKept(c)
  BY <1>3, ReceiptsAlone DEF OrderedKept
<1>5. ASSUME NEW q \in Purchases \ {p} PROVE Fills(q)
  <2>1. \A l \in Lines : l \in LinesOf(q)' <=> l \in LinesOf(q)
    BY <1>3 DEF LinesOf
  <2>2. \A l \in LinesOf(q) : l \in Lines /\ lines[l].state # "none"
    BY DEF LinesOf
  <2>3. \A l \in Lines : Received(l) \in Nat /\ lines[l].cancelled <= lines[l].cancelled
    BY ReceivedType, TypesOf, CeilingNat DEF LineRecord
  <2> QED BY <1>3, <2>1, <2>2, <2>3 DEF Fills
<1>6. OrdersKept(c)
  BY <1>5 DEF OrdersKept
<1>7. Gentle(c)
  BY <1>2, <1>4, <1>6 DEF Gentle, Here
<1> QED BY <1>2, <1>7, WritesSafely

LEMMA CreateSafely ==
    ASSUME ProcurementInv, ProcurementInv', SafetyInv, NEW c \in Clients, CreateInsert(c)
    PROVE  Safely
<1> DEFINE to == client[c].to
<1>1. /\ client[c].op = "create purchase" /\ ~ Waits(c) /\ End(c) /\ mix' = mix
      /\ movements' = movements /\ assets' = assets /\ locations' = locations
      /\ to # None => LocationLive(to)
  BY DEF CreateInsert, Granted, purchaseOthers, bounds, stockTables
<1>2. Here(c) /\ Usable(to)
  BY <1>1, EndsHere DEF Usable
<1>3. Owns(c, Place(to))
  BY <1>1, CarefulOf, OwnsGranted DEF Careful
<1>4. PICK p \in Unused(purchases, Purchases), named \in BOOLEAN :
        /\ purchases' = [purchases EXCEPT ![p] =
             [state |-> "live", named |-> named, location |-> to]]
        /\ IF named THEN UNCHANGED lines
           ELSE \E l \in Unused(lines, Lines) :
                  lines' = [lines EXCEPT ![l] = NewLine(p, "ASSET", None, None, 1)]
  BY DEF CreateInsert
<1> HIDE DEF to
<1>5. p \in Purchases /\ purchases[p].state = "none" /\ purchases \in [Purchases -> PurchaseRecord]
      /\ lines \in [Lines -> LineRecord]
  BY <1>4, SoundTables DEF Unused, TypeOK
<1>6. /\ \A q \in Purchases \ {p} : purchases'[q] = purchases[q]
      /\ purchases'[p].location = to
  BY <1>4, <1>5
<1>7. \A l \in Lines : \/ lines'[l] = lines[l]
                       \/ lines[l].state = "none" /\ lines'[l].purchase = p
  BY <1>4, <1>5 DEF NewLine, Unused
<1>8. AssetsKept(c) /\ ArrivalsKept(c) /\ Arrives(Assets, assets, assets')
  BY <1>1, AssetsAlone
<1>9. \A l \in Lines : OnLine(l)' = OnLine(l)
  BY <1>1 DEF OnLine, LiveAssets
<1> QED BY <1>1, <1>2, <1>3, <1>5, <1>6, <1>7, <1>8, <1>9, InsertSafely DEF Welcomed

\* What the write of one line needs.
LEMMA LineSafely ==
    ASSUME ProcurementInv, ProcurementInv', SafetyInv, NEW c \in Clients, Here(c),
           movements' = movements, purchases' = purchases, assets' = assets, locations' = locations,
           NEW l \in Lines, \A k \in Lines \ {l} : lines'[k] = lines[k],
           \/ Owns(c, LineRow(l))
           \/ lines[l].state = "none"
           \/ /\ lines'[l].quantity = lines[l].quantity /\ lines'[l].cancelled = lines[l].cancelled
              /\ lines'[l].kind = lines[l].kind /\ lines'[l].applied = lines[l].applied,
           OrdersKept(c),
           client[c].op # "cancel" \/ lines'[client[c].line].cancelled = client[c].seen
    PROVE  Safely
<1>1. AssetsKept(c) /\ ArrivalsKept(c) /\ Arrives(Assets, assets, assets')
  BY AssetsAlone
<1>2. TreeSound' /\ PlacesKept(c) /\ StrandsNothing
  BY <1>1, SameArrives, PlacesAlone
<1>3. OrderedKept(c)
  BY DEF OrderedKept
<1>4. ReceiptsKept(c)
  <2> SUFFICES ASSUME NEW k \in Lines, lines[k].state # "none", ~ Owns(c, LineRow(k))
               PROVE  Received(k)' <= Received(k)
    BY DEF ReceiptsKept
  <2>1. OnLine(k)' = OnLine(k)
    BY DEF OnLine, LiveAssets
  <2>2. lines'[k].kind = lines[k].kind /\ lines'[k].applied = lines[k].applied
    OBVIOUS
  <2>3. Received(k)' = Received(k) /\ Received(k) \in Nat
    BY <2>1, <2>2, ReceivedSame, ReceivedType
  <2> QED BY <2>3
<1>5. Gentle(c)
  BY <1>1, <1>2, <1>3, <1>4 DEF Gentle, Here
<1> QED BY <1>2, <1>5, WritesSafely

\* A line of which only more is cancelled or received.
LEMMA FillsLine ==
    ASSUME ProcurementInv, NEW c \in Clients, movements' = movements, purchases' = purchases,
           assets' = assets, NEW l \in Lines, \A k \in Lines \ {l} : lines'[k] = lines[k],
           lines'[l].state = lines[l].state, lines'[l].purchase = lines[l].purchase,
           lines'[l].kind = lines[l].kind, lines'[l].quantity = lines[l].quantity,
           lines[l].cancelled <= lines'[l].cancelled, Received(l) <= Received(l)'
    PROVE  OrdersKept(c)
<1>1. ASSUME NEW k \in Lines
      PROVE  /\ lines'[k].state = lines[k].state /\ lines'[k].purchase = lines[k].purchase
             /\ lines'[k].kind = lines[k].kind /\ lines'[k].quantity = lines[k].quantity
             /\ lines[k].cancelled <= lines'[k].cancelled /\ Received(k) <= Received(k)'
  <2>1. CASE k = l
    BY <2>1
  <2>2. CASE k # l
    <3>1. OnLine(k)' = OnLine(k) /\ lines'[k] = lines[k]
      BY <2>2 DEF OnLine, LiveAssets
    <3>2. Received(k)' = Received(k)
      BY <3>1, ReceivedSame
    <3>3. Received(k) \in Nat /\ lines[k].cancelled \in 0 .. Ceiling
      BY ReceivedType, TypesOf DEF LineRecord
    <3> QED BY <3>1, <3>2, <3>3, CeilingNat
  <2> QED BY <2>1, <2>2
<1>2. \A p : Fills(p)
  <2> TAKE p
  <2>1. \A k \in Lines : k \in LinesOf(p)' <=> k \in LinesOf(p)
    BY <1>1 DEF LinesOf
  <2> QED BY <1>1, <2>1 DEF Fills
<1> QED BY <1>2 DEF OrdersKept

LEMMA AddLineSafely ==
    ASSUME ProcurementInv, ProcurementInv', SafetyInv, NEW c \in Clients, AddLineInsert(c)
    PROVE  Safely
<1>1. /\ client[c].op = "add line" /\ End(c) /\ mix' = mix /\ movements' = movements
      /\ purchases' = purchases /\ assets' = assets /\ locations' = locations
  BY DEF AddLineInsert, Granted, purchaseOthers, bounds, stockTables
<1>2. PICK l \in Unused(lines, Lines) :
        lines' = [lines EXCEPT ![l] = NewLine(client[c].on, "ASSET", None, None, 1)]
  BY DEF AddLineInsert
<1>3. /\ l \in Lines /\ lines[l].state = "none" /\ lines \in [Lines -> LineRecord]
      /\ \A k \in Lines \ {l} : lines'[k] = lines[k]
  BY <1>2, SoundTables DEF Unused, TypeOK
<1>4. OrdersKept(c)
  BY <1>1, CarefulOf DEF Careful, Reopening, OrdersKept
<1> QED BY <1>1, <1>3, <1>4, EndsHere, LineSafely

\* A write of a line that leaves what was received of it alone.
LEMMA ReceivedStill ==
    ASSUME ProcurementInv, movements' = movements, assets' = assets, NEW l \in Lines,
           lines'[l].kind = lines[l].kind, lines'[l].applied = lines[l].applied
    PROVE  Received(l) <= Received(l)'
<1>1. OnLine(l)' = OnLine(l)
  BY DEF OnLine, LiveAssets
<1>2. Received(l)' = Received(l)
  BY <1>1, ReceivedSame
<1>3. Received(l) \in Nat
  BY ReceivedType
<1> QED BY <1>2, <1>3

LEMMA ReceivedApplied ==
    ASSUME ProcurementInv, NEW l \in Lines, lines[l].kind = "LICENSE", NEW n \in Nat,
           lines'[l].kind = lines[l].kind, lines'[l].applied = lines[l].applied + n
    PROVE  Received(l) <= Received(l)'
<1>1. lines[l].applied \in 0 .. Ceiling
  BY TypesOf DEF LineRecord
<1>2. Received(l) = lines[l].applied /\ Received(l)' = lines[l].applied + n
  BY DEF Received
<1> QED BY <1>1, <1>2, CeilingNat

LEMMA CancelledStill ==
    ASSUME ProcurementInv, NEW l \in Lines, lines'[l].cancelled = lines[l].cancelled
    PROVE  lines[l].cancelled <= lines'[l].cancelled
<1>1. lines[l].cancelled \in 0 .. Ceiling
  BY TypesOf DEF LineRecord
<1> QED BY <1>1, CeilingNat

LEMMA CancelSafely ==
    ASSUME ProcurementInv, ProcurementInv', SafetyInv, NEW c \in Clients, CancelWrite(c)
    PROVE  Safely
<1>0. PICK l, k : l = client[c].line /\ k = client[c].seen
  OBVIOUS
<1>1. /\ client[c].op = "cancel" /\ client[c].pc = "write" /\ End(c) /\ mix' = mix
      /\ movements' = movements /\ purchases' = purchases /\ assets' = assets
      /\ locations' = locations /\ lines' = [lines EXCEPT ![l].cancelled = k]
  BY <1>0 DEF CancelWrite, Granted, purchaseOthers, bounds, stockTables
<1>2. /\ l \in Lines /\ Owns(c, LineRow(l)) /\ lines[l].cancelled <= k
  BY <1>0, <1>1, InvOf, CarefulOf DEF Standing, Subject, OnLines, Cancelling, Careful, Remaining, Owns
<1>3. lines \in [Lines -> LineRecord]
  BY SoundTables DEF TypeOK
<1>4. /\ \A i \in Lines \ {l} : lines'[i] = lines[i]
      /\ lines'[l].state = lines[l].state /\ lines'[l].purchase = lines[l].purchase
      /\ lines'[l].kind = lines[l].kind /\ lines'[l].quantity = lines[l].quantity
      /\ lines'[l].applied = lines[l].applied /\ lines'[l].cancelled = k
  BY <1>1, <1>2, <1>3 DEF LineRecord
<1>6. Received(l) <= Received(l)'
  BY <1>1, <1>2, <1>4, ReceivedStill
<1>7. OrdersKept(c)
  BY <1>1, <1>2, <1>4, <1>6, FillsLine
<1>8. lines'[client[c].line].cancelled = client[c].seen
  BY <1>0, <1>4
<1> QED BY <1>0, <1>1, <1>2, <1>4, <1>7, <1>8, EndsHere, LineSafely

LEMMA ApplySafely ==
    ASSUME ProcurementInv, ProcurementInv', SafetyInv, NEW c \in Clients, ApplyWrite(c)
    PROVE  Safely
<1>0. PICK l, n : l = client[c].line /\ n = client[c].n
  OBVIOUS
<1>1. /\ client[c].op = "apply seats" /\ client[c].pc = "write" /\ End(c) /\ mix' = mix
      /\ movements' = movements /\ purchases' = purchases /\ assets' = assets
      /\ locations' = locations /\ lines' = [lines EXCEPT ![l].applied = @ + n]
  BY <1>0 DEF ApplyWrite, Granted, bounds
<1>2. /\ l \in Lines /\ Owns(c, LineRow(l)) /\ lines[l].kind = "LICENSE" /\ n \in 1 .. Ceiling
  BY <1>0, <1>1, InvOf DEF Standing, Subject, OnLines, Applying, Owns
<1>3. lines \in [Lines -> LineRecord]
  BY SoundTables DEF TypeOK
<1>4. /\ \A i \in Lines \ {l} : lines'[i] = lines[i]
      /\ lines'[l].state = lines[l].state /\ lines'[l].purchase = lines[l].purchase
      /\ lines'[l].kind = lines[l].kind /\ lines'[l].quantity = lines[l].quantity
      /\ lines'[l].applied = lines[l].applied + n /\ lines'[l].cancelled = lines[l].cancelled
  BY <1>1, <1>2, <1>3 DEF LineRecord
<1>5. n \in Nat
  BY <1>2, CeilingNat
<1>6. Received(l) <= Received(l)' /\ lines[l].cancelled <= lines'[l].cancelled
  <2>1. Received(l) <= Received(l)'
    BY <1>2, <1>4, <1>5, ReceivedApplied
  <2>2. lines[l].cancelled <= lines'[l].cancelled
    BY <1>2, <1>4, CancelledStill
  <2> QED BY <2>1, <2>2
<1>7. OrdersKept(c)
  BY <1>1, <1>2, <1>4, <1>6, FillsLine
<1> QED BY <1>0, <1>1, <1>2, <1>4, <1>7, EndsHere, LineSafely

LEMMA RemoveLineSafely ==
    ASSUME ProcurementInv, ProcurementInv', SafetyInv, NEW c \in Clients, RemoveLineWrite(c)
    PROVE  Safely
<1> DEFINE l == client[c].line
<1>1. /\ client[c].op = "remove line" /\ client[c].pc = "write" /\ End(c) /\ mix' = mix
      /\ movements' = movements /\ purchases' = purchases /\ assets' = assets
      /\ locations' = locations /\ lines' = [lines EXCEPT ![l].state = "deleted"]
  BY DEF RemoveLineWrite, Granted, purchaseOthers, bounds, stockTables
<1>2. l \in Lines /\ lines \in [Lines -> LineRecord]
  BY <1>1, InvOf, SoundTables DEF Subject, OnLines, TypeOK
<1>3. OrdersKept(c)
  BY <1>1, CarefulOf DEF Careful, Reopening, OrdersKept
<1> HIDE DEF l
<1>4. /\ \A i \in Lines \ {l} : lines'[i] = lines[i]
      /\ lines'[l].kind = lines[l].kind /\ lines'[l].quantity = lines[l].quantity
      /\ lines'[l].applied = lines[l].applied /\ lines'[l].cancelled = lines[l].cancelled
  BY <1>1, <1>2 DEF LineRecord
<1> QED BY <1>1, <1>2, <1>3, <1>4, EndsHere, LineSafely

LEMMA UpdateLineSafely ==
    ASSUME ProcurementInv, ProcurementInv', SafetyInv, NEW c \in Clients, UpdateLineWrite(c)
    PROVE  Safely
<1>0. PICK l : l = client[c].line
  OBVIOUS
<1>1. /\ client[c].op = "update line" /\ client[c].pc = "write" /\ End(c) /\ mix' = mix
      /\ movements' = movements /\ purchases' = purchases /\ assets' = assets
      /\ locations' = locations
  BY DEF UpdateLineWrite, Granted, purchaseOthers, bounds, stockTables
<1>2. PICK row \in client[c].staged : lines' = [lines EXCEPT ![l] = row]
  BY <1>0 DEF UpdateLineWrite
<1>3. /\ l \in Lines /\ Updating(client[c]) /\ Careful(client[c])
      /\ client[c].change \in {"change kind", "change quantity", "map line"}
      /\ lines \in [Lines -> LineRecord]
  BY <1>0, <1>1, InvOf, CarefulOf, SoundTables DEF Subject, OnLines, TypeOK, Standing
<1>4. Owns(c, LineRow(l)) /\ client[c].change \in mix /\ NewRow(client[c], row)
  BY <1>0, <1>1, <1>2, <1>3 DEF Updating, Owns
<1>5. /\ row.state = lines[l].state /\ row.purchase = lines[l].purchase
      /\ row.applied = lines[l].applied
  BY <1>0, <1>4 DEF NewRow
<1>6. client[c].change = "map line" =>
        /\ row.kind = lines[l].kind /\ row.quantity = lines[l].quantity
        /\ row.cancelled = lines[l].cancelled
  BY <1>0, <1>1, <1>2, <1>3 DEF Careful, Remapping
<1>7. lines'[l] = row /\ \A i \in Lines \ {l} : lines'[i] = lines[i]
  BY <1>2, <1>3
<1>8. OrdersKept(c)
  <2>1. CASE client[c].change # "map line"
    BY <1>3, <1>4, <2>1 DEF OrdersKept, Reopening
  <2>2. CASE client[c].change = "map line"
    <3>1. lines'[l].kind = lines[l].kind /\ lines'[l].applied = lines[l].applied
      BY <1>5, <1>6, <1>7, <2>2
    <3>2. Received(l) <= Received(l)'
      BY <1>1, <1>3, <3>1, ReceivedStill
    <3>3. lines[l].cancelled <= lines'[l].cancelled
      BY <1>3, <1>6, <1>7, <2>2, CancelledStill
    <3>4. /\ lines'[l].state = lines[l].state /\ lines'[l].purchase = lines[l].purchase
          /\ lines'[l].quantity = lines[l].quantity
      BY <1>5, <1>6, <1>7, <2>2
    <3> QED BY <1>1, <1>3, <1>7, <3>1, <3>2, <3>3, <3>4, FillsLine
  <2> QED BY <2>1, <2>2
<1> QED BY <1>0, <1>1, <1>3, <1>4, <1>7, <1>8, EndsHere, LineSafely
-----------------------------------------------------------------------------
(***************************************************************************)
(* Assets.                                                                  *)
(***************************************************************************)
\* What a write of assets alone needs.
LEMMA AssetsSafely ==
    ASSUME ProcurementInv, ProcurementInv', SafetyInv, NEW c \in Clients, Here(c),
           movements' = movements, purchases' = purchases, lines' = lines, locations' = locations,
           AssetsKept(c), ArrivalsKept(c), Arrives(Assets, assets, assets'),
           "restore asset" \notin mix => \A l \in Lines : lines[l].state # "none" =>
             OnLine(l)' \subseteq OnLine(l) \/ Owns(c, Row("line", l, "key share")),
           mix \cap Reopening = {} => \A l \in Lines : lines[l].state # "none" =>
             OnLine(l) \subseteq OnLine(l)'
    PROVE  Safely
<1>1. TreeSound' /\ PlacesKept(c) /\ StrandsNothing
  BY SameArrives, PlacesAlone
<1>2. ReceiptsKept(c)
  BY ReceivedMore DEF ReceiptsKept
<1>3. OrdersKept(c)
  <2> SUFFICES ASSUME mix \cap Reopening = {} PROVE OrdersKept(c)
    BY DEF OrdersKept
  <2>1. \A l \in Lines : lines[l].state # "none" => Received(l) <= Received(l)'
    BY ReceivedMore
  <2> QED BY <2>1, OrdersMore
<1>4. Gentle(c)
  BY <1>1, <1>2, <1>3, LinesAlone DEF Gentle, Here
<1> QED BY <1>1, <1>4, WritesSafely

LEMMA LinkSafely ==
    ASSUME ProcurementInv, ProcurementInv', SafetyInv, NEW c \in Clients, LinkCommit(c)
    PROVE  Safely
<1> DEFINE x == client[c]
<1>1. /\ x.op = "link" /\ x.pc = "events" /\ End(c) /\ mix' = mix
      /\ movements' = movements /\ purchases' = purchases /\ lines' = lines
      /\ locations' = locations
      /\ assets' = [a \in Assets |-> IF a \in x.staged THEN Linked(assets[a], x.line, x.to)
                                     ELSE assets[a]]
  BY DEF LinkCommit, Granted, receivingOthers, bounds, stockTables
<1>2. Collecting(x) /\ Attaching(x) /\ x.line \in Lines
  BY <1>1, CarefulOf, InvOf DEF Careful, Subject, OnLines
<1>3. /\ x.change \in {"link", "move link", "apply"} \cap mix
      /\ AssetsLocked(x, x.staged)
      /\ x.change # "apply" => Owns(c, Row("line", x.line, "key share"))
      /\ \A a \in x.staged : /\ x.change = "link" => assets[a].line = None
                             /\ x.change = "apply" => assets[a].line = x.line
  BY <1>1, <1>2 DEF Collecting, Attaching, Owns
<1>4. assets \in [Assets -> AssetRecord]
  BY SoundTables DEF TypeOK
<1>5. \A a \in Assets : /\ assets'[a].state = assets[a].state
                        /\ assets'[a].location = assets[a].location
                        /\ assets'[a].line = IF a \in x.staged THEN x.line ELSE assets[a].line
  BY <1>1, <1>4 DEF Linked, AssetRecord
<1>6. AssetsKept(c) /\ ArrivalsKept(c) /\ Arrives(Assets, assets, assets')
  BY <1>3, <1>5 DEF AssetsKept, ArrivalsKept, Arrives, AssetsLocked, Owns
<1>7. \A l \in Lines : OnLine(l)' \subseteq OnLine(l) \/ Owns(c, Row("line", l, "key share"))
  <2> SUFFICES ASSUME NEW l \in Lines, ~ Owns(c, Row("line", l, "key share")),
                      NEW a \in OnLine(l)'
               PROVE  a \in OnLine(l)
    OBVIOUS
  <2>1. a \in Assets /\ assets'[a].state = "live" /\ assets'[a].line = l
    BY DEF OnLine, LiveAssets
  <2>2. assets[a].line = l
    BY <1>3, <1>5, <2>1
  <2> QED BY <1>5, <2>1, <2>2 DEF OnLine, LiveAssets
<1>8. mix \cap Reopening = {} => \A l \in Lines : OnLine(l) \subseteq OnLine(l)'
  <2> SUFFICES ASSUME mix \cap Reopening = {}, NEW l \in Lines, NEW a \in OnLine(l)
               PROVE  a \in OnLine(l)'
    OBVIOUS
  <2>1. a \in Assets /\ assets[a].state = "live" /\ assets[a].line = l /\ l # None
    BY ProcurementAssumption DEF OnLine, LiveAssets
  <2>2. x.change # "move link"
    BY <1>3 DEF Reopening
  <2>3. assets'[a].line = l
    BY <1>3, <1>5, <2>1, <2>2
  <2> QED BY <1>5, <2>1, <2>3 DEF OnLine, LiveAssets
<1> QED BY <1>1, <1>6, <1>7, <1>8, EndsHere, AssetsSafely

LEMMA UnlinkSafely ==
    ASSUME ProcurementInv, ProcurementInv', SafetyInv, NEW c \in Clients, UnlinkCommit(c)
    PROVE  Safely
<1> DEFINE x == client[c]
<1>1. /\ x.op = "unlink" /\ x.pc = "event" /\ End(c) /\ mix' = mix
      /\ movements' = movements /\ purchases' = purchases /\ lines' = lines
      /\ locations' = locations
      /\ assets' = [a \in Assets |-> IF a \in x.staged THEN [assets[a] EXCEPT !.line = None]
                                     ELSE assets[a]]
  BY DEF UnlinkCommit, Granted, receivingOthers, bounds, stockTables
<1>2. AssetsLocked(x, x.staged) /\ "unlink" \in mix
  BY <1>1, CarefulOf DEF Careful, Collecting
<1>4. assets \in [Assets -> AssetRecord]
  BY SoundTables DEF TypeOK
<1>5. \A a \in Assets : /\ assets'[a].state = assets[a].state
                        /\ assets'[a].location = assets[a].location
                        /\ assets'[a].line = IF a \in x.staged THEN None ELSE assets[a].line
  BY <1>1, <1>4 DEF AssetRecord
<1>6. AssetsKept(c) /\ ArrivalsKept(c) /\ Arrives(Assets, assets, assets')
  BY <1>2, <1>5 DEF AssetsKept, ArrivalsKept, Arrives, AssetsLocked, Owns
<1>7. \A l \in Lines : OnLine(l)' \subseteq OnLine(l)
  <2>1. \A l \in Lines : l # None
    BY ProcurementAssumption
  <2> QED BY <1>5, <2>1 DEF OnLine, LiveAssets
<1>8. mix \cap Reopening # {}
  BY <1>2 DEF Reopening
<1> QED BY <1>1, <1>6, <1>7, <1>8, EndsHere, AssetsSafely

LEMMA UnitSafely ==
    ASSUME ProcurementInv, ProcurementInv', SafetyInv, NEW c \in Clients, UnitInsert(c)
    PROVE  Safely
<1> DEFINE x == client[c]
<1>1. /\ x.op = "units" /\ x.pc = "insert" /\ ~ Waits(c) /\ mix' = mix
      /\ client' = [client EXCEPT ![c] = NextUnit(c, 1)]
      /\ movements' = movements /\ purchases' = purchases /\ lines' = lines
      /\ locations' = locations
  BY DEF UnitInsert, Granted, receivingOthers, bounds, stockTables
<1>2. PICK b \in Unused(assets, Assets) :
        assets' = [assets EXCEPT ![b] = NewAsset(x.to, x.of, x.line)]
  BY DEF UnitInsert
<1>3. Unpacking(x)
  BY <1>1, CarefulOf DEF Careful
<1>4. Owns(c, Place(x.to)) /\ Usable(x.to) /\ Owns(c, Row("line", x.line, "key share"))
  BY <1>1, <1>3, OwnsGranted DEF Unpacking, Owns
<1>5. assets \in [Assets -> AssetRecord] /\ b \in Assets /\ assets[b].state = "none"
  BY <1>2, SoundTables DEF TypeOK, Unused
<1>6. /\ \A a \in Assets \ {b} : assets'[a] = assets[a]
      /\ assets'[b].location = x.to /\ assets'[b].line = x.line /\ assets'[b].state = "live"
  BY <1>2, <1>5 DEF NewAsset
<1>7. Here(c)
  <2>1. Settled(NextUnit(c, 1))
    BY DEF NextUnit, Settled, Unit, Idle
  <2>2. client'[c] = NextUnit(c, 1) /\ \A d \in Clients \ {c} : client'[d] = client[d]
    BY <1>1, InvOf, IsSet
  <2> QED BY <1>1, <2>1, <2>2 DEF Here
<1>8. AssetsKept(c) /\ ArrivalsKept(c) /\ Arrives(Assets, assets, assets')
  <2>1. AssetsKept(c)
    BY <1>5, <1>6 DEF AssetsKept
  <2>2. ArrivalsKept(c)
    BY <1>4, <1>6 DEF ArrivalsKept, Welcomed
  <2>3. Arrives(Assets, assets, assets')
    BY <1>4, <1>6 DEF Arrives, Usable
  <2> QED BY <2>1, <2>2, <2>3
<1>9. \A l \in Lines : OnLine(l)' \subseteq OnLine(l) \/ Owns(c, Row("line", l, "key share"))
  BY <1>4, <1>6 DEF OnLine, LiveAssets
<1>10. \A l \in Lines : OnLine(l) \subseteq OnLine(l)'
  BY <1>5, <1>6 DEF OnLine, LiveAssets
<1> QED BY <1>1, <1>7, <1>8, <1>9, <1>10, AssetsSafely

LEMMA MoveAssetSafely ==
    ASSUME ProcurementInv, ProcurementInv', SafetyInv, NEW c \in Clients, AssetWrite(c)
    PROVE  Safely
<1> DEFINE x == client[c]
<1>1. /\ x.op = "asset" /\ x.pc = "write" /\ End(c) /\ mix' = mix
      /\ movements' = movements /\ purchases' = purchases /\ lines' = lines
      /\ locations' = locations
      /\ assets' = IF x.change = "location" THEN [assets EXCEPT ![x.on].location = x.to]
                   ELSE [assets EXCEPT ![x.on].model = x.to]
  BY DEF AssetWrite, Granted, receivingOthers, bounds, stockTables
<1>2. assets \in [Assets -> AssetRecord]
  BY SoundTables DEF TypeOK
<1>3. Here(c)
  BY <1>1, EndsHere
<1>4. CASE x.change # "location"
  <2>1. \A a \in Assets : /\ assets'[a].state = assets[a].state
                          /\ assets'[a].location = assets[a].location
                          /\ assets'[a].line = assets[a].line
    BY <1>1, <1>2, <1>4 DEF AssetRecord
  <2> QED BY <1>1, <1>3, <2>1, NothingTouched
<1>5. CASE x.change = "location"
  <2>1. Relocating(x)
    BY <1>1, <1>5, CarefulOf DEF Careful
  <2>2. /\ x.on \in Assets /\ Owns(c, Row("asset", x.on, "update"))
        /\ x.seen = 1 => Owns(c, Place(x.to)) /\ LocationLive(x.to)
        /\ x.seen = 1 \/ assets[x.on].location = x.to
    BY <1>1, <2>1 DEF Relocating, Owns
  <2>3. /\ \A a \in Assets : assets'[a].state = assets[a].state /\ assets'[a].line = assets[a].line
        /\ \A a \in Assets \ {x.on} : assets'[a].location = assets[a].location
        /\ assets'[x.on].location = x.to
    BY <1>1, <1>2, <1>5, <2>2 DEF AssetRecord
  <2>4. AssetsKept(c) /\ ArrivalsKept(c) /\ Arrives(Assets, assets, assets')
    BY <2>2, <2>3 DEF AssetsKept, ArrivalsKept, Arrives, Welcomed
  <2>5. \A l \in Lines : OnLine(l)' = OnLine(l)
    BY <2>3 DEF OnLine, LiveAssets
  <2> QED BY <1>1, <1>3, <2>4, <2>5, AssetsSafely
<1> QED BY <1>4, <1>5

LEMMA SwitchAssetSafely ==
    ASSUME ProcurementInv, ProcurementInv', SafetyInv, NEW c \in Clients,
           RemoveAsset(c) \/ RestoreAsset(c)
    PROVE  Safely
<1>1. PICK b \in Assets, state \in {"live", "deleted"} :
        /\ assets[b].state # "none" /\ assets' = [assets EXCEPT ![b].state = state]
        /\ state = "deleted" => Single(c, "remove asset", Row("asset", b, "no key update"))
        /\ state = "live" => Single(c, "restore asset", Row("asset", b, "no key update"))
  BY DEF RemoveAsset, RestoreAsset
<1>2. /\ movements' = movements /\ purchases' = purchases /\ lines' = lines
      /\ locations' = locations
  BY DEF RemoveAsset, RestoreAsset, receivingOthers, stockTables
<1>3. /\ state = "deleted" => mix \cap Reopening # {}
      /\ state = "live" => "restore asset" \in mix
  BY <1>1, SinglesHere DEF Reopening
<1>4. assets \in [Assets -> AssetRecord]
  BY SoundTables DEF TypeOK
<1>5. /\ \A a \in Assets : /\ assets'[a].location = assets[a].location
                           /\ assets'[a].line = assets[a].line
      /\ \A a \in Assets \ {b} : assets'[a] = assets[a]
      /\ assets'[b].state = state
  BY <1>1, <1>4 DEF AssetRecord
<1>6. AssetsKept(c) /\ ArrivalsKept(c) /\ Arrives(Assets, assets, assets')
  BY <1>1, <1>3, <1>5 DEF AssetsKept, ArrivalsKept, Arrives
<1>7. /\ state = "deleted" => \A l \in Lines : OnLine(l)' \subseteq OnLine(l)
      /\ state = "live" => \A l \in Lines : OnLine(l) \subseteq OnLine(l)'
  BY <1>5 DEF OnLine, LiveAssets
<1>8. Here(c)
  BY <1>1, SinglesHere
<1> QED BY <1>2, <1>3, <1>6, <1>7, <1>8, AssetsSafely

LEMMA FromAssetsSafely ==
    ASSUME ProcurementInv, ProcurementInv', SafetyInv, NEW c \in Clients, FromAssetsCommit(c)
    PROVE  Safely
<1>1. /\ client[c].op = "from assets" /\ client[c].pc = "models"
      /\ ~ Waits(c) /\ End(c) /\ mix' = mix
      /\ movements' = movements /\ locations' = locations
  BY DEF FromAssetsCommit, Granted, bounds, stockTables
<1>20. PICK p, rows, at : Gathers(c, p, rows, at)
  BY FromAssetsWrites
<1>2. /\ p \in Purchases /\ rows \in SUBSET Assets /\ rows = Linkable(c, None)
      /\ at \in [rows -> Lines]
      /\ purchases[p].state = "none" /\ \A a \in rows : lines[at[a]].state = "none"
      /\ purchases' = [purchases EXCEPT ![p] =
           [state |-> "live", named |-> FALSE, location |-> client[c].to]]
      /\ lines' = [l \in Lines |-> IF \E a \in rows : at[a] = l
                                  THEN GroupLine(c, p, {a \in rows : at[a] = l}) ELSE lines[l]]
      /\ assets' = [a \in Assets |-> IF a \in rows THEN [assets[a] EXCEPT !.line = at[a]]
                                     ELSE assets[a]]
  BY <1>20 DEF Gathers
<1>3. PICK to : to = client[c].to
  OBVIOUS
<1>4. Gathering(client[c]) /\ Collecting(client[c])
  BY <1>1, CarefulOf DEF Careful
<1>5. Owns(c, Place(to)) /\ Usable(to) /\ client[c].change = "link"
  BY <1>1, <1>3, <1>4 DEF Gathering, Owns
<1>6. \A a \in rows : /\ Owns(c, Row("asset", a, "update")) /\ assets[a].line = None
                      /\ assets[a].state = "live"
  BY <1>1, <1>2, <1>4, <1>5 DEF Collecting, AssetsLocked, Linkable, LiveAssets, Owns
<1>7. /\ purchases \in [Purchases -> PurchaseRecord] /\ lines \in [Lines -> LineRecord]
      /\ assets \in [Assets -> AssetRecord]
  BY SoundTables DEF TypeOK
<1>8. /\ \A q \in Purchases \ {p} : purchases'[q] = purchases[q]
      /\ purchases'[p].location = to
  BY <1>2, <1>3, <1>7
<1>9. ASSUME NEW k \in Lines
      PROVE  \/ lines'[k] = lines[k]
             \/ lines[k].state = "none" /\ lines'[k].purchase = p
  <2>1. CASE \E a \in rows : at[a] = k
    <3> DEFINE group == {a \in rows : at[a] = k}
    <3>1. group \in SUBSET Assets /\ group # {} /\ lines'[k] = GroupLine(c, p, group)
      BY <1>2, <2>1
    <3> HIDE DEF group
    <3>2. p \in Purchases
      BY <1>2
    <3>3. lines'[k].purchase = p
      BY <3>1, <3>2, GroupLineIs
    <3> QED BY <1>2, <2>1, <3>3
  <2>2. CASE ~ \E a \in rows : at[a] = k
    BY <1>2, <2>2
  <2> QED BY <2>1, <2>2
<1>10. \A a \in Assets : /\ assets'[a].state = assets[a].state
                         /\ assets'[a].location = assets[a].location
                         /\ assets'[a].line = IF a \in rows THEN at[a] ELSE assets[a].line
  BY <1>2, <1>7 DEF AssetRecord
<1>11. AssetsKept(c) /\ ArrivalsKept(c) /\ Arrives(Assets, assets, assets')
  BY <1>6, <1>10 DEF AssetsKept, ArrivalsKept, Arrives
<1>12. \A k \in Lines : lines[k].state # "none" => OnLine(k)' = OnLine(k)
  <2> SUFFICES ASSUME NEW k \in Lines, lines[k].state # "none" PROVE OnLine(k)' = OnLine(k)
    OBVIOUS
  <2>1. k # None /\ \A a \in rows : at[a] # k
    BY <1>2, ProcurementAssumption
  <2> QED BY <1>2, <1>6, <1>10, <2>1 DEF OnLine, LiveAssets
<1>13. Here(c) /\ Welcomed(c, to)
  BY <1>1, <1>5, EndsHere DEF Welcomed
<1> QED BY <1>1, <1>2, <1>5, <1>8, <1>9, <1>11, <1>12, <1>13, InsertSafely

LEMMA ModelCommitSafely ==
    ASSUME ProcurementInv, ProcurementInv', SafetyInv, NEW c \in Clients, ModelCommit(c)
    PROVE  Safely
<1>1. /\ client[c].op = "delete model" /\ End(c) /\ mix' = mix
      /\ movements' = movements /\ purchases' = purchases /\ locations' = locations
  BY DEF ModelCommit, Granted, bounds, stockTables
<1>0. PICK heir, A, L : heir = Heir(c) /\ A = StagedOf(c, "asset") /\ L = StagedOf(c, "line")
  OBVIOUS
<1>2. /\ assets' = [a \in Assets |-> IF a \in A THEN [assets[a] EXCEPT !.model = heir] ELSE assets[a]]
      /\ lines' = [l \in Lines |-> IF l \in L THEN [lines[l] EXCEPT !.model = heir] ELSE lines[l]]
  BY <1>0 DEF ModelCommit
<1>3. assets \in [Assets -> AssetRecord] /\ lines \in [Lines -> LineRecord]
  BY SoundTables DEF TypeOK
<1>4. \A a \in Assets : /\ assets'[a].state = assets[a].state
                        /\ assets'[a].location = assets[a].location
                        /\ assets'[a].line = assets[a].line
  BY <1>2, <1>3 DEF AssetRecord
<1>5. \A l \in Lines : /\ lines'[l].state = lines[l].state /\ lines'[l].purchase = lines[l].purchase
                       /\ lines'[l].kind = lines[l].kind /\ lines'[l].quantity = lines[l].quantity
                       /\ lines'[l].cancelled = lines[l].cancelled
                       /\ lines'[l].applied = lines[l].applied
  BY <1>2, <1>3 DEF LineRecord
<1>6. Here(c)
  BY <1>1, EndsHere
<1>7. AssetsKept(c) /\ ArrivalsKept(c) /\ Arrives(Assets, assets, assets')
  BY <1>4, AssetsAlone
<1>8. TreeSound' /\ PlacesKept(c) /\ StrandsNothing
  BY <1>1, <1>7, SameArrives, PlacesAlone
<1>9. OrderedKept(c)
  BY <1>5 DEF OrderedKept
<1>10. \A l \in Lines : Received(l)' = Received(l)
  <2>1. \A l : OnLine(l)' = OnLine(l)
    BY <1>4 DEF OnLine, LiveAssets
  <2> QED BY <1>1, <1>5, <2>1, ReceivedSame
<1>11. ReceiptsKept(c)
  BY <1>10, ReceiptsAlone
<1>12. OrdersKept(c)
  <2>1. \A l \in Lines : Received(l) \in Nat /\ lines[l].cancelled \in 0 .. Ceiling
    BY ReceivedType, TypesOf DEF LineRecord
  <2>2. \A l \in Lines : lines[l].cancelled <= lines'[l].cancelled /\ Received(l) <= Received(l)'
    BY <1>5, <1>10, <2>1, CeilingNat
  <2>3. \A p : \A l \in Lines : l \in LinesOf(p)' <=> l \in LinesOf(p)
    BY <1>5 DEF LinesOf
  <2>4. \A p : Fills(p)
    BY <1>5, <2>2, <2>3 DEF Fills
  <2> QED BY <1>1, <2>4 DEF OrdersKept
<1>13. Gentle(c)
  BY <1>1, <1>7, <1>8, <1>9, <1>11, <1>12 DEF Gentle
<1> QED BY <1>1, <1>6, <1>8, <1>13, WritesSafely
-----------------------------------------------------------------------------
(***************************************************************************)
(* Locations.                                                               *)
(***************************************************************************)
Acyclic(rows) == \A S \in SUBSET Locations : S # {} => \E x \in S : rows[x].parent \notin S

Rooted(rows) == \A x \in Locations : rows[x].state = "live" /\ rows[x].parent # None =>
    rows[rows[x].parent].state = "live"

LEMMA ForestIs == \A rows : Forest(rows) <=> Acyclic(rows) /\ Rooted(rows)
BY DEF Forest, Acyclic, Rooted

LEMMA NoneNowhere ==
    /\ None \notin Locations /\ None \notin Assets /\ None \notin Purchases /\ None \notin Lines
BY ProcurementAssumption

\* The locations M hang below heir now, whose way up, T, meets none of them.
Rehangs(old, new, M, heir, T) ==
    /\ \A y \in T \cup {heir} : y = None \/ old[y].parent \in T \cup {None}
    /\ \A y \in M : y \notin T /\ y # heir /\ new[y].parent = heir
    /\ \A y \in Locations : y \notin M => new[y].parent = old[y].parent

LEMMA Rehung ==
    ASSUME NEW old, NEW new, Acyclic(old), NEW M, NEW heir, NEW T, Rehangs(old, new, M, heir, T)
    PROVE  Acyclic(new)
<1>0. /\ \A y \in T \cup {heir} : y = None \/ old[y].parent \in T \cup {None}
      /\ M \cap T = {} /\ heir \notin M /\ \A y \in M : new[y].parent = heir
      /\ \A y \in Locations \ M : new[y].parent = old[y].parent
  BY DEF Rehangs
<1> SUFFICES ASSUME NEW S \in SUBSET Locations, S # {}
             PROVE  \E x \in S : new[x].parent \notin S
  BY DEF Acyclic
<1> DEFINE S1 == S \cap (T \cup {heir})
<1>1. CASE S1 # {}
  <2>1. PICK z \in S1 : old[z].parent \notin S1
    BY <1>1 DEF Acyclic
  <2>2. z \in Locations \ M /\ z # None
    BY <1>0, <2>1, NoneNowhere
  <2>3. old[z].parent \notin S
    BY <1>0, <2>1, <2>2, NoneNowhere
  <2> QED BY <1>0, <2>1, <2>2, <2>3
<1>2. CASE S1 = {}
  <2>1. PICK z \in S : old[z].parent \notin S
    BY DEF Acyclic
  <2>2. heir \notin S
    BY <1>2
  <2> QED BY <1>0, <2>1, <2>2
<1> QED BY <1>1, <1>2

\* A write of locations alone.
LEMMA TreeSafely ==
    ASSUME ProcurementInv, ProcurementInv', SafetyInv, NEW c \in Clients, Here(c),
           movements' = movements, purchases' = purchases, lines' = lines, assets' = assets,
           \A x \in Locations : LocationLive(x) => LocationLive(x)',
           Owns(c, Tree) \/ RootsAdded, Forest(locations')
    PROVE  Safely
<1>1. AssetsKept(c) /\ ArrivalsKept(c) /\ Arrives(Assets, assets, assets')
  BY AssetsAlone
<1>2. ReceiptsKept(c) /\ OrdersKept(c) /\ OrderedKept(c)
  BY ReceivedStay, ReceiptsAlone, OrdersMore, LinesAlone
<1>3. PlacesKept(c)
  BY DEF PlacesKept
<1>4. StrandsNothing
  BY DEF StrandsNothing, LocationLive
<1>5. Gentle(c)
  BY <1>1, <1>2, <1>3 DEF Gentle, Here
<1>6. TreeSound'
  BY DEF TreeSound
<1> QED BY <1>4, <1>5, <1>6, WritesSafely

LEMMA TreeOf ==
    ASSUME ProcurementInv, SafetyInv
    PROVE  /\ locations \in [Locations -> LocationRecord]
           /\ Acyclic(locations) /\ Rooted(locations)
           /\ \A x \in Locations : locations[x].parent \in Locations \cup {None}
BY SoundTables, ForestIs DEF TypeOK, SafetyInv, TreeSound, LocationRecord

LEMMA CreateLocationSafely ==
    ASSUME ProcurementInv, ProcurementInv', SafetyInv, NEW c \in Clients, CreateLocation(c)
    PROVE  Safely
<1>1. PICK x \in Unused(locations, Locations), y \in Locations \cup {None} :
        /\ y # None => LocationLive(y)
        /\ Single(c, "create location", IF y = None THEN {} ELSE TreeLock(x))
        /\ locations' = [locations EXCEPT ![x] = [state |-> "live", parent |-> y]]
        /\ UNCHANGED placeOthers
  BY DEF CreateLocation
<1>2. movements' = movements /\ purchases' = purchases /\ lines' = lines /\ assets' = assets
  BY <1>1 DEF placeOthers, stockTables
<1>3. x \in Locations /\ locations[x].state = "none" /\ x # None
  BY <1>1, NoneNowhere DEF Unused
<1>4. /\ \A z \in Locations \ {x} : locations'[z] = locations[z]
      /\ locations'[x].state = "live" /\ locations'[x].parent = y
  BY <1>1, <1>3, TreeOf
<1>5. Here(c) /\ Free(IF y = None THEN {} ELSE TreeLock(x))
  BY <1>1, SinglesHere
<1>6. Owns(c, Tree) \/ RootsAdded
  <2>1. CASE y = None
    BY <1>3, <1>4, <2>1 DEF RootsAdded
  <2>2. CASE y # None
    BY <1>5, <2>2, OwnsFree DEF TreeLock
  <2> QED BY <2>1, <2>2
<1>7. Acyclic(locations')
  <2> DEFINE T == {z \in Locations : locations[z].state = "live"}
  <2>1. \A z \in T \cup {y} : z = None \/ locations[z].parent \in T \cup {None}
    BY <1>1, TreeOf DEF Rooted, LocationLive
  <2>2. x \notin T /\ x # y
    BY <1>1, <1>3 DEF LocationLive
  <2> HIDE DEF T
  <2>3. Rehangs(locations, locations', {x}, y, T)
    BY <1>4, <2>1, <2>2 DEF Rehangs
  <2> QED BY <2>3, TreeOf, Rehung
<1>8. Rooted(locations')
  <2> SUFFICES ASSUME NEW z \in Locations, locations'[z].state = "live", locations'[z].parent # None
               PROVE  locations'[locations'[z].parent].state = "live"
    BY DEF Rooted
  <2>1. CASE z = x
    BY <1>1, <1>3, <1>4, <2>1 DEF LocationLive
  <2>2. CASE z # x
    <3>1. locations[locations[z].parent].state = "live" /\ locations[z].parent \in Locations
      BY <1>4, <2>2, TreeOf DEF Rooted
    <3> QED BY <1>3, <1>4, <2>2, <3>1
  <2> QED BY <2>1, <2>2
<1>9. \A z \in Locations : LocationLive(z) => LocationLive(z)'
  BY <1>3, <1>4 DEF LocationLive
<1>10. Forest(locations')
  BY <1>7, <1>8, ForestIs
<1> QED BY <1>2, <1>5, <1>6, <1>9, <1>10, TreeSafely

LEMMA RestoreLocationSafely ==
    ASSUME ProcurementInv, ProcurementInv', SafetyInv, NEW c \in Clients, RestoreLocation(c)
    PROVE  Safely
<1>1. PICK x \in Locations :
        /\ locations[x].state = "deleted"
        /\ Parent(x) # None => LocationLive(Parent(x))
        /\ Single(c, "restore location", TreeLock(x) \cup Row("location", x, "no key update"))
        /\ locations' = [locations EXCEPT ![x].state = "live"]
        /\ UNCHANGED placeOthers
  BY DEF RestoreLocation
<1>2. movements' = movements /\ purchases' = purchases /\ lines' = lines /\ assets' = assets
  BY <1>1 DEF placeOthers, stockTables
<1>3. /\ \A z \in Locations : locations'[z].parent = locations[z].parent
      /\ \A z \in Locations \ {x} : locations'[z].state = locations[z].state
      /\ locations'[x].state = "live"
  BY <1>1, TreeOf DEF LocationRecord
<1>4. Here(c) /\ Owns(c, Tree)
  <2>1. Free(TreeLock(x) \cup Row("location", x, "no key update"))
    BY <1>1, SinglesHere
  <2>2. Tree \subseteq TreeLock(x) \cup Row("location", x, "no key update")
    BY DEF TreeLock
  <2> QED BY <1>1, <2>1, <2>2, SinglesHere, OwnsFree
<1>5. Acyclic(locations')
  BY <1>3, TreeOf DEF Acyclic
<1>6. Rooted(locations')
  <2> SUFFICES ASSUME NEW z \in Locations, locations'[z].state = "live", locations'[z].parent # None
               PROVE  locations'[locations'[z].parent].state = "live"
    BY DEF Rooted
  <2>1. locations[z].parent \in Locations /\ locations[locations[z].parent].state = "live"
    BY <1>1, <1>3, TreeOf DEF Rooted, Parent, LocationLive
  <2> QED BY <1>3, <2>1
<1>7. \A z \in Locations : LocationLive(z) => LocationLive(z)'
  BY <1>3 DEF LocationLive
<1>8. Forest(locations')
  BY <1>5, <1>6, ForestIs
<1> QED BY <1>2, <1>4, <1>7, <1>8, TreeSafely

LEMMA ReparentSafely ==
    ASSUME ProcurementInv, ProcurementInv', SafetyInv, NEW c \in Clients, ReparentWrite(c)
    PROVE  Safely
<1>0. PICK x, y : x = client[c].on /\ y = client[c].to
  OBVIOUS
<1>1. /\ client[c].op = "reparent" /\ client[c].pc = "write" /\ End(c) /\ mix' = mix
      /\ locations' = [locations EXCEPT ![x].parent = y]
      /\ movements' = movements /\ purchases' = purchases /\ lines' = lines /\ assets' = assets
  BY <1>0 DEF ReparentWrite, Granted, placeOthers, bounds, stockTables
<1>2. /\ x \in Locations /\ y \in Locations \cup {None}
      /\ Tree \subseteq client[c].locks /\ LocationLive(x) /\ Above(y, x)
  BY <1>0, <1>1, InvOf, CarefulOf DEF Subject, Careful, Rearranging
<1>3. /\ \A z \in Locations : locations'[z].state = locations[z].state
      /\ \A z \in Locations \ {x} : locations'[z].parent = locations[z].parent
      /\ locations'[x].parent = y
  BY <1>1, <1>2, TreeOf DEF LocationRecord
<1>4. \E T : /\ \A z \in T \cup {y} : z = None \/ locations[z].parent \in T \cup {None}
             /\ x \notin T /\ x # y
  <2>1. CASE y = None
    <3>1. \A z \in {} \cup {y} : z = None \/ locations[z].parent \in {} \cup {None}
      BY <2>1
    <3>2. x \notin {} /\ x # y
      BY <1>2, <2>1, NoneNowhere
    <3> QED BY <3>1, <3>2
  <2>2. CASE y # None
    <3>1. PICK T : Avoids(T, y, x)
      BY <1>2, <2>2 DEF Above
    <3>2. \A z \in T \cup {y} : locations[z].parent \in T \cup {None}
      BY <3>1 DEF Avoids, WalkedUp, Parent
    <3>3. x \notin T /\ x # y
      BY <1>2, <2>2, <3>1 DEF Avoids, Above
    <3> QED BY <3>2, <3>3
  <2> QED BY <2>1, <2>2
<1>5. Acyclic(locations')
  <2>1. PICK T : /\ \A z \in T \cup {y} : z = None \/ locations[z].parent \in T \cup {None}
                 /\ x \notin T /\ x # y
    BY <1>4
  <2>2. Rehangs(locations, locations', {x}, y, T)
    BY <1>3, <2>1 DEF Rehangs
  <2> QED BY <2>2, TreeOf, Rehung
<1>6. Rooted(locations')
  <2> SUFFICES ASSUME NEW z \in Locations, locations'[z].state = "live", locations'[z].parent # None
               PROVE  locations'[locations'[z].parent].state = "live"
    BY DEF Rooted
  <2>1. CASE z = x
    BY <1>2, <1>3, <2>1 DEF Above, LocationLive
  <2>2. CASE z # x
    <3>1. locations[z].parent \in Locations /\ locations[locations[z].parent].state = "live"
      BY <1>3, <2>2, TreeOf DEF Rooted
    <3> QED BY <1>3, <2>2, <3>1
  <2> QED BY <2>1, <2>2
<1>7. \A z \in Locations : LocationLive(z) => LocationLive(z)'
  BY <1>3 DEF LocationLive
<1>8. Forest(locations') /\ Here(c) /\ Owns(c, Tree)
  BY <1>1, <1>2, <1>5, <1>6, ForestIs, EndsHere DEF Owns
<1> QED BY <1>1, <1>7, <1>8, TreeSafely

\* What the delete of x has locked it moves to heir, and that is all there is.
Clears(y, x, heir, M, P, A) ==
    /\ x \in Locations /\ heir \in Locations \cup {None} /\ LocationLive(x)
    /\ Tree \subseteq y.locks /\ Row("location", x, "update") \subseteq y.locks
    /\ AssetsLocked(y, A) /\ M = Children(x)
    /\ mix \cap Reopening = {} => Opens(x) \subseteq P
    /\ "restore asset" \notin mix => PlacedAt(x) \subseteq A
    /\ heir = None \/ MoveTarget(x, heir) \/ M \cup P \cup A = {}

LEMMA DeleteClears ==
    ASSUME ProcurementInv, SafetyInv, NEW c \in Clients, DeleteCommit(c)
    PROVE  Clears(client[c], client[c].on, Heir(c), StagedOf(c, "location"),
                  StagedOf(c, "purchase"), StagedOf(c, "asset"))
<1>0. PICK x, y, heir, M, P, A :
        /\ x = client[c].on /\ y = client[c].to /\ heir = Heir(c)
        /\ M = StagedOf(c, "location") /\ P = StagedOf(c, "purchase") /\ A = StagedOf(c, "asset")
  OBVIOUS
<1>1. /\ client[c].op = "delete location" /\ client[c].pc = "assets" /\ client[c].ids = {}
      /\ Resolved(c, MoveTarget(x, y))
  BY <1>0 DEF DeleteCommit, Granted
<1>2. /\ x \in Locations /\ y \in Locations
      /\ Vacating(client[c]) /\ VacatingOrders(client[c]) /\ VacatingAssets(client[c])
  BY <1>0, <1>1, InvOf, CarefulOf DEF Subject, Careful
<1>3. /\ M = RowsOf(client[c], "location") /\ P = RowsOf(client[c], "purchase")
      /\ A = RowsOf(client[c], "asset")
  BY <1>0 DEF StagedOf, RowsOf
<1>4. /\ Tree \subseteq client[c].locks /\ Row("location", x, "update") \subseteq client[c].locks
      /\ LocationLive(x) /\ M = Children(x)
  BY <1>0, <1>1, <1>2, <1>3 DEF Vacating, AfterRow
<1>5. mix \cap Reopening = {} => Opens(x) \subseteq P
  BY <1>0, <1>1, <1>2, <1>3 DEF VacatingOrders
<1>6. /\ "restore asset" \notin mix => PlacedAt(x) \subseteq A
      /\ AssetsLocked(client[c], A)
  BY <1>0, <1>1, <1>2, <1>3 DEF VacatingAssets, AssetsLocked
<1>7. client[c].staged = {} => M \cup P \cup A = {}
  BY <1>3 DEF RowsOf
<1>8. heir = None \/ (heir = y /\ client[c].change = "move")
  BY <1>0 DEF Heir
<1>9. heir = None \/ MoveTarget(x, heir) \/ M \cup P \cup A = {}
  BY <1>1, <1>7, <1>8 DEF Resolved
<1>10. Clears(client[c], x, heir, M, P, A)
  BY <1>2, <1>4, <1>5, <1>6, <1>8, <1>9 DEF Clears
<1> QED BY <1>0, <1>10

LEMMA DeleteCommitSafely ==
    ASSUME ProcurementInv, ProcurementInv', SafetyInv, NEW c \in Clients, DeleteCommit(c)
    PROVE  Safely
<1>0. PICK x, y, heir, M, P, A :
        /\ x = client[c].on /\ y = client[c].to /\ heir = Heir(c)
        /\ M = StagedOf(c, "location") /\ P = StagedOf(c, "purchase") /\ A = StagedOf(c, "asset")
  OBVIOUS
<1>1. /\ client[c].op = "delete location" /\ End(c) /\ mix' = mix
      /\ movements' = movements /\ lines' = lines
  BY DEF DeleteCommit, Granted, bounds, stockTables
<1>2. /\ locations' = [z \in Locations |->
           IF z = x THEN [locations[z] EXCEPT !.state = "deleted"]
           ELSE IF z \in M THEN [locations[z] EXCEPT !.parent = heir] ELSE locations[z]]
      /\ purchases' = [p \in Purchases |->
           IF p \in P THEN [purchases[p] EXCEPT !.location = heir] ELSE purchases[p]]
      /\ assets' = [a \in Assets |-> IF a \in A THEN [assets[a] EXCEPT !.location = heir] ELSE assets[a]]
  BY <1>0 DEF DeleteCommit
<1>3. /\ x \in Locations /\ heir \in Locations \cup {None} /\ LocationLive(x)
      /\ Tree \subseteq client[c].locks /\ Row("location", x, "update") \subseteq client[c].locks
      /\ \A a \in A : Row("asset", a, "update") \subseteq client[c].locks
      /\ M = Children(x)
      /\ mix \cap Reopening = {} => Opens(x) \subseteq P
      /\ "restore asset" \notin mix => PlacedAt(x) \subseteq A
      /\ heir = None \/ MoveTarget(x, heir) \/ M \cup P \cup A = {}
  <2>1. Clears(client[c], x, heir, M, P, A)
    BY <1>0, DeleteClears
  <2> QED BY <2>1 DEF Clears, AssetsLocked
<1>4. Here(c) /\ Owns(c, Tree) /\ Owns(c, Row("location", x, "update"))
  BY <1>1, <1>3, EndsHere DEF Owns
<1>5. x # None /\ x \notin M /\ M \subseteq Locations
  <2>1. ~ (locations[x].parent = x)
    <3>1. \E z \in {x} : locations[z].parent \notin {x}
      BY <1>3, TreeOf DEF Acyclic
    <3> QED BY <3>1
  <2> QED BY <1>3, <2>1, NoneNowhere DEF Children, Parent
<1>6. /\ locations'[x].state = "deleted" /\ locations'[x].parent = locations[x].parent
      /\ \A z \in Locations \ {x} : locations'[z].state = locations[z].state
      /\ \A z \in Locations \ M : locations'[z].parent = locations[z].parent
      /\ \A z \in M : locations'[z].parent = heir
  BY <1>2, <1>3, <1>5, TreeOf DEF LocationRecord
<1>7. /\ \A p \in Purchases : /\ purchases'[p].state = purchases[p].state
                              /\ purchases'[p].location = IF p \in P THEN heir ELSE purchases[p].location
      /\ \A a \in Assets : /\ assets'[a].state = assets[a].state /\ assets'[a].line = assets[a].line
                           /\ assets'[a].location = IF a \in A THEN heir ELSE assets[a].location
  BY <1>2, SoundTables DEF TypeOK, PurchaseRecord, AssetRecord
<1>8. M \cup P \cup A # {} => heir = None \/ (heir # x /\ LocationLive(heir))
  BY <1>3 DEF MoveTarget
<1>9. Acyclic(locations')
  <2>1. CASE M = {}
    BY <1>6, <2>1, TreeOf DEF Acyclic
  <2>2. CASE M # {} /\ heir = None
    <3>1. heir \notin M
      BY <1>5, <2>2, NoneNowhere
    <3>2. Rehangs(locations, locations', M, heir, {})
      BY <1>6, <2>2, <3>1 DEF Rehangs
    <3> QED BY <3>2, TreeOf, Rehung
  <2>3. CASE M # {} /\ heir # None
    <3>1. heir \in Locations /\ LocationLive(heir) /\ ~ IsBelow(heir, x) /\ heir # x
      BY <1>3, <2>3 DEF MoveTarget
    <3>2. PICK T : Avoids(T, heir, x)
      BY <3>1, UpFrom, CarefulOf, SoundTables
    <3>3. \A z \in T \cup {heir} : locations[z].parent \in T \cup {None}
      BY <3>2 DEF Avoids, WalkedUp, Parent
    <3>4. \A z \in T \cup {heir} : locations[z].parent # x
      BY <1>5, <3>2, <3>3 DEF Avoids
    <3>5. M \cap T = {} /\ heir \notin M
      BY <1>3, <3>4 DEF Children, Parent
    <3>6. Rehangs(locations, locations', M, heir, T)
      BY <1>6, <3>3, <3>5 DEF Rehangs
    <3> QED BY <3>6, TreeOf, Rehung
  <2> QED BY <2>1, <2>2, <2>3
<1>10. Rooted(locations')
  <2> SUFFICES ASSUME NEW z \in Locations, locations'[z].state = "live", locations'[z].parent # None
               PROVE  locations'[locations'[z].parent].state = "live"
    BY DEF Rooted
  <2>1. z # x /\ locations[z].state = "live"
    BY <1>6
  <2>2. CASE z \in M
    BY <1>3, <1>6, <1>8, <2>2 DEF LocationLive
  <2>3. CASE z \notin M
    <3>1. locations[z].parent # None /\ locations[z].parent # x
      BY <1>3, <1>6, <2>1, <2>3 DEF Children, Parent, LocationLive
    <3>2. locations[z].parent \in Locations /\ locations[locations[z].parent].state = "live"
      BY <2>1, <3>1, TreeOf DEF Rooted
    <3> QED BY <1>6, <2>3, <3>1, <3>2
  <2> QED BY <2>2, <2>3
<1>11. TreeSound'
  <2>1. Forest(locations')
    BY <1>9, <1>10, ForestIs
  <2> QED BY <2>1 DEF TreeSound
<1>12. PlacesKept(c)
  BY <1>4, <1>6 DEF PlacesKept, LocationLive
<1>13. AssetsKept(c)
  BY <1>3, <1>7 DEF AssetsKept, Owns
<1>14. ArrivalsKept(c) /\ OrdersKept(c)
  BY <1>4 DEF ArrivalsKept, OrdersKept, Welcomed
<1>15. \A l \in Lines : Received(l)' = Received(l) /\ Received(l) <= Received(l)'
  BY <1>1, <1>7, ReceivedStay
<1>16. Gentle(c)
  BY <1>1, <1>12, <1>13, <1>14, <1>15, ReceiptsAlone, LinesAlone DEF Gentle
<1>17. "restore asset" \notin mix => PlacedAt(x)' = {}
  <2> SUFFICES ASSUME "restore asset" \notin mix, NEW a \in PlacedAt(x)' PROVE FALSE
    OBVIOUS
  <2>1. a \in Assets /\ assets'[a].state = "live" /\ assets'[a].location = x
    BY DEF PlacedAt, LiveAssets
  <2>2. a \notin A
    BY <1>5, <1>7, <1>8, <2>1
  <2>3. a \in PlacedAt(x)
    BY <1>7, <2>1, <2>2 DEF PlacedAt, LiveAssets
  <2> QED BY <1>3, <2>2, <2>3
<1>18. mix \cap Reopening = {} => \A p \in DeliversTo(x)' : ~ OpenPurchase(p)'
  <2> SUFFICES ASSUME mix \cap Reopening = {}, NEW p \in DeliversTo(x)', OpenPurchase(p)' PROVE FALSE
    OBVIOUS
  <2>1. p \in Purchases /\ purchases'[p].state = "live" /\ purchases'[p].location = x
    BY DEF DeliversTo
  <2>2. p \notin P
    BY <1>5, <1>7, <1>8, <2>1
  <2>3. OpenPurchase(p)
    BY <1>1, <1>15, FillsMore, FillsOpen
  <2>4. p \in Opens(x)
    BY <1>7, <2>1, <2>2, <2>3 DEF Opens, DeliversTo
  <2> QED BY <1>3, <2>2, <2>4
<1>19. heir = None \/ M \cup P \cup A = {} \/ locations'[heir].state = "live"
  BY <1>3, <1>6, <1>8 DEF LocationLive
<1>20. \A z \in Locations : LocationLive(z) /\ locations'[z].state # "live" => z = x
  BY <1>6 DEF LocationLive
<1>21. StrandsNothing
  BY <1>7, <1>17, <1>18, <1>19, <1>20 DEF StrandsNothing
<1> QED BY <1>1, <1>4, <1>11, <1>16, <1>21, WritesSafely
-----------------------------------------------------------------------------
(***************************************************************************)
(* Every step.                                                              *)
(***************************************************************************)
LEMMA StockStepSafely ==
    ASSUME ProcurementInv, ProcurementInv', SafetyInv, NEW c \in Clients, StockStep(c)
    PROVE  Safely
<1>1. CASE \/ PostIn(c) \/ PostOut(c) \/ PostAdjustment(c) \/ PostDelivery(c)
           \/ PostReturn(c) \/ ReceiveStock(c)
  <2>1. Kept(c) /\ Follows(c)
    BY <1>1, PostsKept, ReturnsKept, StockFollows
  <2>2. UNCHANGED <<tables, mix>>
    BY <1>1 DEF PostIn, PostOut, PostAdjustment, PostDelivery, PostReturn, ReceiveStock, Begin
  <2> QED BY <2>1, <2>2, QuietSafely
<1>2. CASE \/ CheckTarget(c) \/ LockReturnableDelivery(c) \/ ReceiveBeforeWrite(c)
           \/ ReadCeiling(c) \/ MoveStock(c)
  <2>1. Kept(c) /\ Follows(c)
    BY <1>2, MovesKept, MoveStockKept, StockFollows
  <2>2. UNCHANGED <<tables, mix>>
    BY <1>2 DEF CheckTarget, LockReturnableDelivery, ReceiveBeforeWrite, ReadCeiling, MoveStock, bounds
  <2> QED BY <2>1, <2>2, QuietSafely
<1>3. CASE RecordMovement(c)
  BY <1>3, RecordSafely
<1>4. CASE ArchiveItem(c) \/ RestoreItem(c)
  BY <1>4, ItemsSafely
<1> QED BY <1>1, <1>2, <1>3, <1>4 DEF StockStep

LEMMA PurchaseStepSafely ==
    ASSUME ProcurementInv, ProcurementInv', SafetyInv, NEW c \in Clients, PurchaseStep(c)
    PROVE  Safely
<1>0. Careful(client[c])
  BY CarefulOf
<1>1. CASE CreateRead(c) \/ RemoveRead(c) \/ AddLineRead(c) \/ ClearHeader(c) \/ DeliverTo(c)
  <2>1. Kept(c) /\ Follows(c)
    BY <1>1, PurchaseBeginsKept, HeadersFollow
  <2>2. UNCHANGED <<tables, mix>>
    BY <1>1 DEF CreateRead, RemoveRead, AddLineRead, ClearHeader, DeliverTo, Begin
  <2> QED BY <2>1, <2>2, QuietSafely
<1>2. CASE UpdateLineRead(c) \/ RemoveLineRead(c) \/ CancelRead(c) \/ ApplyRead(c)
  <2>1. Kept(c) /\ Follows(c)
    BY <1>2, LineBeginsKept, LineBeginsFollow
  <2>2. UNCHANGED <<tables, mix>>
    BY <1>2 DEF UpdateLineRead, RemoveLineRead, CancelRead, ApplyRead, Begin
  <2> QED BY <2>1, <2>2, QuietSafely
<1>3. CASE CreateRefused(c) \/ UpdateLockLocation(c) \/ UpdateCheck(c)
  <2>1. Kept(c) /\ Follows(c)
    BY <1>3, PlainReceivingKept, UpdatePurchaseKept, HeadersFollow
  <2>2. UNCHANGED <<tables, mix>>
    BY <1>3 DEF CreateRefused, UpdateLockLocation, UpdateCheck, bounds
  <2> QED BY <2>1, <2>2, QuietSafely
<1>4. CASE UpdateLineLock(c) \/ UpdateLineCheck(c) \/ RemoveLineCheck(c)
  <2>1. Kept(c) /\ Follows(c)
    BY <1>0, <1>4, UpdateLineKept, RemoveLineKept, LineChecksFollow
  <2>2. UNCHANGED <<tables, mix>>
    BY <1>4 DEF UpdateLineLock, UpdateLineCheck, RemoveLineCheck, bounds
  <2> QED BY <2>1, <2>2, QuietSafely
<1>5. CASE \/ CancelLock(c) \/ CancelCheck(c)
           \/ ApplyLockLine(c) \/ ApplyLockApplication(c) \/ ApplyCheck(c)
  <2>1. Kept(c) /\ Follows(c)
    BY <1>0, <1>5, CancelKept, ApplyKept, LineChecksFollow
  <2>2. UNCHANGED <<tables, mix>>
    BY <1>5 DEF CancelLock, CancelCheck, ApplyLockLine, ApplyLockApplication, ApplyCheck, bounds
  <2> QED BY <2>1, <2>2, QuietSafely
<1>6. CASE CreateInsert(c) \/ AddLineInsert(c)
  BY <1>6, CreateSafely, AddLineSafely
<1>7. CASE UpdateWrite(c) \/ RemoveWrite(c) \/ RestorePurchase(c)
  BY <1>7, HeadersSafely
<1>8. CASE UpdateLineWrite(c) \/ RemoveLineWrite(c)
  BY <1>8, UpdateLineSafely, RemoveLineSafely
<1>9. CASE CancelWrite(c) \/ ApplyWrite(c)
  BY <1>9, CancelSafely, ApplySafely
<1> QED BY <1>1, <1>2, <1>3, <1>4, <1>5, <1>6, <1>7, <1>8, <1>9 DEF PurchaseStep

LEMMA ReceivingStepSafely ==
    ASSUME ProcurementInv, ProcurementInv', SafetyInv, NEW c \in Clients, ReceivingStep(c)
    PROVE  Safely
<1>0. Careful(client[c])
  BY CarefulOf
<1>1. CASE LinkRead(c) \/ UnlinkRead(c) \/ CreateAsset(c) \/ ReceiveUnits(c) \/ FromAssets(c)
  <2>1. Kept(c) /\ Follows(c)
    BY <1>0, <1>1, LineBeginsKept, ReceivingBeginsKept, LinkFollows, UnlinkFollows, UnitsFollow,
       FromAssetsFollow
  <2>2. UNCHANGED <<tables, mix>>
    BY <1>1 DEF LinkRead, UnlinkRead, CreateAsset, ReceiveUnits, FromAssets, Begin
  <2> QED BY <2>1, <2>2, QuietSafely
<1>2. CASE LinkCheck(c) \/ LinkAssets(c) \/ LinkApplied(c) \/ LinkWritten(c) \/ LinkEvent(c)
  <2>1. Kept(c) /\ Follows(c)
    BY <1>0, <1>2, LinkKept, LinkFollows
  <2>2. UNCHANGED <<tables, mix>>
    BY <1>2 DEF LinkCheck, LinkAssets, LinkApplied, LinkWritten, LinkEvent, bounds
  <2> QED BY <2>1, <2>2, QuietSafely
<1>3. CASE \E op \in {"link", "unlink", "from assets"} : LockAssets(c, op)
  <2>1. Kept(c) /\ Follows(c)
    BY <1>0, <1>3, LinkKept, PlainReceivingKept, LockAssetsFollow
  <2>2. UNCHANGED <<tables, mix>>
    BY <1>3 DEF LockAssets, bounds
  <2> QED BY <2>1, <2>2, QuietSafely
<1>4. CASE \/ UnitCheck(c) \/ UnitsEvent(c) \/ UnlinkAssets(c) \/ FromAssetsCheck(c)
           \/ FromAssetsRefused(c) \/ FromAssetsGather(c) \/ FromAssetsModel(c)
  <2>1. Kept(c) /\ Follows(c)
    BY <1>0, <1>4, PlainReceivingKept, UnitsFollow, UnlinkFollows, FromAssetsFollow
  <2>2. UNCHANGED <<tables, mix>>
    BY <1>4 DEF UnitCheck, UnitsEvent, UnlinkAssets, FromAssetsCheck, FromAssetsRefused,
                FromAssetsGather, FromAssetsModel, bounds
  <2> QED BY <2>1, <2>2, QuietSafely
<1>5. CASE LinkCommit(c) \/ UnlinkCommit(c)
  BY <1>5, LinkSafely, UnlinkSafely
<1>6. CASE UnitInsert(c) \/ FromAssetsCommit(c)
  BY <1>6, UnitSafely, FromAssetsSafely
<1> QED BY <1>1, <1>2, <1>3, <1>4, <1>5, <1>6 DEF ReceivingStep

LEMMA PlaceStepSafely ==
    ASSUME ProcurementInv, ProcurementInv', SafetyInv, NEW c \in Clients, PlaceStep(c)
    PROVE  Safely
<1>0. Careful(client[c]) /\ TreeSound
  BY CarefulOf
<1>1. CASE Reparent(c) \/ DeleteLocation(c) \/ DeleteModel(c) \/ MoveAsset(c) \/ ChangeModel(c)
  <2>1. Kept(c) /\ Follows(c)
    BY <1>0, <1>1, PlaceBeginsKept, ReparentFollows, DeleteBeginsFollow, ModelDeletesFollow, AssetFollows
  <2>2. UNCHANGED <<tables, mix>>
    BY <1>1 DEF Reparent, DeleteLocation, DeleteModel, MoveAsset, ChangeModel, Begin
  <2> QED BY <2>1, <2>2, QuietSafely
<1>2. CASE DeleteLockTree(c) \/ DeleteRefused(c) \/ ReparentCheck(c)
  <2>1. Kept(c) /\ Follows(c)
    BY <1>0, <1>2, DeletesKept, DeleteBeginsFollow, ReparentFollows
  <2>2. UNCHANGED <<tables, mix>>
    BY <1>2 DEF DeleteLockTree, DeleteRefused, ReparentCheck, bounds
  <2> QED BY <2>1, <2>2, QuietSafely
<1>3. CASE \/ DeleteLockRow(c) \/ DeleteLockChild(c) \/ DeleteScanPurchases(c)
           \/ DeleteLockPurchase(c) \/ DeleteScanAssets(c) \/ DeleteLockAsset(c)
  <2>1. Kept(c) /\ Follows(c)
    BY <1>0, <1>3, DeletesKept, DeleteScansFollow, DeleteLocksFollow
  <2>2. UNCHANGED <<tables, mix>>
    BY <1>3 DEF DeleteLockRow, DeleteLockChild, DeleteScanPurchases, DeleteLockPurchase,
         DeleteScanAssets, DeleteLockAsset, bounds
  <2> QED BY <2>1, <2>2, QuietSafely
<1>4. CASE \/ ModelLockRow(c) \/ ModelScanPurchases(c) \/ ModelLockPurchase(c) \/ ModelScanAssets(c)
           \/ ModelLockAsset(c) \/ ModelScanLines(c) \/ ModelLockLine(c) \/ ModelRefused(c)
  <2>1. Kept(c) /\ Follows(c)
    BY <1>4, ModelDeletesKept, ModelDeletesFollow
  <2>2. UNCHANGED <<tables, mix>>
    BY <1>4 DEF ModelLockRow, ModelScanPurchases, ModelLockPurchase, ModelScanAssets,
         ModelLockAsset, ModelScanLines, ModelLockLine, ModelRefused, bounds
  <2> QED BY <2>1, <2>2, QuietSafely
<1>5. CASE AssetLockLocation(c) \/ AssetCheck(c)
  <2>1. Kept(c) /\ Follows(c)
    BY <1>0, <1>5, PlainReceivingKept, AssetFollows
  <2>2. UNCHANGED <<tables, mix>>
    BY <1>5 DEF AssetLockLocation, AssetCheck, bounds
  <2> QED BY <2>1, <2>2, QuietSafely
<1>6. CASE CreateLocation(c) \/ RestoreLocation(c) \/ ReparentWrite(c)
  BY <1>6, CreateLocationSafely, RestoreLocationSafely, ReparentSafely
<1>7. CASE DeleteCommit(c) \/ ModelCommit(c) \/ RestoreModel(c)
  BY <1>7, DeleteCommitSafely, ModelCommitSafely, ItemsSafely
<1>8. CASE RemoveAsset(c) \/ RestoreAsset(c) \/ AssetWrite(c)
  BY <1>8, SwitchAssetSafely, MoveAssetSafely
<1> QED BY <1>1, <1>2, <1>3, <1>4, <1>5, <1>6, <1>7, <1>8 DEF PlaceStep

LEMMA StutterSafely ==
    ASSUME SafetyInv, UNCHANGED procurementVars
    PROVE  Safely
<1>1. /\ UNCHANGED <<tables, mix>> /\ client' = client
      /\ purchases' = purchases /\ lines' = lines /\ assets' = assets /\ locations' = locations
  BY DEF procurementVars, tables
<1>2. ASSUME NEW d \in Clients PROVE Careful(client[d])'
  <2>1. \E y : y = client'[d] /\ Careful(y)
    BY <1>1, CarefulOf
  <2> QED BY <1>1, <2>1, SameCareful
<1>3. TreeSound'
  BY <1>1 DEF SafetyInv, TreeSound, Forest
<1>4. StrandsNothing /\ CancelsNothing
  BY <1>1 DEF StrandsNothing, CancelsNothing, CancelsNothingHere, LocationLive
<1> QED BY <1>2, <1>3, <1>4 DEF Safely, SafetyInv

LEMMA NextSafely ==
    ASSUME ProcurementInv, ProcurementInv', SafetyInv, [Next]_procurementVars
    PROVE  Safely
<1>1. ASSUME NEW c \in Clients, Work(c)
      PROVE  Safely
  BY <1>1, StockStepSafely, PurchaseStepSafely, ReceivingStepSafely, PlaceStepSafely DEF Work
<1>2. ASSUME NEW c \in Clients, Fail(c)
      PROVE  Safely
  <2>1. End(c) /\ UNCHANGED <<tables, mix>>
    BY <1>2 DEF Fail
  <2> QED BY <2>1, InvOf, Ends, EndFollows, QuietSafely
<1>3. CASE UNCHANGED procurementVars
  BY <1>3, StutterSafely
<1> QED BY <1>1, <1>2, <1>3 DEF Next

LEMMA InitSafe ==
    ASSUME Init
    PROVE  SafetyInv
<1>1. \A c \in Clients : client[c] = Idle
  BY DEF Init
<1>2. Idle.op = "none"
  BY DEF Idle
<1>3. \A c \in Clients : Careful(client[c])
  BY <1>1, <1>2, Untroubled
<1>4. TreeSound
  BY StartsAssumption DEF Init, TreeSound
<1> QED BY <1>3, <1>4 DEF SafetyInv

\* What every request has locked and read of the rows it is about to write is
\* still so when it writes them, whatever the other handlers do meanwhile.
THEOREM SafetyKept == Spec => []SafetyInv
<1>1. Init => SafetyInv
  BY InitSafe
<1>2. ProcurementInv /\ ProcurementInv' /\ SafetyInv /\ [Next]_procurementVars => SafetyInv'
  BY NextSafely DEF Safely
<1> QED BY <1>1, <1>2, ProcurementKept, PTL DEF Spec

\* The locations stay a forest with nothing live below anything archived,
\* whatever creates, moves, deletes and restores of locations cross (#845:
\* lockLocationTree).
THEOREM TreeStaysSound == Spec => []TreeSound
<1>1. SafetyInv => TreeSound
  BY DEF SafetyInv
<1> QED BY <1>1, SafetyKept, PTL

\* The delete of a location leaves no live asset and no open purchase there, and
\* nothing is sent to a location that is being deleted (LocationsService.remove,
\* #1604), with the restored assets and the reopened purchases left out.
THEOREM NothingIsStranded == Spec => NothingStranded
<1>1. ProcurementInv /\ ProcurementInv' /\ SafetyInv /\ [Next]_procurementVars => StrandsNothing
  BY NextSafely DEF Safely
<1>2. [][StrandsNothing]_procurementVars => NothingStranded
  BY PTL DEF StrandsNothing, NothingStranded
<1> QED BY <1>1, <1>2, SafetyKept, ProcurementKept, PTL DEF Spec

\* Cancelling what is left of a line cancels no unit that has arrived, and none
\* twice (PurchaseLinesService.cancelRemaining), with restored assets left out.
THEOREM CancelNeverOvertakes == Spec => NeverCancelsArrived
<1>1. ProcurementInv /\ ProcurementInv' /\ SafetyInv /\ [Next]_procurementVars => CancelsNothing
  BY NextSafely DEF Safely
<1>2. [][CancelsNothing]_procurementVars => NeverCancelsArrived
  BY PTL DEF CancelsNothing, CancelsNothingHere, NeverCancelsArrived
<1> QED BY <1>1, <1>2, SafetyKept, ProcurementKept, PTL DEF Spec
=============================================================================
