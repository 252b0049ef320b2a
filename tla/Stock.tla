------------------------------- MODULE Stock -------------------------------
(***************************************************************************)
(* ConsumablesService: the stock of a consumable and the ledger of its       *)
(* movements, and the receipts a purchase line posts through it.  Every      *)
(* consumable is returnable; a delivery goes to a location or an asset.       *)
(***************************************************************************)
EXTENDS ProcurementState

stockOthers == <<seats, purchases, lines, assets, locations, models>>

\* What the members of a set hold together, unit by unit.
Sum(S, holds) == Cardinality(UNION {{s} \X (1 .. holds[s]) : s \in S})

Quantity == [m \in DOMAIN movements |-> movements[m].n]

Returned(delivery) == Sum({m \in DOMAIN movements : movements[m].of = delivery}, Quantity)

\* receivedByLine, countReceived, receivedUnitsSql: derived from the records.
Received(l) ==
    CASE lines[l].kind = "CONSUMABLE" ->
           Sum({m \in DOMAIN movements : movements[m].line = l /\ movements[m].type = "IN"}, Quantity)
      [] lines[l].kind = "LICENSE" -> lines[l].applied
      [] OTHER -> Cardinality({a \in LiveAssets(Assets) : assets[a].line = l})

Countable(l) == lines[l].kind # "OTHER"

\* deriveLine: what is still to arrive.
Pending(l) ==
    LET open == lines[l].quantity - lines[l].cancelled - Received(l)
    IN  IF Countable(l) /\ open > 0 THEN open ELSE 0
-----------------------------------------------------------------------------
\* Mutant: the stock is read first and written without a lock.
NoItemRow(i) == {}

ItemRow(i) == Row("consumable", i, "no key update")

Movement(type, i, n) == [Idle EXCEPT !.op = "move", !.change = type, !.on = i, !.n = n]

PostIn(c) == \E i \in Items, n \in 1 .. Ceiling :
    Begin(c, "in", [Movement("IN", i, n) EXCEPT !.pc = "ceiling"])

PostOut(c) == \E i \in Items, n \in 1 .. Ceiling :
    Begin(c, "out", [Movement("OUT", i, n) EXCEPT !.pc = "stock", !.wants = ItemRow(i)])

PostAdjustment(c) == \E i \in Items, n \in 0 .. Ceiling :
    Begin(c, "adjust", [Movement("ADJUSTMENT", i, n) EXCEPT !.pc = "stock", !.wants = ItemRow(i)])

PostDelivery(c) == \E i \in Items, n \in 1 .. Ceiling,
                      row \in {"location"} \X Known(locations, Locations)
                             \cup {"asset"} \X Known(assets, Assets) :
    Begin(c, "deliver", [Movement("OUT", i, n) EXCEPT !.pc = "target", !.target = {row}])

\* assertTargetLive takes no lock.
CheckTarget(c) ==
    /\ Granted(c, "move", "target")
    /\ \E row \in client[c].target :
         LET live == IF row[1] = "location" THEN LocationLive(row[2])
                     ELSE assets[row[2]].state = "live"
         IN  IF live THEN Go(c, "stock", ItemRow(client[c].on)) ELSE End(c)
    /\ UNCHANGED <<tables, bounds>>

\* A return first locks the delivery it gives back.
\* Mutant: the delivery is only read.
NoDeliveryLock(m) == {}

DeliveryLock(m) == Row("movement", m, "update")

PostReturn(c) == \E m \in DOMAIN movements, n \in 1 .. Ceiling :
    Begin(c, "return", [Movement("IN", movements[m].item, n) EXCEPT
                          !.pc = "delivery", !.of = m, !.wants = DeliveryLock(m)])

LockReturnableDelivery(c) ==
    LET delivery == client[c].of
        returnable == /\ movements[delivery].target # {}
                      /\ client[c].n <= movements[delivery].n - Returned(delivery)
    IN  /\ Granted(c, "move", "delivery")
        /\ IF returnable THEN Go(c, "ceiling", {}) ELSE End(c)
        /\ UNCHANGED <<tables, bounds>>

\* receiveStock reads the line, then the movement's transaction locks the
\* purchase and reads the line again.
ReceiveStock(c) == \E l \in Lines, n \in 1 .. Ceiling :
    /\ LiveLine(l) /\ lines[l].kind = "CONSUMABLE" /\ lines[l].item # None
    /\ consumables[lines[l].item].live
    /\ Begin(c, "receive stock",
         [Movement("IN", lines[l].item, n) EXCEPT
            !.pc = "purchase", !.line = l,
            !.wants = Row("purchase", lines[l].purchase, "key share")])

ReceiveBeforeWrite(c) ==
    LET l == client[c].line IN
    /\ Granted(c, "move", "purchase")
    /\ IF LiveLine(l) /\ lines[l].kind = "CONSUMABLE" /\ lines[l].item = client[c].on
       THEN Go(c, "ceiling", {}) ELSE End(c)
    /\ UNCHANGED <<tables, bounds>>

\* An IN reads the live row for the ceiling, and increments by id afterwards.
ReadCeiling(c) ==
    LET row == consumables[client[c].on] IN
    /\ Granted(c, "move", "ceiling")
    /\ IF row.live /\ row.stock + client[c].n <= Ceiling
       THEN Go(c, "stock", ItemRow(client[c].on)) ELSE End(c)
    /\ UNCHANGED <<tables, bounds>>

\* The one statement that moves the stock.  An OUT and an ADJUSTMENT test the
\* row they lock; an IN does not, but a sum beyond the column is an error.
\* Mutant: an OUT does not test the stock.
AnyStock(row, request) == request.change = "IN" => row.stock + request.n <= Ceiling

Movable(row, request) ==
    CASE request.change = "IN" -> row.stock + request.n <= Ceiling
      [] request.change = "OUT" -> row.live /\ row.stock >= request.n
      [] request.change = "ADJUSTMENT" -> row.live

\* The movement is inserted next: its line, target and delivery must still be rows.
References(request) ==
    Row("line", request.line, "key share") \cup Row("movement", request.of, "key share")
    \cup {<<row[1], row[2], "key share">> : row \in request.target}

MovementRow(request) ==
    [type |-> request.change, item |-> request.on, n |-> request.n, of |-> request.of,
     line |-> request.line, target |-> request.target]

After(level, m) ==
    CASE m.type = "IN" -> level + m.n
      [] m.type = "OUT" -> level - m.n
      [] m.type = "ADJUSTMENT" -> m.n

\* The new stock is computed from the row as it is now, and seen at the commit.
MoveStock(c) ==
    LET row == consumables[client[c].on] IN
    /\ Granted(c, "move", "stock")
    /\ IF Movable(row, client[c])
       THEN client' = [client EXCEPT ![c] =
              [Onward(c, "insert", References(client[c]))
                 EXCEPT !.seen = After(row.stock, MovementRow(client[c]))]]
       ELSE End(c)
    /\ UNCHANGED <<tables, bounds>>

RecordMovement(c) ==
    /\ Granted(c, "move", "insert")
    /\ movements' = Append(movements, MovementRow(client[c]))
    /\ consumables' = [consumables EXCEPT ![client[c].on].stock = client[c].seen]
    /\ End(c)
    /\ UNCHANGED <<stockOthers, bounds>>

ArchiveItem(c) == \E i \in Items :
    /\ consumables[i].live
    /\ Single(c, "archive item", ItemRow(i))
    /\ consumables' = [consumables EXCEPT ![i].live = FALSE]
    /\ UNCHANGED <<movements, stockOthers>>

RestoreItem(c) == \E i \in Items :
    /\ ~ consumables[i].live
    /\ Single(c, "restore item", ItemRow(i))
    /\ consumables' = [consumables EXCEPT ![i].live = TRUE]
    /\ UNCHANGED <<movements, stockOthers>>

StockStep(c) ==
    \/ PostIn(c) \/ PostOut(c) \/ PostAdjustment(c) \/ PostDelivery(c) \/ CheckTarget(c)
    \/ PostReturn(c) \/ LockReturnableDelivery(c) \/ ReceiveStock(c) \/ ReceiveBeforeWrite(c)
    \/ ReadCeiling(c) \/ MoveStock(c) \/ RecordMovement(c) \/ ArchiveItem(c) \/ RestoreItem(c)
=============================================================================
