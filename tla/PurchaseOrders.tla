--------------------------- MODULE PurchaseOrders ---------------------------
(***************************************************************************)
(* PurchaseOrdersService and PurchaseLicenseService.  A purchase is named    *)
(* when it has a supplier or a reference; every purchase of the model is a    *)
(* draft or ordered.  Events are rows that reference their purchase.          *)
(***************************************************************************)
EXTENDS Stock

purchaseOthers == <<stockTables, assets, locations, models>>

Kinds == {"ASSET", "CONSUMABLE", "LICENSE", "OTHER"}

PurchaseOf(l) == lines[l].purchase

LinesOf(p) == {l \in Lines : lines[l].state = "live" /\ lines[l].purchase = p}

NewLine(p, kind, item, model, n) ==
    [state |-> "live", purchase |-> p, kind |-> kind, item |-> item, model |-> model,
     quantity |-> n, cancelled |-> 0, applied |-> 0]

LineRow(l) == Row("line", l, "update")
Held(p) == Row("purchase", p, "key share")
Whole(p) == Row("purchase", p, "update")
Place(x) == Row("location", x, "share")
-----------------------------------------------------------------------------
\* create: the delivery location is locked and live until the commit; a
\* purchase without lines must be named.
CreateRead(c) == \E x \in Known(locations, Locations) \cup {None} :
    Begin(c, "create purchase", [Idle EXCEPT !.op = "create purchase", !.pc = "references",
                                             !.to = x, !.wants = Place(x)])

CreateRefused(c) ==
    /\ Granted(c, "create purchase", "references")
    /\ client[c].to # None /\ ~ LocationLive(client[c].to)
    /\ End(c)
    /\ UNCHANGED <<tables, bounds>>

CreateInsert(c) ==
    /\ Granted(c, "create purchase", "references")
    /\ client[c].to # None => LocationLive(client[c].to)
    /\ \E p \in Unused(purchases, Purchases), named \in BOOLEAN :
         /\ purchases' = [purchases EXCEPT ![p] =
              [state |-> "live", named |-> named, location |-> client[c].to]]
         /\ IF named THEN UNCHANGED lines
            ELSE \E l \in Unused(lines, Lines) :
                   lines' = [lines EXCEPT ![l] = NewLine(p, "ASSET", None, None, 1)]
    /\ End(c)
    /\ UNCHANGED <<purchaseOthers, bounds>>

\* Mutant: the purchase is read without a lock, and only the write takes one.
NoUpdateLock(p) == {}

UpdateLock(p) == Whole(p)

\* update: clears what names the purchase, or sets its delivery location, which
\* is locked before the purchase; an archived one is not locked.
ClearHeader(c) == \E p \in Known(purchases, Purchases) :
    Begin(c, "clear header", [Idle EXCEPT !.op = "update purchase", !.pc = "purchase",
                                          !.change = "clear", !.on = p, !.wants = UpdateLock(p)])

DeliverTo(c) == \E p \in Known(purchases, Purchases), x \in Known(locations, Locations) :
    Begin(c, "deliver to", [Idle EXCEPT !.op = "update purchase", !.pc = "location",
                                        !.change = "deliver", !.on = p, !.to = x,
                                        !.wants = Place(x)])

UpdateLockLocation(c) ==
    LET x == client[c].to
        next == IF LocationLive(x) THEN Onward(c, "purchase", UpdateLock(client[c].on))
                ELSE [client[c] EXCEPT !.pc = "purchase", !.wants = UpdateLock(client[c].on)]
    IN  /\ Granted(c, "update purchase", "location")
        /\ client' = [client EXCEPT ![c] = next]
        /\ UNCHANGED <<tables, bounds>>

UpdateCheck(c) ==
    LET p == client[c].on
        named == purchases[p].named /\ client[c].change = "deliver"
    IN  /\ Granted(c, "update purchase", "purchase")
        /\ IF purchases[p].state = "live" /\ (named \/ LinesOf(p) # {})
           THEN Go(c, "write", Place(client[c].to) \cup Row("purchase", p, "no key update"))
           ELSE End(c)
        /\ UNCHANGED <<tables, bounds>>

\* assertReferences looks at the location again.
UpdateWrite(c) ==
    LET p == client[c].on IN
    /\ Granted(c, "update purchase", "write")
    /\ purchases' =
         CASE client[c].change = "clear" -> [purchases EXCEPT ![p].named = FALSE]
           [] client[c].change = "deliver" /\ LocationLive(client[c].to) ->
                [purchases EXCEPT ![p].location = client[c].to]
           [] OTHER -> purchases
    /\ End(c)
    /\ UNCHANGED <<lines, purchaseOthers, bounds>>

\* remove and restore leave lines and links alone.
RemoveRead(c) == \E p \in Purchases :
    /\ purchases[p].state = "live"
    /\ Begin(c, "remove purchase", [Idle EXCEPT !.op = "remove purchase", !.pc = "write", !.on = p,
                                                !.wants = Row("purchase", p, "no key update")])

RemoveWrite(c) ==
    /\ Granted(c, "remove purchase", "write")
    /\ purchases' = [purchases EXCEPT ![client[c].on].state = "deleted"]
    /\ End(c)
    /\ UNCHANGED <<lines, purchaseOthers, bounds>>

RestorePurchase(c) == \E p \in Purchases :
    /\ purchases[p].state = "deleted"
    /\ Single(c, "restore purchase", Row("purchase", p, "no key update"))
    /\ purchases' = [purchases EXCEPT ![p].state = "live"]
    /\ UNCHANGED <<lines, purchaseOthers>>
-----------------------------------------------------------------------------
\* addLine reads the purchase, and the insert waits for whoever holds it whole.
AddLineRead(c) == \E p \in Purchases :
    /\ purchases[p].state = "live"
    /\ Begin(c, "add line", [Idle EXCEPT !.op = "add line", !.pc = "insert", !.on = p,
                                         !.wants = Held(p)])

AddLineInsert(c) ==
    /\ Granted(c, "add line", "insert")
    /\ \E l \in Unused(lines, Lines) :
         lines' = [lines EXCEPT ![l] = NewLine(client[c].on, "ASSET", None, None, 1)]
    /\ End(c)
    /\ UNCHANGED <<purchases, purchaseOthers, bounds>>

\* updateLine: the whole purchase for a new kind, so that no unit arrives
\* meanwhile; a share of it for the quantity or the model.
UpdateLineRead(c) ==
    \E l \in Known(lines, Lines), change \in {"change kind", "change quantity", "map line"} :
    Begin(c, change,
      [Idle EXCEPT !.op = "update line", !.pc = "purchase", !.change = change, !.line = l,
                   !.wants = IF change = "change kind" THEN Whole(PurchaseOf(l))
                             ELSE Held(PurchaseOf(l))])

UpdateLineLock(c) ==
    /\ Granted(c, "update line", "purchase")
    /\ Go(c, "line", LineRow(client[c].line))
    /\ UNCHANGED <<tables, bounds>>

\* The new value, when the line as it stands under its lock allows it.  A line
\* that is no longer a consumable's or an application's forgets its item.
NewKind(l) ==
    {[lines[l] EXCEPT !.kind = kind, !.item = None] :
       kind \in IF Received(l) = 0 THEN Kinds \ {lines[l].kind} ELSE {}}

\* What a line of a kind may be for, and what it may be mapped to.
ItemsOf(kind) == CASE kind = "CONSUMABLE" -> Items
                   [] kind = "LICENSE" -> Apps
                   [] OTHER -> {}

Mappable(kind) == {i \in ItemsOf(kind) : kind = "CONSUMABLE" => consumables[i].live}

NewQuantity(l) ==
    UNION {{[lines[l] EXCEPT !.quantity = n, !.cancelled = k] : k \in 0 .. n} : n \in 1 .. Ceiling}

NewMapping(l) ==
    {[lines[l] EXCEPT !.model = m] : m \in {None} \cup {k \in Models : models[k] = "live"}} \cup
    {[lines[l] EXCEPT !.item = i] : i \in {None} \cup Mappable(lines[l].kind)}

NewValue(l, change) ==
    CASE change = "change kind" -> NewKind(l)
      [] change = "change quantity" -> NewQuantity(l)
      [] change = "map line" -> NewMapping(l)

\* The new rows that a line will reference.
NewParents(old, row) ==
    (IF row.model = old.model THEN {} ELSE Row("model", row.model, "key share")) \cup
    (IF row.item = old.item \/ row.kind # "LICENSE" THEN {}
     ELSE Row("application", row.item, "key share"))

UpdateLineCheck(c) ==
    LET l == client[c].line IN
    /\ Granted(c, "update line", "line")
    /\ IF LiveLine(l) /\ NewValue(l, client[c].change) # {}
       THEN \E row \in NewValue(l, client[c].change) :
              client' = [client EXCEPT ![c] =
                [Onward(c, "write", NewParents(lines[l], row)) EXCEPT !.staged = {row}]]
       ELSE End(c)
    /\ UNCHANGED <<tables, bounds>>

UpdateLineWrite(c) ==
    /\ Granted(c, "update line", "write")
    /\ \E row \in client[c].staged : lines' = [lines EXCEPT ![client[c].line] = row]
    /\ End(c)
    /\ UNCHANGED <<purchases, purchaseOthers, bounds>>

\* removeLine holds the whole purchase from its checks to its commit.
RemoveLineRead(c) == \E l \in Known(lines, Lines) :
    Begin(c, "remove line", [Idle EXCEPT !.op = "remove line", !.pc = "purchase", !.line = l,
                                         !.wants = Whole(PurchaseOf(l))])

RemoveLineCheck(c) ==
    LET l == client[c].line
        identified == purchases[PurchaseOf(l)].named \/ LinesOf(PurchaseOf(l)) \ {l} # {}
    IN  /\ Granted(c, "remove line", "purchase")
        /\ IF LiveLine(l) /\ Received(l) = 0 /\ identified
           THEN Go(c, "write", Row("line", l, "no key update")) ELSE End(c)
        /\ UNCHANGED <<tables, bounds>>

RemoveLineWrite(c) ==
    /\ Granted(c, "remove line", "write")
    /\ lines' = [lines EXCEPT ![client[c].line].state = "deleted"]
    /\ End(c)
    /\ UNCHANGED <<purchases, purchaseOthers, bounds>>

\* Mutant: the line first, and the purchase only through the event.
LineFirst(l) == LineRow(l)

CancelFirst(l) == Held(PurchaseOf(l))

\* cancelRemaining: a share of the purchase, then the line.
CancelRead(c) == \E l \in Known(lines, Lines) :
    Begin(c, "cancel", [Idle EXCEPT !.op = "cancel", !.pc = "first", !.line = l,
                                    !.wants = CancelFirst(l)])

\* Mutant: the line is not locked.
CancelUnlocked(l) == Held(PurchaseOf(l))

CancelLocks(l) == LineRow(l) \cup Held(PurchaseOf(l))

CancelLock(c) ==
    LET l == client[c].line IN
    /\ Granted(c, "cancel", "first")
    /\ IF LiveLine(l) THEN Go(c, "line", CancelLocks(l)) ELSE End(c)
    /\ UNCHANGED <<tables, bounds>>

CancelCheck(c) ==
    LET l == client[c].line IN
    /\ Granted(c, "cancel", "line")
    /\ IF Pending(l) = 0 THEN End(c)
       ELSE \E n \in 1 .. Pending(l) :
              client' = [client EXCEPT ![c] =
                [Onward(c, "write", {}) EXCEPT !.seen = lines[l].cancelled + n]]
    /\ UNCHANGED <<tables, bounds>>

CancelWrite(c) ==
    /\ Granted(c, "cancel", "write")
    /\ lines' = [lines EXCEPT ![client[c].line].cancelled = client[c].seen]
    /\ End(c)
    /\ UNCHANGED <<purchases, purchaseOthers, bounds>>
-----------------------------------------------------------------------------
\* PurchaseLicenseService.apply: purchase, line, application, in that order.
ApplyRead(c) == \E l \in Known(lines, Lines), n \in 1 .. Ceiling :
    Begin(c, "apply seats", [Idle EXCEPT !.op = "apply seats", !.pc = "purchase", !.line = l,
                                         !.n = n, !.wants = Held(PurchaseOf(l))])

ApplyLockLine(c) ==
    /\ Granted(c, "apply seats", "purchase")
    /\ IF LiveLine(client[c].line) THEN Go(c, "line", LineRow(client[c].line)) ELSE End(c)
    /\ UNCHANGED <<tables, bounds>>

\* Mutant: the application is not locked.
NoAppRow(app) == {}

AppRow(app) == Row("application", app, "update")

ApplyLockApplication(c) ==
    LET row == lines[client[c].line] IN
    /\ Granted(c, "apply seats", "line")
    /\ IF row.kind = "LICENSE" /\ row.item # None
       THEN Go(c, "application", AppRow(row.item)) ELSE End(c)
    /\ UNCHANGED <<tables, bounds>>

ApplyCheck(c) ==
    LET row == lines[client[c].line]
        to == seats[row.item] + client[c].n
    IN  /\ Granted(c, "apply seats", "application")
        /\ IF to <= Ceiling /\ row.applied + client[c].n <= Ceiling
           THEN client' = [client EXCEPT ![c] = [Onward(c, "write", {}) EXCEPT !.seen = to]]
           ELSE End(c)
        /\ UNCHANGED <<tables, bounds>>

ApplyWrite(c) ==
    LET l == client[c].line IN
    /\ Granted(c, "apply seats", "write")
    /\ seats' = [seats EXCEPT ![lines[l].item] = client[c].seen]
    /\ lines' = [lines EXCEPT ![l].applied = @ + client[c].n]
    /\ End(c)
    /\ UNCHANGED <<consumables, movements, purchases, assets, locations, models, bounds>>

PurchaseStep(c) ==
    \/ CreateRead(c) \/ CreateRefused(c) \/ CreateInsert(c) \/ ClearHeader(c) \/ DeliverTo(c)
    \/ UpdateLockLocation(c) \/ UpdateCheck(c) \/ UpdateWrite(c)
    \/ RemoveRead(c) \/ RemoveWrite(c) \/ RestorePurchase(c)
    \/ AddLineRead(c) \/ AddLineInsert(c)
    \/ UpdateLineRead(c) \/ UpdateLineLock(c) \/ UpdateLineCheck(c) \/ UpdateLineWrite(c)
    \/ RemoveLineRead(c) \/ RemoveLineCheck(c) \/ RemoveLineWrite(c)
    \/ CancelRead(c) \/ CancelLock(c) \/ CancelCheck(c) \/ CancelWrite(c)
    \/ ApplyRead(c) \/ ApplyLockLine(c) \/ ApplyLockApplication(c) \/ ApplyCheck(c) \/ ApplyWrite(c)
=============================================================================
