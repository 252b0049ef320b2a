---------------------------- MODULE Procurement ----------------------------
(***************************************************************************)
(* Stock, purchases, receipts, assets, locations and models, worked on at    *)
(* the same time.                                                            *)
(***************************************************************************)
EXTENDS Places

CONSTANT Starts   \* tables a behaviour may start from, and the requests that come in then

States == {"none", "live", "deleted"}
Targets == {"location"} \X Locations \cup {"asset"} \X Assets

ConsumableRecord == [live : BOOLEAN, stock : 0 .. Ceiling]
MovementRecord == [type : {"IN", "OUT", "ADJUSTMENT"}, item : Items, n : 0 .. Ceiling,
                   of : Nat, line : Lines \cup {None}, target : SUBSET Targets]
PurchaseRecord == [state : States, named : BOOLEAN, location : Locations \cup {None}]
LineRecord == [state : States, purchase : Purchases, kind : Kinds,
               item : Items \cup Apps \cup {None}, model : Models \cup {None},
               quantity : 1 .. Ceiling, cancelled : 0 .. Ceiling, applied : 0 .. Ceiling]
AssetRecord == [state : States, location : Locations \cup {None}, model : Models \cup {None},
                line : Lines \cup {None}]
LocationRecord == [state : States, parent : Locations \cup {None}]

SoundLine(row) == row.cancelled <= row.quantity /\ row.item \in ItemsOf(row.kind) \cup {None}

\* The stock of a consumable is what its movements say, replayed in the order
\* of their ids; a recount sets the level anew.
Replays(rows, i, stock) ==
    \E level \in [0 .. Len(rows) -> 0 .. Ceiling] :
        /\ level[0] = 0
        /\ \A m \in DOMAIN rows :
             level[m] = IF rows[m].item = i THEN After(level[m - 1], rows[m]) ELSE level[m - 1]
        /\ level[Len(rows)] = stock

\* No locations lead back into themselves, archived links included, and nothing
\* live hangs below something archived.
Forest(rows) ==
    /\ \A S \in SUBSET Locations : S # {} => \E x \in S : rows[x].parent \notin S
    /\ \A x \in Locations : rows[x].state = "live" /\ rows[x].parent # None =>
         rows[rows[x].parent].state = "live"

\* A behaviour starts before anything was received, returned or applied: the
\* operations that do so are all modelled.
ASSUME StartsAssumption ==
    \A s \in Starts :
        /\ s.consumables \in [Items -> ConsumableRecord]
        /\ s.movements \in Seq(MovementRecord)
        /\ \A m \in DOMAIN s.movements : s.movements[m].of = None /\ s.movements[m].line = None
        /\ \A i \in Items : Replays(s.movements, i, s.consumables[i].stock)
        /\ s.purchases \in [Purchases -> PurchaseRecord]
        /\ s.lines \in [Lines -> LineRecord]
        /\ \A l \in Lines : SoundLine(s.lines[l]) /\ s.lines[l].applied = 0
        /\ \A p \in Purchases : s.purchases[p].state # "none" =>
             \/ s.purchases[p].named
             \/ \E l \in Lines : s.lines[l].state = "live" /\ s.lines[l].purchase = p
        /\ s.assets \in [Assets -> AssetRecord]
        /\ \A a \in Assets : s.assets[a].state = "live" /\ s.assets[a].line # None =>
             s.lines[s.assets[a].line].state = "live" /\ s.lines[s.assets[a].line].kind = "ASSET"
        /\ s.locations \in [Locations -> LocationRecord] /\ Forest(s.locations)
        /\ s.models \in [Models -> {"live", "deleted"}]

Init ==
    /\ \E s \in Starts :
         /\ consumables = s.consumables /\ movements = s.movements
         /\ seats = [app \in Apps |-> 0]
         /\ purchases = s.purchases /\ lines = s.lines /\ assets = s.assets
         /\ locations = s.locations /\ models = s.models
         /\ mix = s.mix
    /\ client = [c \in Clients |-> Idle]
    /\ ops = 0 /\ faults = 0

Work(c) == StockStep(c) \/ PurchaseStep(c) \/ ReceivingStep(c) \/ PlaceStep(c)

Next == \E c \in Clients : Work(c) \/ Fail(c)

Spec == Init /\ [][Next]_procurementVars
-----------------------------------------------------------------------------
\* The rows keep their types; a stock is never negative nor beyond its column,
\* no line has more units cancelled than ordered or an item of another kind, and
\* a return gives back an earlier movement.
TypeOK ==
    /\ consumables \in [Items -> ConsumableRecord]
    /\ movements \in Seq(MovementRecord)
    /\ \A m \in DOMAIN movements : movements[m].of < m
    /\ seats \in [Apps -> 0 .. Ceiling]
    /\ purchases \in [Purchases -> PurchaseRecord]
    /\ lines \in [Lines -> LineRecord]
    /\ \A l \in Lines : SoundLine(lines[l])
    /\ assets \in [Assets -> AssetRecord]
    /\ locations \in [Locations -> LocationRecord]
    /\ models \in [Models -> {"live", "deleted"}]

\* The stock of a consumable is what its movements say, whatever movements,
\* receipts and recounts cross (ADR-0034).
StockIsLedger == \A i \in Items : Replays(movements, i, consumables[i].stock)

\* No delivery is given back twice: its returns, however they cross, never add
\* up to more than was delivered (ADR-0098: lockReturnableDelivery).
ReturnsWithinDelivery ==
    \A m \in DOMAIN movements : movements[m].target # {} => Returned(m) <= movements[m].n

\* The applications hold the seats the lines say they applied, also when two
\* lines are applied at once (#1477): each those of its own lines, unless a line
\* is mapped to another application, which leaves its seats where they are.
SeatsInTotal == Sum(Apps, seats) = Sum(Lines, [l \in Lines |-> lines[l].applied])

SeatsPerApplication ==
    \A app \in Apps :
        seats[app] = Sum({l \in Lines : lines[l].item = app}, [l \in Lines |-> lines[l].applied])

SeatsAreApplied == SeatsInTotal /\ ("map line" \notin mix => SeatsPerApplication)

\* A purchase always has a supplier, a reference or a line that says what it
\* is: not lost between a header update and the removal of a line.
PurchaseIdentified ==
    \A p \in Purchases : purchases[p].state # "none" => purchases[p].named \/ LinesOf(p) # {}

\* What arrived stays on a live line of its kind: no unit is linked, received
\* into stock or applied on a line that is removed or changes its kind
\* meanwhile.  Units created by a receive, whose line is checked without a lock,
\* and assets restored later are left to the README.
ReceiptsMatchLine ==
    LET takes(l, kind) == lines[l].state = "live" /\ lines[l].kind = kind IN
    /\ \A m \in DOMAIN movements :
         movements[m].line # None => takes(movements[m].line, "CONSUMABLE")
    /\ \A l \in Lines : lines[l].applied > 0 => takes(l, "LICENSE")
    /\ mix \cap {"receive units", "restore asset"} = {} =>
         \A a \in LiveAssets(Assets) : assets[a].line # None => takes(assets[a].line, "ASSET")

\* Cancelling the rest of a line never cancels a unit that has arrived or was
\* cancelled meanwhile (cancelRemaining).  Restoring an asset on the line locks
\* nothing of it, and is left to the README.
NeverCancelsArrived ==
    [][\A c \in Clients :
         LET l == client[c].line IN
         client[c].op = "cancel" /\ client[c].pc = "write" /\ lines' # lines
           /\ "restore asset" \notin mix =>
             Received(l) + lines'[l].cancelled <= lines[l].quantity]_procurementVars

\* Deleting a location leaves no live asset and no open purchase there, and
\* nothing is sent to a location that is being deleted (#1604).  An asset that is
\* restored and a purchase that something else opens again while the delete
\* runs are left to the README.
Reopening == {"unlink", "move link", "remove asset", "change quantity", "change kind",
              "add line", "remove line", "restore purchase"}

NothingStranded ==
    [][/\ \A x \in Locations : LocationLive(x) /\ locations'[x].state # "live" =>
            /\ "restore asset" \notin mix => PlacedAt(x)' = {}
            /\ mix \cap Reopening = {} => \A p \in DeliversTo(x)' : ~ OpenPurchase(p)'
       /\ \A a \in Assets : LET x == assets'[a].location IN
            x \notin {assets[a].location, None} => locations'[x].state = "live"
       /\ \A p \in Purchases : LET x == purchases'[p].location IN
            x \notin {purchases[p].location, None} => locations'[x].state = "live"]_procurementVars

\* The hierarchy stays a forest, whatever moves, deletes and restores cross
\* (#845: lockLocationTree).
TreeSound == Forest(locations)

\* The lock orders of the purchase writes agree: requests that wait for one
\* another in a circle have a delete of a location or of a model among them.
OnlyDeletesDeadlock ==
    \A S \in SUBSET Clients : Deadlocked(S) =>
        \E c \in S : client[c].op \in {"delete location", "delete model"}
=============================================================================
