------------------------------- MODULE Places -------------------------------
(***************************************************************************)
(* LocationsService, the deletion and restore of AssetModelsService, and the   *)
(* asset operations that name a location or a model: what an archived parent   *)
(* leaves behind.  A delete comes with a resolution for the rows that still     *)
(* point at it: none (it is then refused), detach, or a move.                    *)
(***************************************************************************)
EXTENDS PurchaseReceiving

placeOthers == <<stockTables, purchases, lines, assets, models>>

Parent(x) == locations[x].parent

\* What a walk up from x meets, archived links included: x's parent, and with
\* every location the parent of that.
WalkedUp(x, S) == \A y \in S \cup {x} : Parent(y) \in S \cup {None}

\* hasAncestor.
IsBelow(x, y) == \A S \in SUBSET Locations : WalkedUp(x, S) => y \in S

Resolutions == {"none", "detach", "move"}

\* The tree lock, which every change of the hierarchy takes.
\* Mutant: it takes none.
NoTreeLock(x) == {}

TreeLock(x) == Tree
-----------------------------------------------------------------------------
CreateLocation(c) == \E x \in Unused(locations, Locations), y \in Locations \cup {None} :
    /\ y # None => LocationLive(y)
    /\ Single(c, "create location", IF y = None THEN {} ELSE TreeLock(x))
    /\ locations' = [locations EXCEPT ![x] = [state |-> "live", parent |-> y]]
    /\ UNCHANGED placeOthers

\* update with a parent (or None, to make it a root).
Reparent(c) == \E x \in Known(locations, Locations), y \in Known(locations, Locations) \cup {None} :
    Begin(c, "reparent", [Idle EXCEPT !.op = "reparent", !.pc = "tree", !.on = x, !.to = y,
                                      !.wants = TreeLock(x)])

ParentAssignable(x, y) == y = None \/ (y # x /\ LocationLive(y) /\ ~ IsBelow(y, x))

ReparentCheck(c) ==
    LET x == client[c].on IN
    /\ Granted(c, "reparent", "tree")
    /\ IF LocationLive(x) /\ ParentAssignable(x, client[c].to)
       THEN Go(c, "write", Row("location", x, "no key update")) ELSE End(c)
    /\ UNCHANGED <<tables, bounds>>

ReparentWrite(c) ==
    /\ Granted(c, "reparent", "write")
    /\ locations' = [locations EXCEPT ![client[c].on].parent = client[c].to]
    /\ End(c)
    /\ UNCHANGED <<placeOthers, bounds>>

RestoreLocation(c) == \E x \in Locations :
    /\ locations[x].state = "deleted"
    /\ Parent(x) # None => LocationLive(Parent(x))
    /\ Single(c, "restore location", TreeLock(x) \cup Row("location", x, "no key update"))
    /\ locations' = [locations EXCEPT ![x].state = "live"]
    /\ UNCHANGED placeOthers
-----------------------------------------------------------------------------
\* remove locks the tree, its own row, the children, the open purchases that
\* deliver here, and the assets here, in that order.
DeleteLocation(c) == \E x, y \in Known(locations, Locations), resolution \in Resolutions :
    /\ resolution # "move" => y = x
    /\ Begin(c, "delete location", [Idle EXCEPT !.op = "delete location", !.pc = "tree", !.on = x,
                                                !.to = y, !.change = resolution,
                                                !.wants = TreeLock(x)])

DeleteLockTree(c) ==
    /\ Granted(c, "delete location", "tree")
    /\ Go(c, "row", Row("location", client[c].on, "update"))
    /\ UNCHANGED <<tables, bounds>>

Children(x) == {y \in Locations : LocationLive(y) /\ Parent(y) = x}

DeleteLockRow(c) ==
    /\ Granted(c, "delete location", "row")
    /\ IF LocationLive(client[c].on)
       THEN client' = [client EXCEPT ![c] =
              Queued(Onward(c, "children", {}), "children", "location", "no key update",
                     Children(client[c].on))]
       ELSE End(c)
    /\ UNCHANGED <<tables, bounds>>

DeleteLockChild(c) ==
    /\ Granted(c, "delete location", "children")
    /\ LockNext(c, "location", "no key update", Children(client[c].on))
    /\ UNCHANGED <<tables, bounds>>

\* openPurchases: nothing of it is countable, or some of it is still to come.
OpenPurchase(p) ==
    LET countable == {l \in LinesOf(p) : Countable(l)} IN
    countable = {} \/ \E l \in countable : Pending(l) > 0

DeliversTo(x) == {p \in Purchases : purchases[p].state = "live" /\ purchases[p].location = x}

DeleteScanPurchases(c) ==
    LET open == {p \in DeliversTo(client[c].on) : OpenPurchase(p)} IN
    /\ Granted(c, "delete location", "children") /\ client[c].ids = {}
    /\ client' = [client EXCEPT ![c] =
         Queued(Onward(c, "purchases", {}), "purchases", "purchase", "update", open)]
    /\ UNCHANGED <<tables, bounds>>

DeleteLockPurchase(c) ==
    /\ Granted(c, "delete location", "purchases")
    /\ LockNext(c, "purchase", "update", DeliversTo(client[c].on))
    /\ UNCHANGED <<tables, bounds>>

PlacedAt(x) == {a \in LiveAssets(Assets) : assets[a].location = x}

DeleteScanAssets(c) ==
    /\ Granted(c, "delete location", "purchases") /\ client[c].ids = {}
    /\ client' = [client EXCEPT ![c] =
         Queued(Onward(c, "assets", {}), "assets", "asset", "update", PlacedAt(client[c].on))]
    /\ UNCHANGED <<tables, bounds>>

DeleteLockAsset(c) ==
    /\ Granted(c, "delete location", "assets")
    /\ LockNext(c, "asset", "update", PlacedAt(client[c].on))
    /\ UNCHANGED <<tables, bounds>>

\* What depends on a row needs a resolution; a move needs a live target that
\* is not the row itself nor below it.
MoveTarget(x, y) == y # x /\ LocationLive(y) /\ ~ IsBelow(y, x)

Resolved(c, targetOk) ==
    \/ client[c].staged = {} \/ client[c].change = "detach"
    \/ client[c].change = "move" /\ targetOk

Heir(c) == IF client[c].change = "move" THEN client[c].to ELSE None

DeleteRefused(c) ==
    /\ Granted(c, "delete location", "assets") /\ client[c].ids = {}
    /\ ~ Resolved(c, MoveTarget(client[c].on, client[c].to))
    /\ End(c)
    /\ UNCHANGED <<tables, bounds>>

DeleteCommit(c) ==
    LET x == client[c].on IN
    /\ Granted(c, "delete location", "assets") /\ client[c].ids = {}
    /\ Resolved(c, MoveTarget(x, client[c].to))
    /\ locations' = [y \in Locations |->
         IF y = x THEN [locations[y] EXCEPT !.state = "deleted"]
         ELSE IF y \in StagedOf(c, "location") THEN [locations[y] EXCEPT !.parent = Heir(c)]
         ELSE locations[y]]
    /\ purchases' = [p \in Purchases |->
         IF p \in StagedOf(c, "purchase") THEN [purchases[p] EXCEPT !.location = Heir(c)]
         ELSE purchases[p]]
    /\ assets' = [a \in Assets |->
         IF a \in StagedOf(c, "asset") THEN [assets[a] EXCEPT !.location = Heir(c)]
         ELSE assets[a]]
    /\ End(c)
    /\ UNCHANGED <<stockTables, lines, models, bounds>>
-----------------------------------------------------------------------------
(***************************************************************************)
(* AssetModelsService.remove: the model (and the target of a move), a share  *)
(* of the purchases, the assets, then the open lines that name it.            *)
(***************************************************************************)
DeleteModel(c) == \E m, k \in Models, resolution \in Resolutions :
    /\ resolution # "move" => k = m
    /\ Begin(c, "delete model",
         Queued([Idle EXCEPT !.op = "delete model", !.on = m, !.to = k, !.change = resolution],
                "models", "model", "update", {j \in {m, k} : models[j] = "live"}))

ModelLockRow(c) ==
    /\ Granted(c, "delete model", "models")
    /\ LockNext(c, "model", "update", {m \in Models : models[m] = "live"})
    /\ UNCHANGED <<tables, bounds>>

LinesNaming(m) == {l \in Lines : lines[l].state = "live" /\ lines[l].model = m}

ModelScanPurchases(c) ==
    /\ Granted(c, "delete model", "models") /\ client[c].ids = {}
    /\ IF client[c].on \in StagedOf(c, "model")
       THEN client' = [client EXCEPT ![c] =
              Queued([Onward(c, "purchases", {}) EXCEPT
                        !.seen = IF client[c].to \in StagedOf(c, "model") THEN 1 ELSE 0,
                        !.staged = {}],
                     "purchases", "purchase", "share",
                     {PurchaseOf(l) : l \in LinesNaming(client[c].on)})]
       ELSE End(c)
    /\ UNCHANGED <<tables, bounds>>

ModelLockPurchase(c) ==
    /\ Granted(c, "delete model", "purchases")
    /\ LockNext(c, "purchase", "share", {})
    /\ UNCHANGED <<tables, bounds>>

OfModel(m) == {a \in LiveAssets(Assets) : assets[a].model = m}

ModelScanAssets(c) ==
    /\ Granted(c, "delete model", "purchases") /\ client[c].ids = {}
    /\ client' = [client EXCEPT ![c] =
         Queued(Onward(c, "assets", {}), "assets", "asset", "update", OfModel(client[c].on))]
    /\ UNCHANGED <<tables, bounds>>

ModelLockAsset(c) ==
    /\ Granted(c, "delete model", "assets")
    /\ LockNext(c, "asset", "update", OfModel(client[c].on))
    /\ UNCHANGED <<tables, bounds>>

ModelScanLines(c) ==
    LET open == {l \in LinesNaming(client[c].on) : LiveLine(l) /\ Pending(l) > 0} IN
    /\ Granted(c, "delete model", "assets") /\ client[c].ids = {}
    /\ client' = [client EXCEPT ![c] =
         Queued(Onward(c, "lines", {}), "lines", "line", "update", open)]
    /\ UNCHANGED <<tables, bounds>>

ModelLockLine(c) ==
    /\ Granted(c, "delete model", "lines")
    /\ LockNext(c, "line", "update", LinesNaming(client[c].on))
    /\ UNCHANGED <<tables, bounds>>

ModelTarget(c) == client[c].to # client[c].on /\ client[c].seen = 1

ModelRefused(c) ==
    /\ Granted(c, "delete model", "lines") /\ client[c].ids = {}
    /\ ~ Resolved(c, ModelTarget(c))
    /\ End(c)
    /\ UNCHANGED <<tables, bounds>>

ModelCommit(c) ==
    /\ Granted(c, "delete model", "lines") /\ client[c].ids = {}
    /\ Resolved(c, ModelTarget(c))
    /\ models' = [models EXCEPT ![client[c].on] = "deleted"]
    /\ assets' = [a \in Assets |->
         IF a \in StagedOf(c, "asset") THEN [assets[a] EXCEPT !.model = Heir(c)] ELSE assets[a]]
    /\ lines' = [l \in Lines |->
         IF l \in StagedOf(c, "line") THEN [lines[l] EXCEPT !.model = Heir(c)] ELSE lines[l]]
    /\ End(c)
    /\ UNCHANGED <<stockTables, purchases, locations, bounds>>

\* Categories are left out.
RestoreModel(c) == \E m \in Models :
    /\ models[m] = "deleted"
    /\ Single(c, "restore model", Row("model", m, "no key update"))
    /\ models' = [models EXCEPT ![m] = "live"]
    /\ UNCHANGED <<stockTables, purchases, lines, assets, locations>>
-----------------------------------------------------------------------------
(***************************************************************************)
(* AssetsService.update (of the location, or of the model), remove, restore. *)
(***************************************************************************)
\* Mutant: the location is read without a lock.
AnyPlace(x) == {}

AssetPlace(x) == Place(x)

MoveAsset(c) == \E a \in Known(assets, Assets), x \in Known(locations, Locations) :
    Begin(c, "move asset", [Idle EXCEPT !.op = "asset", !.pc = "location", !.on = a, !.to = x,
                                        !.change = "location", !.wants = AssetPlace(x)])

\* seen: whether the location was live, and so is locked.
AssetLockLocation(c) ==
    LET x == client[c].to
        asset == Row("asset", client[c].on, "update")
    IN  /\ Granted(c, "asset", "location")
        /\ client' = [client EXCEPT ![c] =
             IF LocationLive(x) THEN [Onward(c, "asset", asset) EXCEPT !.seen = 1]
             ELSE [client[c] EXCEPT !.pc = "asset", !.wants = asset]]
        /\ UNCHANGED <<tables, bounds>>

ChangeModel(c) == \E a \in Known(assets, Assets), m \in Models :
    Begin(c, "change model", [Idle EXCEPT !.op = "asset", !.pc = "asset", !.on = a, !.to = m,
                                          !.change = "model", !.wants = Row("asset", a, "update")])

\* Keeping an archived location or model is not refused.
AssetCheck(c) ==
    LET request == client[c]
        row == assets[request.on]
        allowed == IF request.change = "location"
                   THEN request.to = row.location \/ request.seen = 1
                   ELSE request.to = row.model \/ models[request.to] = "live"
        parent == IF request.change = "model" /\ request.to # row.model
                  THEN Row("model", request.to, "key share") ELSE {}
    IN  /\ Granted(c, "asset", "asset")
        /\ IF row.state = "live" /\ allowed THEN Go(c, "write", parent) ELSE End(c)
        /\ UNCHANGED <<tables, bounds>>

AssetWrite(c) ==
    /\ Granted(c, "asset", "write")
    /\ assets' = IF client[c].change = "location"
                 THEN [assets EXCEPT ![client[c].on].location = client[c].to]
                 ELSE [assets EXCEPT ![client[c].on].model = client[c].to]
    /\ End(c)
    /\ UNCHANGED <<receivingOthers, bounds>>

RemoveAsset(c) == \E a \in Assets :
    /\ assets[a].state = "live"
    /\ Single(c, "remove asset", Row("asset", a, "no key update"))
    /\ assets' = [assets EXCEPT ![a].state = "deleted"]
    /\ UNCHANGED receivingOthers

\* Neither the location nor the line is looked at.
RestoreAsset(c) == \E a \in Assets :
    /\ assets[a].state = "deleted"
    /\ Single(c, "restore asset", Row("asset", a, "no key update"))
    /\ assets' = [assets EXCEPT ![a].state = "live"]
    /\ UNCHANGED receivingOthers

PlaceStep(c) ==
    \/ CreateLocation(c) \/ Reparent(c) \/ ReparentCheck(c) \/ ReparentWrite(c) \/ RestoreLocation(c)
    \/ DeleteLocation(c) \/ DeleteLockTree(c) \/ DeleteLockRow(c) \/ DeleteLockChild(c)
    \/ DeleteScanPurchases(c) \/ DeleteLockPurchase(c) \/ DeleteScanAssets(c)
    \/ DeleteLockAsset(c) \/ DeleteRefused(c) \/ DeleteCommit(c)
    \/ DeleteModel(c) \/ ModelLockRow(c) \/ ModelScanPurchases(c) \/ ModelLockPurchase(c)
    \/ ModelScanAssets(c) \/ ModelLockAsset(c) \/ ModelScanLines(c) \/ ModelLockLine(c)
    \/ ModelRefused(c) \/ ModelCommit(c) \/ RestoreModel(c)
    \/ MoveAsset(c) \/ AssetLockLocation(c) \/ ChangeModel(c) \/ AssetCheck(c) \/ AssetWrite(c)
    \/ RemoveAsset(c) \/ RestoreAsset(c)
=============================================================================
