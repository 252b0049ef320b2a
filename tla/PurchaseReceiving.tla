------------------------- MODULE PurchaseReceiving -------------------------
(***************************************************************************)
(* PurchaseReceivingService and PurchaseFromAssetsService: assets linked to   *)
(* the line they arrived on, moved, unlinked, received as new units or        *)
(* gathered into a new purchase; and the two asset operations that create.    *)
(* A link keeps of the line's values the model it applies.                     *)
(***************************************************************************)
EXTENDS PurchaseOrders

receivingOthers == <<stockTables, purchases, lines, locations, models>>

AssetLine(l) == LiveLine(l) /\ lines[l].kind = "ASSET"

\* Mutant: nothing of the purchase is held.
NotHeld(p) == {}

LinkLock(p) == Held(p)

\* linkAssets (with or without moving them from another line) and
\* applyToLinked: the purchase, then the assets in the order of their ids.
LinkRead(c) == \E l \in Known(lines, Lines), S \in SUBSET Known(assets, Assets),
                  change \in {"link", "move link", "apply"} :
    /\ S # {}
    /\ Begin(c, change, [Idle EXCEPT !.op = "link", !.pc = "purchase", !.change = change,
                                     !.line = l, !.target = S,
                                     !.wants = LinkLock(PurchaseOf(l))])

\* The line's model, live or not, is read before the assets are locked.
LinkCheck(c) ==
    LET l == client[c].line IN
    /\ Granted(c, "link", "purchase")
    /\ \E to \in {lines[l].model} \cup (IF client[c].change = "apply" THEN {} ELSE {None}) :
         IF AssetLine(l)
         THEN client' = [client EXCEPT ![c] =
                Queued([Onward(c, "assets", {}) EXCEPT
                          !.to = to, !.n = IF to # None /\ models[to] = "live" THEN 1 ELSE 0],
                       "assets", "asset", "update", client[c].target)]
         ELSE End(c)
    /\ UNCHANGED <<tables, bounds>>

\* The rows are read once all are locked.
LockAssets(c, op) ==
    /\ Granted(c, op, "assets")
    /\ LockNext(c, "asset", "update", {})
    /\ UNCHANGED <<tables, bounds>>

\* The assets the request may write: live, and where it expects them.
Linkable(c, l) ==
    {a \in LiveAssets(client[c].target) :
       CASE client[c].change = "link" -> assets[a].line = None
         [] client[c].change = "move link" -> assets[a].line # l
         [] OTHER -> assets[a].line = l}

\* Applying a model that is archived refuses the whole request.
LinkAssets(c) ==
    LET rows == Linkable(c, client[c].line)
        applies == client[c].to # None /\ \E a \in rows : assets[a].model # client[c].to
    IN  /\ Granted(c, "link", "assets") /\ client[c].ids = {}
        /\ IF rows = {} \/ (applies /\ client[c].n = 0) THEN End(c)
           ELSE client' = [client EXCEPT ![c] =
                  [Onward(c, "model", IF applies THEN Row("model", client[c].to, "key share") ELSE {})
                     EXCEPT !.staged = rows]]
        /\ UNCHANGED <<tables, bounds>>

LinkApplied(c) ==
    /\ Granted(c, "link", "model")
    /\ Go(c, "line", IF client[c].change = "apply" THEN {}
                     ELSE Row("line", client[c].line, "key share"))
    /\ UNCHANGED <<tables, bounds>>

\* The events on the purchases the assets leave come last, in any order.
NextEvent(c, left) ==
    IF left = {} THEN client' = [client EXCEPT ![c] = Onward(c, "events", {})]
    ELSE \E p \in left :
           client' = [client EXCEPT ![c] = [Onward(c, "events", Held(p)) EXCEPT !.ids = left \ {p}]]

LinkWritten(c) ==
    /\ Granted(c, "link", "line")
    /\ NextEvent(c, {PurchaseOf(assets[a].line) : a \in {b \in client[c].staged : assets[b].line # None}})
    /\ UNCHANGED <<tables, bounds>>

LinkEvent(c) ==
    /\ Granted(c, "link", "events") /\ client[c].wants # {}
    /\ NextEvent(c, client[c].ids)
    /\ UNCHANGED <<tables, bounds>>

Linked(row, l, to) ==
    [row EXCEPT !.line = l, !.model = IF to = None THEN row.model ELSE to]

LinkCommit(c) ==
    /\ Granted(c, "link", "events") /\ client[c].wants = {}
    /\ assets' = [a \in Assets |-> IF a \in client[c].staged
                                   THEN Linked(assets[a], client[c].line, client[c].to)
                                   ELSE assets[a]]
    /\ End(c)
    /\ UNCHANGED <<receivingOthers, bounds>>

\* unlinkAssets reads the line without a lock; the purchase is reached through
\* the event, after the assets.
UnlinkRead(c) == \E l \in Lines, S \in SUBSET Known(assets, Assets) :
    /\ S # {} /\ LiveLine(l)
    /\ Begin(c, "unlink", Queued([Idle EXCEPT !.op = "unlink", !.change = "unlink", !.line = l,
                                              !.target = S], "assets", "asset", "update", S))

UnlinkAssets(c) ==
    LET rows == Linkable(c, client[c].line) IN
    /\ Granted(c, "unlink", "assets") /\ client[c].ids = {}
    /\ IF rows = {} THEN End(c)
       ELSE client' = [client EXCEPT ![c] =
              [Onward(c, "event", Held(PurchaseOf(client[c].line))) EXCEPT !.staged = rows]]
    /\ UNCHANGED <<tables, bounds>>

UnlinkCommit(c) ==
    /\ Granted(c, "unlink", "event")
    /\ assets' = [a \in Assets |-> IF a \in client[c].staged
                                   THEN [assets[a] EXCEPT !.line = None] ELSE assets[a]]
    /\ End(c)
    /\ UNCHANGED <<receivingOthers, bounds>>
-----------------------------------------------------------------------------
NewAsset(x, m, l) == [state |-> "live", location |-> x, model |-> m, line |-> l]

Unit(l, x, m, n) == [Idle EXCEPT !.op = "units", !.pc = "location", !.line = l, !.to = x,
                                 !.of = m, !.n = n, !.wants = Place(x)]

\* AssetsService.create.
CreateAsset(c) == \E x \in Known(locations, Locations) \cup {None}, m \in Models \cup {None} :
    Begin(c, "create asset", Unit(None, x, m, 1))

\* receiveFromLine checks the line once, without a lock, and then creates unit
\* after unit, each in a transaction of its own, by default where the purchase
\* is delivered.
ReceiveUnits(c) == \E l \in Lines, n \in 1 .. Cardinality(Assets) :
    LET x == purchases[PurchaseOf(l)].location IN
    /\ AssetLine(l) /\ lines[l].model # None /\ models[lines[l].model] = "live"
    /\ \E at \in {x, None} :
         /\ at # None => LocationLive(at)
         /\ Begin(c, "receive units", Unit(l, at, lines[l].model, n))

\* A unit that fails is left out, and the next one is tried.
NextUnit(c, created) ==
    LET request == client[c]
        made == request.seen + created
    IN  CASE request.n > 1 -> [Unit(request.line, request.to, request.of, request.n - 1)
                                 EXCEPT !.seen = made]
          [] request.n <= 1 /\ request.line # None /\ made > 0 ->
               [Idle EXCEPT !.op = "units", !.pc = "event", !.line = request.line,
                            !.wants = Held(PurchaseOf(request.line))]
          [] OTHER -> Idle

UnitCheck(c) ==
    LET request == client[c]
        usable == /\ request.to = None \/ LocationLive(request.to)
                  /\ request.of = None \/ models[request.of] = "live"
    IN  /\ Granted(c, "units", "location")
        /\ client' = [client EXCEPT ![c] =
             IF usable
             THEN Onward(c, "insert", Row("model", request.of, "key share")
                                      \cup Row("line", request.line, "key share"))
             ELSE NextUnit(c, 0)]
        /\ UNCHANGED <<tables, bounds>>

UnitInsert(c) ==
    /\ Granted(c, "units", "insert")
    /\ \E a \in Unused(assets, Assets) :
         assets' = [assets EXCEPT ![a] = NewAsset(client[c].to, client[c].of, client[c].line)]
    /\ client' = [client EXCEPT ![c] = NextUnit(c, 1)]
    /\ UNCHANGED <<receivingOthers, bounds>>

UnitsEvent(c) ==
    /\ Granted(c, "units", "event")
    /\ End(c)
    /\ UNCHANGED <<tables, bounds>>
-----------------------------------------------------------------------------
\* PurchaseFromAssetsService.create: the new purchase is its own until the
\* commit; the assets that are on no line yet are grouped into its lines.
FromAssets(c) == \E S \in SUBSET Known(assets, Assets), x \in Known(locations, Locations) \cup {None} :
    /\ S # {}
    /\ Begin(c, "from assets", [Idle EXCEPT !.op = "from assets", !.pc = "references",
                                            !.change = "link", !.to = x, !.target = S,
                                            !.wants = Place(x)])

FromAssetsCheck(c) ==
    LET x == client[c].to IN
    /\ Granted(c, "from assets", "references")
    /\ IF x = None \/ LocationLive(x)
       THEN client' = [client EXCEPT ![c] =
              Queued(Onward(c, "assets", {}), "assets", "asset", "update", client[c].target)]
       ELSE End(c)
    /\ UNCHANGED <<tables, bounds>>

FromAssetsRefused(c) ==
    /\ Granted(c, "from assets", "assets") /\ client[c].ids = {}
    /\ Linkable(c, None) = {}
    /\ End(c)
    /\ UNCHANGED <<tables, bounds>>

\* The live models of the assets are read with them; each line that names one
\* then takes its row, in the order of the groups.
GroupModels(rows) == {m \in Models : models[m] = "live" /\ \E a \in rows : assets[a].model = m}

FromAssetsGather(c) ==
    LET rows == Linkable(c, None) IN
    /\ Granted(c, "from assets", "assets") /\ client[c].ids = {} /\ rows # {}
    /\ client' = [client EXCEPT ![c] = [Onward(c, "models", {}) EXCEPT !.ids = GroupModels(rows)]]
    /\ UNCHANGED <<tables, bounds>>

FromAssetsModel(c) ==
    /\ Granted(c, "from assets", "models")
    /\ \E m \in client[c].ids :
         client' = [client EXCEPT ![c] =
           [Onward(c, "models", Row("model", m, "key share")) EXCEPT !.ids = client[c].ids \ {m}]]
    /\ UNCHANGED <<tables, bounds>>

\* Assets of a model share a line; those of none are grouped by their names.
Grouped(rows, at) == \A a, b \in rows :
    /\ at[a] = at[b] => assets[a].model = assets[b].model
    /\ assets[a].model = assets[b].model /\ assets[a].model # None => at[a] = at[b]

\* A line names the model of its group if it was live when it was read.
GroupLine(c, p, group) ==
    LET model == assets[CHOOSE a \in group : TRUE].model
        mapped == Row("model", model, "key share") \subseteq client[c].locks \cup client[c].wants
    IN  NewLine(p, "ASSET", None, IF mapped THEN model ELSE None, Cardinality(group))

\* The assets are its own: the rows are those it read.
FromAssetsCommit(c) ==
    LET rows == Linkable(c, None) IN
    /\ Granted(c, "from assets", "models") /\ client[c].ids = {} /\ rows # {}
    /\ \E p \in Unused(purchases, Purchases), at \in [rows -> Lines \ Known(lines, Lines)] :
         /\ Grouped(rows, at)
         /\ purchases' = [purchases EXCEPT ![p] =
              [state |-> "live", named |-> FALSE, location |-> client[c].to]]
         /\ lines' = [l \in Lines |->
              LET group == {a \in rows : at[a] = l}
              IN  IF group = {} THEN lines[l] ELSE GroupLine(c, p, group)]
         /\ assets' = [a \in Assets |-> IF a \in rows THEN [assets[a] EXCEPT !.line = at[a]]
                                        ELSE assets[a]]
    /\ End(c)
    /\ UNCHANGED <<stockTables, locations, models, bounds>>

ReceivingStep(c) ==
    \/ LinkRead(c) \/ LinkCheck(c) \/ LinkAssets(c) \/ LinkApplied(c) \/ LinkWritten(c)
    \/ LinkEvent(c) \/ LinkCommit(c) \/ UnlinkRead(c) \/ UnlinkAssets(c) \/ UnlinkCommit(c)
    \/ CreateAsset(c) \/ ReceiveUnits(c) \/ UnitCheck(c) \/ UnitInsert(c) \/ UnitsEvent(c)
    \/ FromAssets(c) \/ FromAssetsCheck(c) \/ FromAssetsRefused(c)
    \/ FromAssetsGather(c) \/ FromAssetsModel(c) \/ FromAssetsCommit(c)
    \/ \E op \in {"link", "unlink", "from assets"} : LockAssets(c, op)
=============================================================================
