--------------------------- MODULE MCProcurement ---------------------------
(***************************************************************************)
(* A small stockroom for TLC: two consumables, two licensed applications, two *)
(* purchases with two lines, two assets, three locations, two models, three    *)
(* request handlers.                                                             *)
(***************************************************************************)
EXTENDS Procurement, TLC

CONSTANTS toner, paper, suite, mail, c1, c2, c3

Bought(kind, item, model, n) ==
    [state |-> "live", purchase |-> 1, kind |-> kind, item |-> item, model |-> model,
     quantity |-> n, cancelled |-> 0, applied |-> 0]
NoLine == [Bought("OTHER", None, None, 1) EXCEPT !.state = "none"]
Order(named, x) == [state |-> "live", named |-> named, location |-> x]
NoOrder == [state |-> "none", named |-> FALSE, location |-> None]
Unit1(x, l, m) == [state |-> "live", location |-> x, line |-> l, model |-> m]
NoAsset == [state |-> "none", location |-> None, line |-> None, model |-> None]
Root == [state |-> "live", parent |-> None]
NoPlace == [state |-> "none", parent |-> None]

\* Nothing is bought, stored or placed yet; the requests come in three at most.
Base ==
    [consumables |-> [i \in Items |-> [live |-> TRUE, stock |-> 0]], movements |-> <<>>,
     purchases |-> <<Order(TRUE, 1), NoOrder>>, lines |-> <<NoLine, NoLine>>,
     assets |-> <<NoAsset, NoAsset>>, locations |-> <<Root, NoPlace, NoPlace>>,
     models |-> <<"live", "live">>, mix |-> {}]

Delivered ==
    <<[type |-> "IN", item |-> toner, n |-> 2, of |-> 0, line |-> None, target |-> {}],
      [type |-> "OUT", item |-> toner, n |-> 2, of |-> 0, line |-> None,
       target |-> {<<"location", 1>>}]>>

Stockroom ==
    {[Base EXCEPT !.mix = {"in", "out", "adjust"}],
     [Base EXCEPT !.assets = <<Unit1(None, None, None), NoAsset>>,
                  !.mix = {"in", "archive item", "restore item", "deliver"}],
     [Base EXCEPT !.movements = Delivered, !.mix = {"return", "out"}],
     [Base EXCEPT !.lines = <<Bought("CONSUMABLE", toner, None, 2), NoLine>>,
                  !.mix = {"receive stock", "remove line", "change kind", "map line"}],
     [Base EXCEPT !.lines = <<Bought("CONSUMABLE", toner, None, 2), NoLine>>,
                  !.mix = {"receive stock", "cancel", "change quantity"}],
     [Base EXCEPT !.lines = <<Bought("LICENSE", suite, None, 1), Bought("LICENSE", suite, None, 1)>>,
                  !.mix = {"apply seats", "remove line", "change kind"}],
     [Base EXCEPT !.lines = <<Bought("LICENSE", suite, None, 1), Bought("LICENSE", mail, None, 1)>>,
                  !.mix = {"apply seats", "map line", "remove line"}]}

Orders ==
    {[Base EXCEPT !.lines = <<Bought("ASSET", None, None, 1), Bought("OTHER", None, None, 1)>>,
                  !.purchases = <<Order(FALSE, None), NoOrder>>,
                  !.mix = {"clear header", "remove line"}],
     [Base EXCEPT !.lines = <<Bought("ASSET", None, None, 1), NoLine>>,
                  !.mix = {"clear header", "remove line", "add line"}],
     [Base EXCEPT !.mix = {"create purchase", "remove purchase", "restore purchase", "clear header"}],
     [Base EXCEPT !.lines = <<Bought("ASSET", None, None, 2), NoLine>>,
                  !.assets = <<Unit1(None, None, None), Unit1(None, None, None)>>,
                  !.mix = {"link", "unlink", "remove line", "change kind"}],
     [Base EXCEPT !.lines = <<Bought("ASSET", None, None, 2), NoLine>>,
                  !.assets = <<Unit1(None, None, None), Unit1(None, None, None)>>,
                  !.mix = {"link", "cancel", "change quantity"}],
     [Base EXCEPT !.lines = <<Bought("ASSET", None, 1, 2), NoLine>>,
                  !.mix = {"receive units", "cancel", "remove line"}],
     [Base EXCEPT !.assets = <<Unit1(None, None, None), Unit1(None, None, None)>>,
                  !.mix = {"from assets", "remove asset", "restore asset"}]}

TwoPlaces == <<Root, Root, NoPlace>>
Chain == <<Root, [Root EXCEPT !.parent = 1], NoPlace>>

Placing ==
    {[Base EXCEPT !.locations = TwoPlaces, !.assets = <<Unit1(1, None, None), NoAsset>>,
                  !.mix = {"delete location", "create asset"}],
     [Base EXCEPT !.locations = TwoPlaces, !.assets = <<Unit1(1, None, None), NoAsset>>,
                  !.mix = {"delete location", "move asset"}],
     [Base EXCEPT !.locations = TwoPlaces,
                  !.mix = {"delete location", "create purchase", "deliver to"}],
     [Base EXCEPT !.assets = <<Unit1(1, None, None), NoAsset>>,
                  !.purchases = <<NoOrder, NoOrder>>,
                  !.mix = {"delete location", "from assets"}],
     [Base EXCEPT !.locations = Chain, !.purchases = <<NoOrder, NoOrder>>,
                  !.mix = {"delete location", "reparent", "restore location", "create location"}],
     [Base EXCEPT !.locations = <<Root, Root, Root>>, !.purchases = <<NoOrder, NoOrder>>,
                  !.mix = {"reparent"}]}

Crossing ==
    {[Base EXCEPT !.locations = TwoPlaces,
                  !.lines = <<Bought("CONSUMABLE", toner, None, 2), NoLine>>,
                  !.consumables = [i \in Items |-> [live |-> TRUE, stock |-> IF i = toner THEN 1 ELSE 0]],
                  !.movements = <<Head(Delivered), [Delivered[2] EXCEPT !.n = 1]>>,
                  !.mix = {"delete location", "receive stock", "deliver"}],
     [Base EXCEPT !.locations = TwoPlaces,
                  !.purchases = <<Order(TRUE, 1), Order(TRUE, None)>>,
                  !.lines = <<Bought("ASSET", None, None, 2),
                              [Bought("ASSET", None, None, 2) EXCEPT !.purchase = 2]>>,
                  !.assets = <<Unit1(1, 1, None), NoAsset>>,
                  !.mix = {"delete location", "move link", "unlink"}],
     [Base EXCEPT !.lines = <<Bought("ASSET", None, 1, 2), NoLine>>,
                  !.assets = <<Unit1(None, 1, 1), Unit1(None, None, 2)>>,
                  !.mix = {"delete model", "apply", "map line"}],
     [Base EXCEPT !.lines = <<Bought("ASSET", None, 1, 2), NoLine>>,
                  !.assets = <<Unit1(None, 1, 1), Unit1(None, None, 2)>>,
                  !.mix = {"delete model", "change model", "restore model", "link"}],
     [Base EXCEPT !.assets = <<Unit1(None, None, 1), Unit1(None, None, 2)>>,
                  !.purchases = <<NoOrder, NoOrder>>,
                  !.mix = {"from assets", "delete model", "change model"}]}

Everything == Stockroom \cup Orders \cup Placing \cup Crossing

Symm == Permutations({c1, c2, c3})
=============================================================================
