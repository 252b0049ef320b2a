SPECIFICATION Spec
CONSTANTS
    toner = toner paper = paper suite = suite mail = mail c1 = c1 c2 = c2 c3 = c3
    Items = {toner, paper}
    Apps = {suite, mail}
    Purchases = {1, 2}
    Lines = {1, 2}
    Assets = {1, 2}
    Locations = {1, 2, 3}
    Models = {1, 2}
    Clients = {c1, c2, c3}
    Starts <- Everything
    Ceiling = 2
    MaxOps = 3
    MaxFaults = 1
SYMMETRY Symm
INVARIANTS TypeOK StockIsLedger ReturnsWithinDelivery SeatsAreApplied PurchaseIdentified ReceiptsMatchLine TreeSound OnlyDeletesDeadlock
PROPERTIES NeverCancelsArrived NothingStranded
CHECK_DEADLOCK FALSE
