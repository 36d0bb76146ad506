SPECIFICATION Spec
CONSTANTS
    Ordered = 2
    Backorders = {0, 1}
    Kinds = {"physical", "digital"}
    Divergences = {}
    MaxGroups = 3
    MaxParcels = 2
    MaxReturns = 2
    MaxEnsuring = 1
    MaxEvents = 1
INVARIANTS TypeOK UnitsAccounted StockBacked StatusFollowsGoods ReturnedOnce
CHECK_DEADLOCK FALSE
