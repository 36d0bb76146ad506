SPECIFICATION Spec
CONSTANTS
    Ordered = 2
    Backorders = {1}
    Kinds = {"physical"}
    Divergences = {"stale allocation"}
    MaxGroups = 3
    MaxParcels = 2
    MaxReturns = 0
    MaxEnsuring = 2
    MaxEvents = 1
INVARIANT StockBacked
CHECK_DEADLOCK FALSE
