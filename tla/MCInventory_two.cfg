SPECIFICATION Spec
CONSTANTS
    o1 = o1
    o2 = o2
    Products = {1, 2}
    Orders = {o1, o2}
    Requests <- TwoProductRequests
    Parcels = {}
    Losses = {}
    Deliveries = {1}
    Deletable = {}
    Caps = {1}
    NoCap = NoCap
    Faults = {"crash", "takeThrows", "giveBackThrows", "stall"}
    MaxFaults = 1
    MaxOnHand = 1
    MaxShrink = 1
    MaxOwed = 2
    MaxClock = 2
SYMMETRY OrderSymmetry
INVARIANTS NeverOversold HoldsBacked LedgerReplays
CHECK_DEADLOCK FALSE
