SPECIFICATION Spec
CONSTANTS
    o1 = o1
    o2 = o2
    Products = {1}
    Orders = {o1, o2}
    Requests <- OneProductRequests
    Parcels <- OneUnitParcels
    Losses <- OneUnitLosses
    Deliveries = {1}
    Deletable = {1}
    Caps = {NoCap}
    NoCap = NoCap
    Faults = {}
    MaxFaults = 0
    MaxOnHand = 2
    MaxShrink = 1
    MaxOwed = 2
    MaxClock = 2
SYMMETRY OrderSymmetry
INVARIANTS TypeOK HoldsBacked LedgerReplays QueueServed
PROPERTIES FirstPaidFirstServed
CHECK_DEADLOCK FALSE
