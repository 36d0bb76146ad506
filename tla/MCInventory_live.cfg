SPECIFICATION FairSpec
CONSTANTS
    o1 = o1
    o2 = o2
    Products = {1, 2}
    Orders = {o1, o2}
    Requests <- ShelfRequests
    Parcels = {}
    Losses = {}
    Deliveries = {1}
    Deletable = {1}
    Caps = {}
    NoCap = NoCap
    Faults = {}
    MaxFaults = 0
    MaxOnHand = 1
    MaxShrink = 0
    MaxOwed = 0
    MaxClock = 1
PROPERTIES ReserveEnds DueHoldsEnd
CHECK_DEADLOCK FALSE
