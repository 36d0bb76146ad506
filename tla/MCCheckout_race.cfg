SPECIFICATION Spec
CONSTANTS
    Products = {p1}
    Prices = {1, 2}
    Orders = {o1, o2}
    NoOrder = NoOrder
    Requests = {r1, r2}
    Writers = {w1, w2}
    Quantities = {1, 2}
    LineMax = 2
    OpenCap = 1
    Units = 2
    MaxBusy = 2
    MaxVersion = 3
    MaxFaults = 1
SYMMETRY Symmetry
INVARIANTS TypeOK CartSound HoldsFollowOrders
PROPERTIES OrderTakesCart
CHECK_DEADLOCK FALSE
