SPECIFICATION Spec
CONSTANTS
    Workers = {w1, w2}
    Operators = {w1, w2}
    Intents = {i1, i2}
    NoIntent = NoIntent
    Outcomes = {"requires_action", "processing", "declined", "succeeded", "odd"}
    Divergences = {}
    MaxFaults = 1
SYMMETRY Symmetry
INVARIANTS TypeOK StockFollowsOrder MoneyMatched NeverServedAndRefunded PaidOnce
CHECK_DEADLOCK FALSE
