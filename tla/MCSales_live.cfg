SPECIFICATION FairSpec
CONSTANTS
    Workers = {w1, w2}
    Operators = {w2}
    Intents = {i1}
    NoIntent = NoIntent
    Outcomes = {"processing", "succeeded", "odd"}
    Divergences = {}
    MaxFaults = 1
PROPERTIES PendingEnds MoneyEnds
CHECK_DEADLOCK FALSE
