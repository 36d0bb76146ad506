SPECIFICATION Spec
CONSTANTS
    r1 = r1
    r2 = r2
    x1 = x1
    Own = {r1, r2}
    Outside = {x1}
    Paid = 2
    Amounts = {1}
    DisputeAmount = 1
    s1 = s1
    s2 = s2
    a1 = a1
    a2 = a2
    Sweeps = {s1}
    Staff = {a1}
    NoOne = NoOne
    Divergences = {"stale hand"}
    MaxFaults = 1
INVARIANT NeverOverPaid
SYMMETRY Symmetry
CHECK_DEADLOCK FALSE
