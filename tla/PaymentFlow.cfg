\* One page, one order, overlapping attempts.
SPECIFICATION Spec
CONSTANTS
    o1 = o1
    p1 = p1
    p2 = p2
    p3 = p3
    Orders = {o1}
    Order = o1
    Payments = {p1, p2}
    Attempts = {a1, a2}
    MaxUploads = 1
    NoRow = NoRow
INVARIANTS
    FlowTypeOK
    SuccessIsReal
    NoDeadWait
    VerdictsAreNew
PROPERTIES
    WaitsEnd
