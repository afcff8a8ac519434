\* The instructions page opened from a link.
SPECIFICATION RehydratedSpec
CONSTANTS
    o1 = o1
    p1 = p1
    p2 = p2
    p3 = p3
    Orders = {o1}
    Order = o1
    Payments = {p1, p2, p3}
    Attempts = {a1}
    MaxUploads = 1
    NoRow = NoRow
INVARIANTS
    RehydratedResultsShown
CHECK_DEADLOCK FALSE
