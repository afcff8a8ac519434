\* A claim the code does not keep.
SPECIFICATION Spec
CONSTANTS
    o1 = o1
    o2 = o2
    p1 = p1
    p2 = p2
    p3 = p3
    x1 = x1
    x2 = x2
    f1 = f1
    f2 = f2
    v1 = v1
    Orders = {o1}
    Payments = {p1, p2, p3}
    Providers = {x1, x2}
    Proofs = {f1, f2}
    Variants = {v1}
    Need <- MeteredNeed
    Quantity <- MeteredQuantity
    InitialStock <- MeteredStock
    CardWindow = 2
    InstapayWindow = 3
    InstapayStale = 3
    ClaimLease = 1
    MaxNow = 5
    MaxTokens = 2
    NoProvider = NoProvider
INVARIANTS
    StockConserved
CHECK_DEADLOCK FALSE
