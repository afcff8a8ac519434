SPECIFICATION PSpec
CONSTANTS
    o1 = o1
    p1 = p1
    p2 = p2
    p3 = p3
    x1 = x1
    x2 = x2
    r1 = r1
    r2 = r2
    v1 = v1
    Orders = {o1}
    Payments = {p1, p2, p3}
    Providers = {x1, x2}
    Proofs = {}
    Requests = {r1, r2}
    Variants = {v1}
    Need <- OneLine
    Quantity <- OneLine
    InitialStock <- OneInStock
    CardWindow = 3
    InstapayWindow = 3
    InstapayStale = 3
    ClaimLease = 1
    MaxNow = 4
    MaxTokens = 2
    NoProvider = NoProvider
    Nothing = Nothing
SYMMETRY ProcessSymmetry
INVARIANTS
    ProcessTypeOK
    OneProviderOrder
    KeysArePersisted
    ChargePaysItsOrder
    LiveChargesAccepted
PROPERTIES
    SubmittedClaimsKept
CHECK_DEADLOCK FALSE
