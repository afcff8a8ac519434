\* Two orders that compete for stock, the expiry worker, and the messages of one.
SPECIFICATION NSpec
CONSTANTS
    o1 = o1
    o2 = o2
    p1 = p1
    p2 = p2
    p3 = p3
    x1 = x1
    x2 = x2
    f1 = f1
    f2 = f2
    v1 = v1
    Orders = {o1, o2}
    Payments = {p1, p2}
    Providers = {x1}
    Proofs = {}
    Variants = {v1}
    Need <- PlainLines
    Quantity <- PlainLines
    InitialStock <- ScarceStock
    CardWindow = 1
    InstapayWindow = 1
    InstapayStale = 1
    ClaimLease = 1
    MaxNow = 2
    MaxTokens = 1
    NoProvider = NoProvider
    Watched = {o1}
    Vaults <- MailOrPush
    MaxPosts = 2
INVARIANTS
    TypeOK
    StockConserved
    MessagesHold
    ToldOnce
PROPERTIES
    DueOrdersLeavePending
CHECK_DEADLOCK FALSE
