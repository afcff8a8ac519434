SPECIFICATION LiveSpec
CONSTANTS
    v1 = v1
    v2 = v2
    u1 = u1
    u2 = u2
    k1 = k1
    k2 = k2
    k3 = k3
    c1 = c1
    c2 = c2
    o1 = o1
    o2 = o2
    o3 = o3
    Users = {u1}
    Keys = {k1}
    Orders = {o1, o2}
    Calls = {c1, c2}
    Variants = {v1, v2}
    Carts <- LongCarts
    InitialStock <- TwoPieces
    MaxMinute = 1
    Impatient = FALSE
    NoKey = NoKey
    NoOrder = NoOrder
    Nobody = Nobody
INVARIANTS
    OneOrderPerAttempt
PROPERTIES
    CallsEnd
CHECK_DEADLOCK FALSE
