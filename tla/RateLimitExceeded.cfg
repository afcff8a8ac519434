SPECIFICATION Spec
CONSTANTS
    u1 = u1
    u2 = u2
    ip = ip
    init = init
    Users = {u1, u2}
    Addresses = {ip}
    Kinds = {init}
    Limit <- TwoTakes
    WindowSeconds <- TwoSeconds
    Retention = 3
    Epoch = 13
    MaxNow = 15
    MaxPrunes = 1
SYMMETRY Symmetry
INVARIANTS
    WithinLimit
CHECK_DEADLOCK FALSE
