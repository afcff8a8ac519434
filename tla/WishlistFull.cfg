SPECIFICATION Spec
CONSTANTS
    d1 = d1
    a = a
    b = b
    c = c
    Devices = {d1}
    Items = {a, b, c}
    Capacity = 3
    MaxFailures = 0
    Shared = {}
SYMMETRY Symmetry
INVARIANTS
    WishesSurvive
CHECK_DEADLOCK FALSE
