SPECIFICATION ESpec
CONSTANTS
    u1 = u1
    u2 = u2
    ip = ip
    Users = {u1, u2}
    Admins = {u2}
    Addresses = {ip}
    Kinds = {"acct", "init", "proof", "cb"}
    Limit <- OneTake
    WindowSeconds <- TwoSeconds
    Retention = 3
    Epoch = 13
    MaxNow = 14
    MaxPrunes = 1
    MaxCalls = 2
    MaxDirect = 1
    Directs <- OneDirect
INVARIANTS
    MisconfiguredChangesNothing
    RefusalsHarmless
    DoneMeansDone
    EffectsEntitled
    RecordsHaveSubjects
    WorkMetered
    RefusedOnlyWhenSpent
    BudgetPerHousekeeping
CHECK_DEADLOCK FALSE
