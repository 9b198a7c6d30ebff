SPECIFICATION MCSpec
CONSTANTS
    u1 = u1
    u2 = u2
    e1 = e1
    e2 = e2
    Users = {u1, u2}
    Errands = {e1, e2}
    Amounts = {1, 2}
    InitialBalance = 3
    NoUser = NoUser
    Workers = {w1, w2}
    NoWorker = NoWorker
    NoErrand = NoErrand
    Registered = {u1, u2}
    Deliveries <- AllMessages
    Requests <- AllRequests
    AlwaysReady = FALSE
    MaxCrashes = 1
    MaxRows = 2
    LookupsMayFail = TRUE
PROPERTIES EveryMessageAnswered
