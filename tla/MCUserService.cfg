SPECIFICATION MCSpec
CONSTANTS
    Users = {u1, u2}
    Invites = {i1}
    Requests = {r1, r2}
    NoRow = NoRow
    NoInvite = NoInvite
    Calls = {1, 2}
    Sought = {u1}
    MaxPending = 1
    MaxFaults = 1
INVARIANTS
    Truthful
PROPERTIES
    LostRightsFade
    CallsSettle
    QueriesLeave
CHECK_DEADLOCK FALSE
