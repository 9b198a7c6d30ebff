SPECIFICATION MCSpec
CONSTANTS
    u1 = u1
    u2 = u2
    u3 = u3
    e1 = e1
    e2 = e2
    e3 = e3
    Users = {u1, u2, u3}
    Registered = {u1, u2}
    Errands = {e1, e2, e3}
    Amounts = {2}
    InitialBalance = 2
    NoUser = NoUser
    LossyErrands = {e1}
CHECK_DEADLOCK FALSE
INVARIANTS
    ActiveIsFunded
    PaidOnlyIfDelivered
    RefundedOnlyIfOver
PROPERTIES
    CancelledIsRefunded
    RecordedIsPaid
    OrphanIsRefunded
    AnsweredLeavesPending
