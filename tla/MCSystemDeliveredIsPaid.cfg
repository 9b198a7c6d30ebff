SPECIFICATION FairSpec
CONSTANTS
    Users = {u1, u2}
    Registered = {u1, u2}
    Errands = {e1}
    Amounts = {1}
    InitialBalance = 2
    NoUser = NoUser
    LossyErrands = {}
CHECK_DEADLOCK FALSE
PROPERTIES DeliveredIsPaid
