SPECIFICATION MCSpec
CONSTANTS
    u1 = u1
    u2 = u2
    u3 = u3
    e1 = e1
    e2 = e2
    k1 = k1
    Users = {u1, u2, u3}
    Errands = {e1, e2}
    Amounts = {1}
    NoUser = NoUser
    Workers = {w1, w2, w3}
    Calls <- AllCalls
    Keys = {k1}
    NoKey = NoKey
    NoErrand = NoErrand
    Payable = {u2, u3}
SYMMETRY WorkerSymmetry
INVARIANTS
    EventsMatchStatus
    AnswersMatchOrder
    OneOrderPerKey
    CourierMatchesStatus
PROPERTIES
    ImplementsLifecycle
    NothingAfterDeadline
    MadeByParty
