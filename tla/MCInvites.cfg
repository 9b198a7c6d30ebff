SPECIFICATION MCSpec
CONSTANTS
    Users = {u1, u2}
    Invites = {i1}
    Requests = {r1}
    NoRow = NoRow
    NoInvite = NoInvite
PROPERTIES
    SingleUse
CHECK_DEADLOCK FALSE
