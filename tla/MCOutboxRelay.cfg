SPECIFICATION FairSpec
CONSTANTS
    Rows = {1, 2}
    OrderRows = {1}
    OrderProcs = {o1, o2}
    UserProcs = {u1}
    MaxRetries = 2
    MaxFaults = 3
    LoneCloses = {o1}
INVARIANTS
    OneCopyPerFault
PROPERTIES
    Implements
    RowsSettle
    ServiceRecovers
CHECK_DEADLOCK FALSE
