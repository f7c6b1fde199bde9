SPECIFICATION Spec
CONSTANTS
    Kernel = {k1}
    Net = {n1}
    Programs = {p1}
    Driver = driver
    NoTask = none
    BLOCKS = 1
    Values = {1}
    POOL = 5
    MaxOps = 2
INVARIANTS
    PoolReturned
    SuccessIsReal
PROPERTIES
    TransferEnds
CHECK_DEADLOCK FALSE
