SPECIFICATION FairSpec
CONSTANTS
    Programs = {p1, p2, p3}
    STREAMS = 1
    MAX_FDS_PER_TASK = 3
    PIPE_CAPACITY = 1
    MAX_SOCKETS = 1
    Lengths = {2}
    MaxFd = 3
    MaxPipes = 1
    MaxSockets = 1
    MaxBytes = 3
INVARIANTS
    EndsCounted
    CallHoldsEnd
    StreamIntact
PROPERTIES
    LastCloseUnblocks
CHECK_DEADLOCK FALSE
