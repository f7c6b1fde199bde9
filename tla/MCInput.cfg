SPECIFICATION FairSpec
CONSTANTS
    Readers = {"r1"}
    CAP = 3
    MaxBytes = 3
INVARIANTS
    TypeOK
    NoLostIrq
    OneBytePerWake
    Fifo
    NoStaleWaiter
PROPERTIES
    ByteIsRead
