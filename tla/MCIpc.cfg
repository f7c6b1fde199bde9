SPECIFICATION Spec
CONSTANTS
    Callers = {"c1", "c2"}
    Servers = {"s1"}
    Programs = {"p1"}
    Timeout = 2
    MaxMsgs = 3
    MaxTicks = 3
INVARIANTS
    EachMessageOnce
    SlotWhileCalling
    ReplyToOwnRequest
