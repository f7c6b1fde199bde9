SPECIFICATION Spec
CONSTANTS
    MaxId = 4
    Signals = {9, 17}
    ExitCodes = {0}
    RoleHolders = {3}
INVARIANTS
    OneRunning
    NoLostChild
    ProcessTree
PROPERTIES
    EndsOnce
