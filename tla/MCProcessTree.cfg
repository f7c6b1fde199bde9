SPECIFICATION FairTreeSpec
CONSTANTS
    MaxId = 5
    Signals = {9, 17}
    ExitCodes = {0}
    RoleHolders = {3, 4, 5}
INVARIANTS
    IndInv
PROPERTIES
    RunnableRuns
    OrphanReaped
    WaitReturns
