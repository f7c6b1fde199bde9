SPECIFICATION CapSpec
CONSTANTS
    Holders = {"init", "driver", "program"}
    Objects = {"role", "port"}
    RootGrants <- MCRootGrants
    Requests <- MCRequests
    MaxSlots = 2
INVARIANTS
    CapTypeOK
    RightsMonotonic
PROPERTIES
    SlotStable
