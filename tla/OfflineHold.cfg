SPECIFICATION FairSpec
CONSTANTS
    r1 = r1
    r2 = r2
    t1 = t1
    t2 = t2
    Requests = {r1, r2, r3}
    Actions = {a1, a2}
    Operators = {o1, o2}
    Targets = {t1, t2}
    TargetOf <- MCTargetOf
    SizeOf <- MCSizeOf
    MaxHeldRequests = 3
    MaxHeldBytes = 3
    ReleaseConcurrency = 2
INVARIANTS
    IndInv
    SafeToDisconnect
    HeldBytesExact
PROPERTIES
    ResumesInOrder
    ImplementsWindow
    Progress
