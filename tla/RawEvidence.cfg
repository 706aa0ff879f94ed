SPECIFICATION Spec
CONSTANTS
    r1 = r1
    r2 = r2
    r3 = r3
    t1 = t1
    t2 = t2
    run = run
    None = None
    Owner = Owner
    Requests = {r1, r2, r3}
    ScopeOf <- MCScopeOf
    Terminals = {t1, t2}
    TerminalOf <- MCTerminalOf
    Flushing = {t1}
    Captures = {r3}
    Charge <- MCCharge
    Growth = 1
    Scratch = 1
    RecordLimit = 3
    ByteLimit = 7
    QueueLimit = 2
    BatchLimit = 2
    BatchBytes = 4
    MaxPauses = 1
    MaxClears = 1
INVARIANTS
    MemoryBounded
    WatermarksTrue
    NobodyStranded
    TerminalFence
    StorageAlone
CONSTRAINT MCFocus
SYMMETRY SamePath
CHECK_DEADLOCK FALSE
