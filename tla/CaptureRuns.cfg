SPECIFICATION RunsFairSpec
CONSTANTS
    Operations = {o1, o2}
    Drainers = {d1}
    Runs = {r1}
    Clears = {c1}
    Deleters = {x1}
    None = None
INVARIANTS
    DrainSafe
    RevokedForGood
    ClearSparesRunning
    FinishedIsSealed
PROPERTIES
    DrainEnds
CHECK_DEADLOCK FALSE
