SPECIFICATION FairSpec
CONSTANTS
    w1 = w1
    w2 = w2
    w3 = w3
    c1 = c1
    c2 = c2
    group = group
    target = target
    None = None
    Asks = {w1, w2}
    ToolIntents = {w1, w2}
    Owned = {w1, w2}
    Commands = {c1}
    Clears = FALSE
    Stops = TRUE
    MaxRestarts = 0
    StoreMayFail = FALSE
    KeyOf <- MCKeyOf
CHECK_DEADLOCK FALSE
PROPERTY Progress
INVARIANT RevokedCaptureIsQuiet
