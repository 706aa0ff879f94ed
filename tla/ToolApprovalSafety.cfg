SPECIFICATION Spec
CONSTANTS
    w1 = w1
    w2 = w2
    w3 = w3
    c1 = c1
    c2 = c2
    group = group
    target = target
    None = None
    Asks = {w1, w2}
    ToolIntents = {}
    Owned = {}
    Commands = {c1, c2}
    Clears = TRUE
    Stops = TRUE
    MaxRestarts = 1
    StoreMayFail = TRUE
    KeyOf <- MCKeyOf
SYMMETRY Interchangeable
CHECK_DEADLOCK FALSE
INVARIANTS RowsReadable AnswersAreDecisions PendingHasAudience NobodyStranded ClearNotBlocked
PROPERTY TerminalIsFinal
