SPECIFICATION Spec
CONSTANTS
    l1 = l1
    l2 = l2
    s1 = s1
    s2 = s2
    m1 = m1
    Manual = {m1}
    None = None
    Empty = Empty
    Leases = {l1}
    Closers = {}
    Recreates = TRUE
    MaxRevision = 2
    MaxLine = 2
    MaxGen = 1
CHECK_DEADLOCK FALSE
PROPERTY OwnerNotOverwritten
