SPECIFICATION Spec
CONSTANTS
    c1 = c1
    c2 = c2
    c3 = c3
    r1 = r1
    x1 = x1
    x2 = x2
    s1 = s1
    s2 = s2
    None = None
    Connections = {c1, c2, c3}
    Tools = {c3}
    Requests = {r1}
    ConnectionOf <- MCConnectionOf
    Applies = {x1, x2}
    Serves <- MCServes
    MaxHead = 3
    Closers = {s1, s2}
INVARIANTS
    OneAssignment
    DrainedIsQuiet
    AuthorityGone
PROPERTY
    AdmittedAreCurrent
CONSTRAINT MCFocus
SYMMETRY Interchangeable
CHECK_DEADLOCK FALSE
