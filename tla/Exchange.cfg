SPECIFICATION Spec

CONSTANTS
    e1 = e1
    e2 = e2
    e3 = e3
    Exchanges = {e1, e2, e3}
    Costs <- MCCosts
    KindsOf <- MCKindsOf
    ActiveBytes = 2
    MaxResends = 1

CONSTRAINT MCFocus
SYMMETRY Interchangeable

INVARIANTS
    OneAttemptPerClient
    ToolsWereAllowed
    CreditExact

\* a product that has stopped, and requests that are gone, do nothing more
CHECK_DEADLOCK FALSE
