SPECIFICATION Spec
CONSTANTS
    s1 = s1
    s2 = s2
    s3 = s3
    k1 = k1
    k2 = k2
    revoke = revoke
    hint = hint
    None = None
    Subs = {s1, s2}
    Keys = {k1}
    KeyOf <- MCKeyOf
    Expiring = {}
    Changes = {revoke, hint}
    ScopeOf <- MCScopeOf
    RevokedBy <- MCRevokedBy
    ByOwner = {revoke}
SYMMETRY SharedKey
INVARIANTS
    RegistrySound
    JoinedMeansGone
    RevocationNotLost
    ChangedWaitsOnSomebody
PROPERTIES
    HintsDoNotWithdraw
CHECK_DEADLOCK FALSE
