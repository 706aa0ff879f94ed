SPECIFICATION FairSpec
CONSTANTS
    s1 = s1
    s2 = s2
    s3 = s3
    k1 = k1
    k2 = k2
    revoke = revoke
    hint = hint
    None = None
    Subs = {s1, s2}
    Keys = {k1}
    KeyOf <- MCKeyOf
    Expiring = {k1}
    Changes = {}
    ScopeOf <- MCScopeOf
    RevokedBy <- MCRevokedBy
    ByOwner = {}
PROPERTIES
    Progress
CHECK_DEADLOCK FALSE
