SPECIFICATION FairSpec
CONSTANTS
    None = None
    d1 = d1
    d2 = d2
    s1 = s1
    s2 = s2
    c1 = c1
    Callers <- TwoDeliveries
    Who <- TwoSubscribers
    Cimd <- OneUrl
    Listings = {"permission", "consent"}
    Lacking <- NoAccount
    Volatile <- ItsConsent
    RequestTimeout = 1
    AccessCache = 1
    MaxCache = 1
    MaxPages = 2
    Lifetime = 3
    Margin = 2
    MaxStray = 1
INVARIANTS
    TypeOK
    AllowedIsFresh
    DeniedHasEvidence
PROPERTIES
    CallsAnswered
    Recovers
