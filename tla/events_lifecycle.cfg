SPECIFICATION Spec
CONSTANTS
    i1 = i1
    i2 = i2
    p1 = p1
    p2 = p2
    u1 = u1
    s1 = s1
    s2 = s2
    t1 = t1
    t2 = t2
    k1 = k1
    k2 = k2
    r1 = r1
    r2 = r2
    None = None
    Unspecified = Unspecified
    Null = Null
    Id <- OneId
    Principal <- OnePrincipal
    Callback <- OneCallback
    Source <- OneSource
    Trace <- OneTrace
    Secret <- TwoSecrets
    Request <- OneRequest
    Owner <- AllOwnedByOne
    Url <- OneUrl
    Project <- OneProject
    Origin <- OneOrigin
    Wanted <- AllWanted
    Ttls <- DefaultOnly
    DefaultTtl = 2
    MinTtl = 1
    MaxTtl = 3
    RotationWindow = 1
    VerifyFor = 2
    MaxVerified = 4
    Cap = 1
    Attempts = 2
    MaxTime = 3
    Faults <- AllFaults
INVARIANTS
    TypeOK
    OnePostPastRevocation
    StopReachesDeliveries
    PollerArmed
    NoReplay
PROPERTIES
    DeliveredOnce
    SecretsHandOver
