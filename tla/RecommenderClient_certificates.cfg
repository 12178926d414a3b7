SPECIFICATION Spec
CONSTANTS
    Workers = {w1, w2}
    CertFiles <- OneCert
    KeyFiles <- OneKey
    KeyOf <- OneKeyOf
    Attempts = 3
    CacheTimeout = 1
    ExpirationTimeout = 1
    ErrorTimeout = 1
    MaxPairs = 3
    NotAfter <- ThreeExpire
    DiskFaults = {"missing"}
    MaxClock = 2
    Recommenders <- CertRecommender
    HostOf <- OneHost
    Defaults <- CaFlags
SYMMETRY AnyWorker
INVARIANTS
    FreshEnough
    RenewalIsInvisible
