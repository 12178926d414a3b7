SPECIFICATION Spec
CONSTANTS
    Workers = {w1, w2}
    CertFiles <- OneCert
    KeyFiles <- OneKey
    KeyOf <- OneKeyOf
    Attempts = 5
    CacheTimeout = 1
    ExpirationTimeout = 1
    ErrorTimeout = 1
    MaxPairs = 2
    NotAfter <- TwoExpire
    DiskFaults = {}
    MaxClock = 0
    Recommenders <- MixedRecommenders
    HostOf <- SameHost
    Defaults <- CaFlags
INVARIANT OwnConfiguration
