SPECIFICATION Spec
CONSTANTS
    Workers = {w1}
    CertFiles <- OneCert
    KeyFiles <- OneKey
    KeyOf <- OneKeyOf
    Attempts = 5
    CacheTimeout = 3
    ExpirationTimeout = 3
    ErrorTimeout = 1
    MaxPairs = 2
    NotAfter <- TwoExpire
    DiskFaults = {"slow"}
    MaxClock = 3
    Recommenders <- SameRecommenders
    HostOf <- TwoHosts
    Defaults <- Flags
INVARIANT ErrorsAreRetried
