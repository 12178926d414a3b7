SPECIFICATION SeriesFairSpec
CONSTANTS
    Int32Max = 1000
    NaN32 <- Int32Min
    Overflow32 <- Int32Min
    Second = 1
    UserSpecs <- InvalidSpecs
    MaxEdits = 2
    MaxLag = 2
    MaxCrashes = 0
    MaxMetrics = 1
PROPERTY DeletionAlwaysCompletes
CHECK_DEADLOCK FALSE
