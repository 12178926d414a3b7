SPECIFICATION FairSpec
CONSTANTS
    Int32Max = 1000
    NaN32 <- Int32Min
    Overflow32 <- Int32Min
    Second = 1
    Specs <- UnmarkedSpecs
    Replicas <- RepairReplicas
    Readings <- RecommendedReadings
    Faults = {}
    MaxClock = 0
    MaxEdits = 1
PROPERTY BoundsRestored
