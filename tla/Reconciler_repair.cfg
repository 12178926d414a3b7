SPECIFICATION FairSpec
CONSTANTS
    Int32Max = 1000
    NaN32 <- Int32Min
    Overflow32 <- Int32Min
    Second = 2
    Specs <- RepairSpecs
    Replicas <- RepairReplicas
    Readings <- RepairReadings
    Faults <- FaultKinds
    MaxClock = 0
    MaxEdits = 1
PROPERTY BoundsRestored
