SPECIFICATION Spec
CONSTANTS
    Int32Max = 1000
    NaN32 <- Int32Min
    Overflow32 <- Int32Min
    Second = 1
    Specs <- FaultSpecs
    Replicas <- FaultReplicas
    Readings <- FaultReadings
    Faults <- FaultKinds
    MaxClock = 2
    MaxEdits = 1
INVARIANT TypeOK
PROPERTIES
    ImplementsPolicy
    WritesStayInBounds
    VelocityLimited
    CooldownOnceRecorded
    LastScaleTimeNeverGoesBack
