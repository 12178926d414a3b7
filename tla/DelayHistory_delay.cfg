SPECIFICATION HSpec
CONSTANTS
    Int32Max = 1000
    NaN32 <- Int32Min
    Overflow32 <- Int32Min
    Second = 2
    Specs <- DelaySpecs
    Replicas = {0, 2}
    Readings <- DelayReadings
    Faults = {}
    MaxClock = 6
    MaxEdits = 1
PROPERTIES
    ImplementsPolicy
    Cooldown
    DelayRespected
