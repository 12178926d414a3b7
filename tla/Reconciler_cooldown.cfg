SPECIFICATION Spec
CONSTANTS
    Int32Max = 1000
    NaN32 <- Int32Min
    Overflow32 <- Int32Min
    Second = 1
    Specs <- EditSpecs
    Replicas = {2}
    Readings <- HighReading
    Faults = {"midEdit"}
    MaxClock = 2
    MaxEdits = 1
PROPERTY Cooldown
