SPECIFICATION SeriesFairSpec
CONSTANTS
    Int32Max = 1000
    NaN32 <- Int32Min
    Overflow32 <- Int32Min
    Second = 1
    UserSpecs <- LifecycleSpecs
    MaxEdits = 3
    MaxLag = 2
    MaxCrashes = 1
    MaxMetrics = 2
INVARIANTS
    FinalizerHeld
    AdmittedSpecIsUsable
    NoWakeUpIsLost
PROPERTIES
    UserEditsSurvive
    DeletionCompletes
    EverySpecIsJudged
    FinalizedLeavesNothing
    SeriesComeBack
CHECK_DEADLOCK FALSE
