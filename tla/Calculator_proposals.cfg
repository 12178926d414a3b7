SPECIFICATION Spec
CONSTANTS
    Int32Max = 30
    NaN32 <- Int32Min
    Overflow32 <- Int32Min
    Second = 1
    Specs <- CalcSpecs
    Scales <- CalcScales
    PodLists <- CalcPodLists
    Values <- CalcValues
    Recommendations <- CalcRecommendations
    TargetName <- CalcTarget
INVARIANTS
    NeverAgainstTheMetric
    
    ConvergenceStaysInside
    RecommendationFollowed
    RatioIsAPercentage
    ForeignPodsDoNotCount
CHECK_DEADLOCK FALSE
