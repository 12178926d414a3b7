SPECIFICATION Spec
CONSTANTS
    Names <- TwoNames
    MaxEdits = 3
INVARIANT CommandTakesEffect
PROPERTIES
    OtherFieldsSurvive
    CommandEnds
CHECK_DEADLOCK FALSE
