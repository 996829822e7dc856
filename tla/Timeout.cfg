SPECIFICATION Spec
CONSTANTS
    MaxUInt = 15
    Second = 1
    DefaultTimeout = 4
    DefaultInterval = 2
    Sections = {TRUE}
    Settings <- FewSettings
    MaxForward = 1
    MaxLate = 0
    MaxCmd = 2
    Horizon = 14
INVARIANTS TimeNotLost AnswerFindsWay
\* The clock stops at the horizon.
CHECK_DEADLOCK FALSE
