SPECIFICATION Spec
CONSTANTS
    MaxPlans = 3
    MaxVerbs = 2
    Gaps = 1
    MaxReconnects = 0
    WritesMayFail = TRUE
    MaxEvents = 2
 
INVARIANT OnePlan
PROPERTY ReadyIsBacked
PROPERTY StartIsAnswered
CHECK_DEADLOCK FALSE
