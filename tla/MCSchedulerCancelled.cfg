SPECIFICATION Spec
CONSTANTS
    MaxFires = 2
    PauseAfter = 2
    CronMayEnd = FALSE
    SweepMayFail = FALSE
    MaxRequests = 1
    MaxCrashes = 0
    MaxPeriods = 2
PROPERTY EveryExitRecords
CHECK_DEADLOCK FALSE
