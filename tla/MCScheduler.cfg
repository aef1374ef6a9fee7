SPECIFICATION Spec
CONSTANTS
    MaxFires = 2
    PauseAfter = 2
    CronMayEnd = TRUE
    SweepMayFail = TRUE
    MaxRequests = 1
    MaxCrashes = 1
    MaxPeriods = 2
INVARIANT RowTellsItsFire
INVARIANT OnlyFailuresCount
INVARIANT OneSkipPerPeriod
INVARIANT DisabledGoesQuiet
PROPERTY GateReopens
CHECK_DEADLOCK FALSE
