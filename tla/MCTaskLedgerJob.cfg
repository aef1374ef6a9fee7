SPECIFICATION FairSpec
CONSTANTS
    Intent <- MCLocalIntent
    Effect <- MCLocalEffect
    Driver = "background"
    MaxAttempts = 2
    MaxRevisions = 1
INVARIANT OneTurnAtATime
PROPERTIES CancelSticks StopEnds
