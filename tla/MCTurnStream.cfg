SPECIFICATION Spec
CONSTANTS
    Window = {w1}
    MaxRuns = 2
    MaxChunks = 2
    MaxCrashes = 1
INVARIANT FramesReachOnce
 
 
CHECK_DEADLOCK FALSE
