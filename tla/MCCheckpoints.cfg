SPECIFICATION Spec
CONSTANTS
    Place <- MCPlace
    LeftOut <- MCLeftOut
    Existing <- MCExisting
    NoPlace = NoPlace
    MaxRuns = 2
    MaxVersions = 3
    MaxFaults = 1
INVARIANT UndoIsUndisturbed
PROPERTIES  OldIsNeverTrashed
CHECK_DEADLOCK FALSE
