SPECIFICATION FairSpec
CONSTANTS
    a = a
    b = b
    None = None
    Job <- Two
    Unchecked <- JustA
    MaxConcurrent = 1
    KeepFinished = 1
    MaxCrashes = 2
INVARIANTS  DoneIsVerified StoredGrantIsOwed WorkIsListed
CHECK_DEADLOCK FALSE
PROPERTY JobEnds
