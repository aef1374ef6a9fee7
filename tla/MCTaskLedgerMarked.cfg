SPECIFICATION Spec
CONSTANTS
    Intent <- MCOneIntent
    Effect <- MCOneEffect
    Driver = "host"
    MaxAttempts = 2
    MaxRevisions = 1
INVARIANT UnfinishedWritesAreMarked
