SPECIFICATION Spec
CONSTANTS
    Intent <- MCIntent
    Effect <- MCEffect
    Driver = "host"
    MaxAttempts = 2
    MaxRevisions = 2
INVARIANTS TypeOK NoSilentRepeat JournalIsTruthful OpenWritesAreOurs SucceededIsSettled
PROPERTY KeepsThePromise
