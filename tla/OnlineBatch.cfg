SPECIFICATION FairBatchSpec
CONSTANTS
    Sessions = {1, 2, 3}
    Concurrency = 2
    RetireCompleted = TRUE
    Deaths = 2
    NoJob = NoJob
CHECK_DEADLOCK FALSE
INVARIANT BatchEffectsBounded
PROPERTY CleanRunIsComplete
PROPERTY BatchReturns
