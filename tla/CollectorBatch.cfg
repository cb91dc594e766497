SPECIFICATION FairSpec
CONSTANTS
    SearchWorkers = 2
    MaxPending = 2
    MaxInflight = 4
    MaxAttempts = 3
    Faulty = {1}
    None = None
CHECK_DEADLOCK FALSE
INVARIANT EffectsBounded
INVARIANT SettledIsAuditable
PROPERTY RunEnds
PROPERTY KeepsLedger
