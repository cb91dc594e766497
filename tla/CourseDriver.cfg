SPECIFICATION FairSpec
CONSTANTS
    Count = 3
    MaxUpdates = 1
INVARIANTS OneThingAtATime PublishedIsProved Reconcilable
PROPERTY CourseEnds
CHECK_DEADLOCK FALSE
