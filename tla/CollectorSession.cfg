SPECIFICATION SessionSpec
\* A session that is reported, or whose collector died, is over.
CHECK_DEADLOCK FALSE
CONSTANTS
    MaxSteps = 3
    Candidates = 2
    Absent = Absent
INVARIANTS
    SearchIsAudited
    KnownIsTruthful
