SPECIFICATION Spec
\* Calls come from outside: a runtime whose slots are all quarantined stands still.
CHECK_DEADLOCK FALSE
CONSTANTS
    s1 = s1  s2 = s2   s4 = s4  tA = tA  tB = tB  n1 = n1   x1 = x1  r1 = r1
    None = None
    Sessions = {s1, s2, s4}
    Theorems = {tA, tB}
    Names = {n1}
    Events <- TwoEvents
    Identities <- AllIdentities
    ModelReleases = {r1}
    LearnerOf <- LearnerOfR1
    ExperienceIds = {x1}
    Preallocated = {s4}
    MaxResident = 1
    MaxUpdates = 2
    MaxDraws = 1
INVARIANTS
    SlotsAreTruthful
    ParametersAreAccounted
PROPERTIES
    ReleaseSavesLastState
