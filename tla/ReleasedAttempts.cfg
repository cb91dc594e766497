\* Two callers reserve attempts while the learner trains and publishes.
SPECIFICATION ProviderSpec
CONSTANTS
    p1 = p1
    p2 = p2
    f1 = f1
    f2 = f2
    None = None
    Problems = {p1, p2}
    Families = {f1, f2}
    FamilyOf <- MCFamilyOf
    Targets = {p1, p2}
    Tie <- MCTie
    Polarity <- MCPolarity
    Releases <- MCReleases
    Callers = {c1, c2}
    HistoryWindow = 2
    TrustCount = 1
    MasteryCount = 1
    BaseSteps = 1
    BudgetMultiplier = 2
    CapSteps = 2
    MaxAttempts = 3
    TotalSteps = 4
    MaxInflight = 2
    MaxWait = 2
SYMMETRY Symmetric
INVARIANTS
    SearchedAsReserved
PROPERTY LatestAtReservation
CHECK_DEADLOCK FALSE
