\* Two callers, three problems of two families, a writer that may die or lose
\* track of a publication at any commit.
SPECIFICATION Spec
CONSTANTS
    p1 = p1
    p2 = p2
    p3 = p3
    f1 = f1
    f2 = f2
    None = None
    Problems = {p1, p2, p3}
    Families = {f1, f2}
    FamilyOf <- MCFamilyOf
    Targets <- MCTargets
    Tie <- MCTie
    Polarity <- MCPolarity
    Releases = {r1}
    Callers = {c1, c2}
    HistoryWindow = 2
    TrustCount = 1
    MasteryCount = 1
    BaseSteps = 1
    BudgetMultiplier = 2
    CapSteps = 3
    MaxAttempts = 5
    TotalSteps = 6
    MaxInflight = 2
    MaxWait = 1
SYMMETRY Symmetric
INVARIANTS
    AdmissionWithinLimits
    FamilySettledOnce
    ReplayRebuilds
INVARIANT OverdueNotStarved
PROPERTY KeepsLedger
CHECK_DEADLOCK FALSE
