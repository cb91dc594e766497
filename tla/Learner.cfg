\* Two processes, three steps, a catalog that may grow by one dataset.
SPECIFICATION Spec
CONSTANTS
    p = p
    q = q
    a = a
    b = b
    None = None
    Processes <- MCProcesses
    Datasets <- MCDatasets
    Seed <- MCSeed
    BatchSize = 2
    MaxSteps = 3
SYMMETRY Symmetric
INVARIANTS
    NeverTrainedTwice
    ChecksNeverRefuse
PROPERTY KeepsTheLine
CHECK_DEADLOCK FALSE
