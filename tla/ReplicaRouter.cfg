\* Three attempts and three threads for two replicas: a third is refused, waits
\* for a release, or meets a router that is blocked.
SPECIFICATION Spec
CONSTANTS
    a1 = a1  a2 = a2  a3 = a3  c1 = c1  c2 = c2  c3 = c3
    None = None
    Attempts <- MCAttempts
    ReplicaCount = 2
    Callers = {c1, c2, c3}
SYMMETRY Symmetric
INVARIANTS
    QuietCanReopen
PROPERTIES
    DispatchesOnce
    KeepsSlots
\* A pool with an unknown outcome is never opened again.
CHECK_DEADLOCK FALSE
