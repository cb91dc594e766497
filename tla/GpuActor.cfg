SPECIFICATION FairActorSpec
\* When every call has returned nobody has to call again.
CHECK_DEADLOCK FALSE
CONSTANTS
    r1 = r1  r2 = r2  r3 = r3  c1 = c1  c2 = c2
    Sentinel = Sentinel
    Requests = {r1, r2, r3}
    Closers = {c1, c2}
PROPERTIES
    ServesSerially
    EveryCallReturns
