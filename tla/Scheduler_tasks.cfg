SPECIFICATION FairSpec
CONSTANTS
    Callers = {c1, c2}
    Tasks = {t1, t2, t3}
    Branches = {}
    Parent = P
    Cancellers = {k1}
    MaxWorkers = 2
    BackpressureThreshold = 1
    MaxCancels = 1
INVARIANTS
    BackpressureBound
    CancelledNeverExecuted
    OnlyCancelledLeak
PROPERTIES
    EveryFutureResolves
CHECK_DEADLOCK FALSE
