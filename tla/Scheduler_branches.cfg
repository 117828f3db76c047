SPECIFICATION FairSpec
CONSTANTS
    Callers = {c1}
    Tasks = {t1}
    Branches = {b1, b2}
    Parent = P
    Cancellers = {k1}
    MaxWorkers = 1
    BackpressureThreshold = 0
    MaxCancels = 1
INVARIANTS
    PeersUndisturbed
    VerdictFaithful
PROPERTIES
    SpeculationReturns
CHECK_DEADLOCK FALSE
