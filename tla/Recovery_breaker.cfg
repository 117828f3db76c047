SPECIFICATION FairSpec
CONSTANTS
    Steps = {s1, s2}
    Executors = {e1, e2, e3}
    FailureThreshold = 2
    CoolOff = 2
    MaxRetries = 1
INVARIANTS
    TripsAtThreshold
PROPERTIES
    OpenLastsCoolOff
    ExecuteReturns
    OpenIsProbed
