SPECIFICATION Spec
CONSTANTS
    Shards = {x}
    Callers = {c1, c2}
    Recoverers = {}
    EpochNumbers = {1}
    MaxEvents = 2
INVARIANTS
    CheckpointsMonotonic
