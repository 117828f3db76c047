SPECIFICATION Spec
CONSTANTS
    Shards = {x}
    Callers = {c1, c2, c3}
    Recoverers = {c3}
    EpochNumbers = {1}
    MaxEvents = 2
INVARIANTS
    NoAdvanceLost
    CheckpointsReached
    NumbersFollowCalls
    SequenceWithinEvents
SYMMETRY CallerSymmetry
