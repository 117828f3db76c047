SPECIFICATION Spec
CONSTANTS
    Targets <- MCTargets
    ChainAgents <- MCChainAgents
    MaxSteps = 3
INVARIANTS StrictNeverPassesRisk ChainSuccessComplete PayloadsScreened
PROPERTY NoAgentAfterAlarm
CHECK_DEADLOCK FALSE
