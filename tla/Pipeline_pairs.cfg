SPECIFICATION Spec
CONSTANTS
    t1 = t1
    t2 = t2
    vague = vague
    Traffic = {t1, t2, vague}
    Freezable = {t1, t2}
    FieldsOf <- SomeFields
    EndpointOf <- SomeEndpoints
    Inputs <- SomeInputs
    MaxClaims = 5
    MaxNodes = 1
    MaxRuns = 1
INVARIANTS
    NoTransitionRefused
CHECK_DEADLOCK FALSE
