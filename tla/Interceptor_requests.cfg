SPECIFICATION FairSpec
CONSTANTS
    s1 = s1
    Requests = {r1, r2}
    Processes = {s1}
    ProcessOf <- OneServer
    Prompts <- SomePrompts
    Dangers <- SomeDangers
    LlmRate = 1
    CommandRate = 1
    SpendLimit = 1
    MaxReviews = 2
INVARIANTS
    ApprovedByReview
    ApprovalsCleaned
    ExecutedIsLogged
PROPERTIES
    EveryRequestAnswered
CHECK_DEADLOCK FALSE
