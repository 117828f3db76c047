SPECIFICATION Spec
CONSTANT Subjects <- MCSubjects
INVARIANTS AnswerAllowed MajorityCarries HighRiskFailsClosed NoRunOutlivesCall
PROPERTY CallEnds
CHECK_DEADLOCK FALSE
