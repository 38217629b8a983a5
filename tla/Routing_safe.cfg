CONSTANTS
    v1 = v1  v2 = v2
    a1 = a1  a2 = a2
    Null = Null
    Verifies <- TwoVerifies
    Associates <- TwoAssociates
    PullLimit = 1
    MaxMessages = 3
SPECIFICATION Spec
INVARIANTS LedgerPaysAnswerer RepliesReachAssignee
PROPERTIES AnswersEarnOnce AssignmentFinal AdmittedWithCard
SYMMETRY Symmetry
CHECK_DEADLOCK FALSE
