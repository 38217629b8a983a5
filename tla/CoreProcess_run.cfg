CONSTANTS
    c1 = c1  c2 = c2
    core = core  hand = hand
    Null = Null
    NoRunner = NoRunner
    Core = core
    Chains <- TwoChains
    Runners <- CoreAndHand
    Backoff <- Backoffs
    BatchLimit = 2
    LastFile = 2
    MaxFaults = 1
    MaxStops = 1
SPECIFICATION CoreFairSpec
INVARIANTS RepeatsNeedFault NoRunnerRaces SchemaIsCurrent
PROPERTIES WakesInTurn CallbacksEnd
\* When every callback has ended the loop has nothing to do.
CHECK_DEADLOCK FALSE
