CONSTANTS
    v1 = v1  v2 = v2  v3 = v3
    a1 = a1  a2 = a2
    Null = Null
    Verifies <- ThreeVerifies
    Associates <- OneAssociate
    Configs <- TwoConfigs
    Rates <- TwoRates
    Commissions <- TwoCommissions
    RateScale = 10
    AtomicPerCent = 3
    FreeCommission = 1
    BotCeiling = 7
    MaxPublications = 2
    MaxSettings = 1
    MaxRestarts = 1
    MaxPaid = 2
SPECIFICATION Spec
INVARIANTS ShareIsFair WindowsAreOrdered PaidWithinEarned
PROPERTIES CreditKeepsAsset BoundForLife
SYMMETRY Symmetry
CHECK_DEADLOCK FALSE
