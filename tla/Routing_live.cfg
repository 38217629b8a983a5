CONSTANTS
    v1 = v1  v2 = v2
    a1 = a1  a2 = a2
    Null = Null
    Verifies <- TwoVerifies
    Associates <- OneAssociate
    PullLimit = 2
    MaxMessages = 2
SPECIFICATION FairSpec
PROPERTIES NobodyWaitsForEver
CHECK_DEADLOCK FALSE
