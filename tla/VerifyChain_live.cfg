CONSTANTS
    v1 = v1  v2 = v2  v3 = v3
    w1 = w1
    t1 = t1  t2 = t2
    Null = Null
    Verifies <- TwoVerifies
    Wallets <- OneWallet
    Txs <- TwoTxs
    Terms <- BothTerms
    FreeTierCount = 1
    AbandonAfter = 1
    V2Window = 1
    MaxAttempts = 1
    LastCreate = 2
    MaxTime = 1
    MaxCrashes = 1
SPECIFICATION FairSpec
CHECK_DEADLOCK FALSE
INVARIANTS AnswersArePriced FreeAllowanceKept
PROPERTIES ChainsResolve JournalDrains
