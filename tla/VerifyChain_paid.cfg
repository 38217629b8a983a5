CONSTANTS
    v1 = v1  v2 = v2  v3 = v3
    w1 = w1
    t1 = t1  t2 = t2
    Null = Null
    Verifies <- ThreeVerifies
    Wallets <- OneWallet
    Txs <- TwoTxs
    Terms <- ShortTerms
    FreeTierCount = 0
    AbandonAfter = 1
    V2Window = 1
    MaxAttempts = 1
    LastCreate = 4
    MaxTime = 4
    MaxCrashes = 1
SPECIFICATION Spec
SYMMETRY Symmetry
CHECK_DEADLOCK FALSE
INVARIANTS PaymentsConserved AdmissionsArePaid ReleasedOnlyWhenPaid JournalMatchesGates
PROPERTIES DecidedOnce PaymentBuysOneAnswer OpensPaidGates
