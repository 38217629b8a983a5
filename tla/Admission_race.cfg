CONSTANTS
    r1 = r1  r2 = r2  r3 = r3
    w1 = w1  w2 = w2
    Null = Null
    Requests <- ThreeRequests
    Wallets <- TwoWallets
    FreeTierCount = 2
    FreeDailyMax = 1
    MaxPendingTotal = 2
    Connections = 2
SPECIFICATION FairSpec
INVARIANTS OneActivePerWallet BudgetNearlyKept
PROPERTIES AdmitsAtomically RequestsEnd
CHECK_DEADLOCK FALSE
