SPECIFICATION FairSpec
CONSTANTS
    i1 = i1
    i2 = i2
    a1 = a1
    a2 = a2
    w1 = w1
    w2 = w2
    None = None
    Ids <- TwoIds
    Accounts <- TwoAccounts
    CreditAccounts <- OneCard
    AccountOf <- MCAccountOf
    Workers <- TwoWorkers
    MaxVersion = 2
    MaxUpdates = 3
    MaxPages = 3
    MaxMishaps = 1
INVARIANTS
    CacheInv
    CacheMatchesCursor
PROPERTIES
    CountsAddUp
    CursorNeverBack
    CatchesUp
\* Every bound may be used up.
CHECK_DEADLOCK FALSE
