SPECIFICATION Spec
CONSTANTS
    c1 = c1
    c2 = c2
    c3 = c3
    x = x
    y = y
    None = None
    RuleIds = {1, 2}
    AggregateIds = {1}
    Cards <- MCCards
    Banks = {x, y}
    BankOf <- MCBankOf
    Rows = {1, 2, 3, 4, 5, 6}
    Transaction <- MCTransaction
    Chars <- Letters
    Space = " "
    Folded <- Lower
    QueryLength = 5
    TrigramMinimum = 3
    MaxThreshold = 10000
    MaxCents = 2147483647
    MaxDays = 730
    Creations <- MCCreations
    Patches <- MCPatches
    AggregateCreations <- MCAggregateCreations
    AggregatePatches <- MCAggregatePatches
    BanksAtFirst = {x}
    MaxEdits = 3
    MaxSyncs = 1
    LastDay = 2
INVARIANTS
    TypeOK
    AlertsExact
    TotalsAgree
    ScopeKept
\* The owner's requests and the passes are bounded.
CHECK_DEADLOCK FALSE
