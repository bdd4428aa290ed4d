SPECIFICATION Spec
CONSTANTS
    c1 = c1
    c2 = c2
    r1 = r1
    r2 = r2
    w1 = w1
    w2 = w2
    t1 = t1
    t2 = t2
    NoToken = NoToken
    None = None
    Conns <- OneConn
    Runs <- OneRun
    Workers <- OneWorker
    Tokens <- TwoTokens
    Faults <- NoFaults
    RefreshAnswers <- AllAnswers
    SyncErrors <- AllErrors
    MaxGen = 3
    MaxMishaps = 0
    Retries = 1
    LeaseTicks = 1
SYMMETRY Symmetry
INVARIANTS
    OwnerActionReconnects
\* Every bound may be used up and every request served.
CHECK_DEADLOCK FALSE
