SPECIFICATION FairSpec
CONSTANTS
    c1 = c1
    c2 = c2
    r1 = r1
    r2 = r2
    w1 = w1
    w2 = w2
    t1 = t1
    t2 = t2
    NoToken = NoToken
    None = None
    Conns <- OneConn
    Runs <- TwoRuns
    Workers <- OneWorker
    Tokens <- TwoTokens
    Faults <- NoFaults
    RefreshAnswers <- PlainAnswers
    SyncErrors <- AllErrors
    MaxGen = 3
    MaxMishaps = 1
    Retries = 1
    LeaseTicks = 1
INVARIANTS
    RefreshingIsLeased
    ActiveTargetHasJob
    OwedWorkHasJob
PROPERTIES
    RunsFinish
    RequestsServed
\* Every bound may be used up and every request served.
CHECK_DEADLOCK FALSE
