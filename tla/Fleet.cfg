SPECIFICATION Spec
CONSTANTS
    c1 = c1
    c2 = c2
    r1 = r1
    r2 = r2
    w1 = w1
    w2 = w2
    t1 = t1
    t2 = t2
    NoToken = NoToken
    None = None
    Conns <- TwoConns
    Runs <- OneRun
    Workers <- OneWorker
    Tokens <- TwoTokens
    Faults <- NoFaults
    RefreshAnswers <- AcceptedOnly
    SyncErrors <- PermanentErrors
    MaxGen = 2
    MaxMishaps = 1
    Retries = 0
    LeaseTicks = 1
SYMMETRY Symmetry
INVARIANTS
    RunReflectsTargets
    RunOutcomeHonest
\* Every bound may be used up and every request served.
CHECK_DEADLOCK FALSE
