SPECIFICATION FairSpec
CONSTANTS
    Runs <- TwoRuns
    Keys <- TwoKeys
    None = None
    Retention = 1
    Limit = 1
    Losses <- AllCalls
    MaxAsks = 1
    MaxMishaps = 1
INVARIANTS
    TypeOK
    KeyNamesOneRun
    UnansweredKeyHeld
    EndNoticedOnce
PROPERTIES
    ShownRunSettles
\* Every run may have been used up and the page be at rest.
CHECK_DEADLOCK FALSE
