SPECIFICATION FairSpec
CONSTANTS
    Runs <- OneRun
    Keys <- OneKey
    None = None
    Retention = 1
    Limit = 1
    Losses <- Recoveries
    MaxAsks = 1
    MaxMishaps = 1
PROPERTIES
    SettledOrInBackground
\* Every run may have been used up and the page be at rest.
CHECK_DEADLOCK FALSE
