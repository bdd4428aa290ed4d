SPECIFICATION Spec
CONSTANTS
    c1 = c1
    c2 = c2
    q1 = q1
    q2 = q2
    None = None
    Cards = {c1, c2}
    Queries = {q1, q2}
    Rows <- FiveRows
    CardOf <- TwoCardsOf
    DateOf <- SomeDates
    Matches <- BlankOrSome
    CachedAtFirst <- FiveRows
    PerCard = 1
    PerPage = 2
    Overlap = TRUE
    MaxMoves = 2
    MaxLoads = 2
    MaxSyncs = 0
INVARIANT NoLatePage
CHECK_DEADLOCK FALSE
