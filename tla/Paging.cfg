SPECIFICATION Spec
CONSTANTS
    c1 = c1
    c2 = c2
    q1 = q1
    q2 = q2
    None = None
    Cards = {c1, c2}
    Queries = {q1, q2}
    Rows <- FiveRows
    CardOf <- TwoCardsOf
    DateOf <- SomeDates
    Matches <- BlankOrSome
    CachedAtFirst <- FiveRows
    PerCard = 1
    PerPage = 2
    Overlap = FALSE
    MaxMoves = 2
    MaxLoads = 1
    MaxSyncs = 1
INVARIANTS
    TypeOK
    NoLatePage
    TableInOrder
    CardsInOrder
CHECK_DEADLOCK FALSE
