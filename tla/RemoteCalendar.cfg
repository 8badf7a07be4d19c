SPECIFICATION FairSpec
CONSTANTS
    one = one
    two = two
    fetch = fetch
    again = again
    write = write
    Hrefs = {one, two}
    Ops = {fetch, again, write}
    NoOp = noop
    DeletesEarly = FALSE
    ChunkSize = 1
    Window = 1
    Capable = TRUE
    PutGivesEtag = TRUE
    MaxSeq = 5
    Budgets <- Mixed
INVARIANTS
    TagsBehindCache
PROPERTIES
    FetchTellsTheTruth
    OperationsFinish
\* Nothing happens once all operations are over.
CHECK_DEADLOCK FALSE
