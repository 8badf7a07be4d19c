SPECIFICATION FairSpec
CONSTANTS
    fetch = fetch
    again = again
    write = write
    Ops = {fetch, again, write}
    NoOp = noop
    DeletesEarly = FALSE
    Last = 3
    PageSize = 1
    MaxPages = 4
    Attempts = 2
    MaxSeq = 10
    Budgets <- All

    
PROPERTIES
    
    OperationsFinish
\* Nothing happens once all operations are over.
CHECK_DEADLOCK FALSE
