SPECIFICATION Spec
CONSTANTS
    one = one
    two = two
    fetch = fetch
    again = again
    write = write
    Hrefs = {one, two}
    Ops = {fetch, again, write}
    NoOp = noop
    DeletesEarly = FALSE
    ChunkSize = 1
    Window = 1
    Capable = TRUE
    PutGivesEtag = TRUE
    MaxSeq = 5
    Budgets <- OneWrite
PROPERTIES
    OverwritesOnlyWhatWasRead
CHECK_DEADLOCK FALSE
