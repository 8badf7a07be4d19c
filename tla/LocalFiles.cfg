SPECIFICATION FairSpec
CONSTANTS
    event = event
    other = other
    master = master
    moved = moved
    fetch = fetch
    again = again
    push = push
    remove = remove
    Uids = {event, other}
    Absent = absent
    Torn = torn
    NoRequest = norequest
    Noticed = {TRUE}
    Ops = {fetch, again, push, remove}
    NoOp = noop
    DeletesEarly = FALSE
    Slots = {master, moved}
    Master = master
    Batches = {1, 2}
    Stagings <- Staged2
    Task <- Does
    None = none
    Budgets <- Mixed
INVARIANTS
    IInv
    QuietMeansMeant
    FingerprintFollowsFiles
PROPERTIES
    ImplementsStagedBatches
\* Nothing happens once all is written, or after the destructor.
CHECK_DEADLOCK FALSE
