SPECIFICATION Spec
CONSTANTS
    Apps = {1, 3}
    Own = 2
    Uids = {1, 2}
    TodoUids = {2}
    Props = {1, 2, 3}
    Vals = {0, 1, 2}
    Settable = {1, 2}
    InactiveAfter = 1
    DeadAfter = 2
    MaxTime = 4
    Budgets <- All
    None = None
    Null = Null
INVARIANTS
    NothingMissed
    RegisterKept
    CalendarKept
\* Nothing happens once the clock and the budgets have run out.
CHECK_DEADLOCK FALSE
