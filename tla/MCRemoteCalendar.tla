--------------------------- MODULE MCRemoteCalendar ---------------------------
(* Two items, two fetches and a write operation of each kind.                *)
EXTENDS RemoteCalendarInv, TLC

CONSTANTS one, two, fetch, again, write

Fetches == [op \in {fetch, again} |-> "fetchItems"]
OneFetch == fetch :> "fetchItems"
FetchAnd(task) == [op \in {fetch, write} |-> IF op = fetch THEN "fetchItems" ELSE task]
All(task) == [op \in Ops |-> IF op = write THEN task ELSE "fetchItems"]

Direct(n, fs, ts, rs, tasks) ==
    [foreign |-> fs, troubles |-> ts, cancels |-> 0, restarts |-> rs, discoveries |-> 0,
     direct |-> n, tasks |-> tasks]
Budget(fs, ts, cs, rs, ds, tasks) ==
    [Direct(0, fs, ts, rs, tasks) EXCEPT !.cancels = cs, !.discoveries = ds]
Mixed == {Budget(2, 0, 0, 0, 0, Fetches), Budget(1, 1, 0, 0, 0, Fetches),
          Budget(1, 0, 0, 0, 1, Fetches), Budget(1, 0, 1, 0, 0, Fetches),
          Budget(1, 1, 0, 0, 0, FetchAnd("applyRecords")),
          Budget(0, 0, 0, 1, 0, All("applyRecords")), Budget(1, 0, 0, 1, 0, Fetches),
          Budget(0, 0, 1, 0, 0, All("applyRecords")), Budget(0, 0, 0, 0, 0, FetchAnd("pushItems")),
          Budget(0, 1, 0, 0, 0, FetchAnd("deleteItems")),
          Direct(1, 1, 0, 0, OneFetch), Direct(1, 0, 1, 0, OneFetch),
          Direct(1, 0, 0, 1, OneFetch), Direct(1, 0, 0, 0, Fetches)}
OneWrite == {Budget(1, 0, 0, 0, 0, FetchAnd("applyRecords"))}
=============================================================================
