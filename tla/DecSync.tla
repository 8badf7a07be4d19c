------------------------------- MODULE DecSync -------------------------------
(***************************************************************************)
(* One calendar in a DecSync directory: every application keeps a file of  *)
(* entries of its own, with the second it wrote each, and reads those of   *)
(* all; a tool outside copies the files between devices.  The modules      *)
(* modelled are src/calendar/decsynclib.cpp (the directory),               *)
(* decsynccontrollerstore.cpp (what is remembered of it),                  *)
(* decsyncactivecontroller.cpp (the merge by property),                    *)
(* decsyncgarbagecollector.cpp and decsyncbackend.cpp.                     *)
(*                                                                         *)
(* The calendar has the id "X".  Its events are in calendars/X; a hybrid   *)
(* keeps its to-dos in tasks/X, which nobody else writes here.             *)
(***************************************************************************)
EXTENDS Integers, Sequences, FiniteSets, Functions

CONSTANTS
    Apps, Own,        \* other applications and ours: numbers, in the order of their names
    Uids, TodoUids,   \* records, and those that are to-dos
    Props, Vals,      \* properties, in the order of their names, and values; 0 is the first
    Settable,         \* properties applyPropertyToIncidence() knows how to set
    InactiveAfter, DeadAfter,   \* inactiveDays and deadDays
    MaxTime,          \* bound on the clock
    Budgets,          \* how often each kind of step may happen, who wrote before, who writes what
    None, Null        \* no entry; an entry that says deleted

ASSUME DecSyncAssumption ==
    /\ Apps \subseteq Nat /\ Own \in Nat \ Apps
    /\ TodoUids \subseteq Uids /\ Props \subseteq Nat /\ Vals \subseteq Nat /\ 0 \in Vals
    /\ Settable \subseteq Props
    /\ InactiveAfter \in Nat /\ DeadAfter \in Nat /\ MaxTime \in Nat
    /\ None # Null

VARIABLES
    now,              \* the clock, in whole seconds
    files,            \* entries of each application for each record, in the order of its file
    present,          \* applications that have a directory under calendars/X/v2
    seqs, tracked,    \* the others' sequence numbers, and those we have read up to
    device, fresh,    \* the others' own copies, and what of them is not copied to us yet
    todos,            \* our entry for each record in tasks/X
    exists, info,     \* which of calendars/X and tasks/X there are, and what their info says
    baseline, activity, deletionLog,    \* DecSyncControllerStore
    hybridIds, cached,                  \* m_hybridIds and m_collections
    got,              \* history: entries getNewEntries() has returned
    overtaken,        \* history: files read before the copy their sequence number announced
    adrift,           \* history: files whose sequence numbers we and their owner count apart
    meant,            \* history: the register of each record, see below
    made,             \* history: the type the calendar was created with, Null when deleted
    announced,        \* history: this process has announced the calendar
    budget

directoryVars == <<files, present, seqs, tracked>>
deviceVars == <<device, fresh>>
lifeVars == <<made, announced>>
calendarVars == <<todos, exists, info, hybridIds, cached, lifeVars>>
storeVars == <<baseline, activity, deletionLog>>
historyVars == <<got, overtaken, adrift, meant>>
vars == <<now, directoryVars, deviceVars, calendarVars, storeVars, historyVars, budget>>

AppIds == Apps \union {Own}
Sides == {"calendars", "tasks"}
Record == [Props -> Vals]
Entry == [at : Nat, val : Record \union {Null}]
FirstVersion == [p \in Props |-> 0]

Spend(kind) == budget[kind] > 0 /\ budget' = [budget EXCEPT ![kind] = @ - 1]
SpendWrite(a, u, val) ==
    /\ <<a, u>> \in budget.writers
    /\ Spend(IF val = Null THEN "removals" ELSE "edits")

-----------------------------------------------------------------------------
(* Reading: the newest entry of an application for a record (the first of  *)
(* several in one second), and of all applications, in the order of their  *)
(* directories.                                                            *)
Newest(es) ==
    es[CHOOSE i \in DOMAIN es : \A j \in DOMAIN es :
          es[j].at < es[i].at \/ (es[j].at = es[i].at /\ i <= j)]
HoldersIn(fs, u) == {a \in AppIds : fs[a][u] # <<>>}
EntryIn(fs, a, u) == Newest(fs[a][u])
WinnerIn(fs, u, apps) ==
    CHOOSE a \in apps : \A b \in apps :
        \/ EntryIn(fs, b, u).at < EntryIn(fs, a, u).at
        \/ EntryIn(fs, b, u).at = EntryIn(fs, a, u).at /\ a <= b
ReadIn(fs, u) ==
    IF HoldersIn(fs, u) = {} THEN Null
    ELSE EntryIn(fs, WinnerIn(fs, u, HoldersIn(fs, u)), u).val
ReadAllResources(u) == ReadIn(files, u)

(* setEntries() in our file: what it held for these records is replaced.   *)
SetEntries(w) ==
    [files EXCEPT ![Own] = [u \in Uids |-> IF u \in DOMAIN w THEN w[u] ELSE @[u]]]
One(u, val) == [x \in {u} |-> <<[at |-> now, val |-> val]>>]

(* The record a directory of last writes holds: a register in which the    *)
(* latest write stays, of the first application in one second; None after  *)
(* what the code is known to get wrong.                                    *)
Beats(x, y) == x.at > y.at \/ (x.at = y.at /\ x.app <= y.app)
Wrote(a, u, e) ==
    LET new == [at |-> e.at, app |-> a, val |-> e.val]
    IN [meant EXCEPT ![u] = IF @ # None /\ Beats(new, @) THEN new ELSE @]

Init ==
    /\ budget \in Budgets
    /\ now = 1
    /\ files = [a \in AppIds |-> [u \in Uids |->
                   IF <<a, u>> \in budget.held THEN <<[at |-> 1, val |-> FirstVersion]>> ELSE <<>>]]
    /\ present = {a \in Apps : \E u \in Uids : <<a, u>> \in budget.held}
    /\ seqs = [a \in Apps |-> [u \in Uids |-> Len(files[a][u])]]
    /\ tracked = [a \in Apps |-> [u \in Uids |-> 0]]
    /\ device = [a \in Apps |-> [u \in Uids |-> [file |-> files[a][u], seq |-> seqs[a][u]]]]
    /\ fresh = [a \in Apps |-> [u \in Uids |-> {}]]
    /\ todos = [u \in Uids |-> None]
    /\ exists = IF present = {} THEN {} ELSE {"calendars"}
    /\ info = [c \in Sides |-> [deleted |-> FALSE, hybrid |-> FALSE]]
    /\ baseline = [u \in Uids |-> None]
    /\ activity = [a \in AppIds |-> None]
    /\ deletionLog = {}
    /\ hybridIds = FALSE /\ cached = {}
    /\ got = {} /\ overtaken = {} /\ adrift = {}
    /\ meant = [u \in Uids |->
                  IF HoldersIn(files, u) = {} THEN [at |-> 0, app |-> Own, val |-> Null]
                  ELSE [at |-> 1, app |-> WinnerIn(files, u, HoldersIn(files, u)),
                        val |-> FirstVersion]]
    /\ made = None /\ announced = FALSE

Tick ==
    /\ now < MaxTime /\ Spend("tick")
    /\ now' = now + 1
    /\ UNCHANGED <<directoryVars, deviceVars, calendarVars, storeVars, historyVars>>

-----------------------------------------------------------------------------
(* Other applications, and the copying of their files, one by one and in   *)
(* any order.  They change what they see, or their own entry when they     *)
(* have not seen more, with a clock that may be a second ahead.            *)
SeenBy(a, u) ==
    {FirstVersion} \union
        ({ReadAllResources(u), IF device[a][u].file = <<>> THEN Null
                               ELSE Newest(device[a][u].file).val} \ {Null})
Edits(r) == {[r EXCEPT ![c[1]] = c[2]] : c \in budget.changes}

ForeignWrite(a, u, val, ahead) ==
    /\ SpendWrite(a, u, val)
    /\ ahead => budget.skew
    /\ LET at == IF ahead THEN now + 1 ELSE now
       IN /\ device[a][u].file # <<>> =>
                at >= Newest(device[a][u].file).at /\ val # Newest(device[a][u].file).val
          /\ device' = [device EXCEPT ![a][u] =
                          [file |-> <<[at |-> at, val |-> val]>>, seq |-> @.seq + 1]]
    /\ fresh' = [fresh EXCEPT ![a][u] = {"file", "sequences"}]
    /\ UNCHANGED <<now, directoryVars, calendarVars, storeVars, historyVars>>

Appears(sides) ==
    /\ exists' = exists \union sides
    /\ made' = IF made = Null /\ ~(sides \subseteq exists) THEN None ELSE made

CopyFile(a, u) ==
    /\ "file" \in fresh[a][u]
    /\ fresh' = [fresh EXCEPT ![a][u] = @ \ {"file"}]
    /\ files' = [files EXCEPT ![a][u] = device[a][u].file]
    /\ present' = present \union {a}
    /\ Appears({"calendars"})
    /\ meant' = Wrote(a, u, Newest(device[a][u].file))
    /\ UNCHANGED <<now, seqs, tracked, device, todos, info, hybridIds, cached, announced, storeVars,
                   got, overtaken, adrift, budget>>

CopySequences(a, u) ==
    /\ "sequences" \in fresh[a][u]
    /\ fresh' = [fresh EXCEPT ![a][u] = @ \ {"sequences"}]
    /\ seqs' = [seqs EXCEPT ![a][u] = device[a][u].seq]
    /\ present' = present \union {a}
    /\ Appears({"calendars"})
    /\ UNCHANGED <<now, files, tracked, device, todos, info, hybridIds, cached, announced, storeVars,
                   historyVars, budget>>

(* getNewEntries(): the files whose sequence number grew.  The numbers     *)
(* read are kept when there was any entry at all.                          *)
GrownTwice == {au \in (present \ {Own}) \X Uids : seqs[au[1]][au[2]] > tracked[au[1]][au[2]] + 1}
Grown == {au \in (present \ {Own}) \X Uids : seqs[au[1]][au[2]] > tracked[au[1]][au[2]]}
GetNewEntries ==
    /\ Spend("reads")
    /\ LET new == UNION {{<<au, e>> : e \in Range(files[au[1]][au[2]])} : au \in Grown}
       IN IF new = {} THEN UNCHANGED <<tracked, got, overtaken, present>>
          ELSE /\ got' = got \union new
               /\ tracked' = [a \in Apps |-> [u \in Uids |->
                                IF <<a, u>> \in Grown THEN seqs[a][u] ELSE tracked[a][u]]]
               /\ overtaken' = {au \in Grown : "file" \in fresh[au[1]][au[2]]}
                               \union (overtaken \ Grown)
               /\ present' = present \union {Own}
    /\ UNCHANGED <<now, files, seqs, deviceVars, calendarVars, storeVars, adrift, meant>>

-----------------------------------------------------------------------------
(* The calendar: a hybrid makes each side when something for it arrives.   *)
IsHybrid == hybridIds \/ exists = Sides
Ensured(c) == [info EXCEPT ![c] = [deleted |-> FALSE, hybrid |-> TRUE]]

(* Both sides a calendar is looked up on, where they exist.                *)
Looked == {c \in exists : c = "tasks" => IsHybrid}

CreateCalendar(type) ==
    LET c == IF type = "hybrid" THEN "tasks" ELSE "calendars"
    IN /\ Spend("lifecycle")
       /\ exists' = exists \union {c}
       /\ info' = [info EXCEPT ![c] = [deleted |-> FALSE, hybrid |-> @.hybrid \/ type = "hybrid"]]
       /\ cached' = cached \union {c}
       /\ present' = IF c = "calendars" THEN present \union {Own} ELSE present
       /\ hybridIds' = (hybridIds \/ type = "hybrid")
       /\ made' = type
       /\ UNCHANGED <<announced, now, files, seqs, tracked, deviceVars, todos, storeVars, historyVars>>

DeleteCalendar ==
    /\ Spend("lifecycle")
    /\ Looked # {} \/ IsHybrid
    /\ info' = [c \in Sides |-> [info[c] EXCEPT !.deleted = @ \/ c \in Looked]]
    /\ cached' = cached \union Looked
    /\ present' = IF "calendars" \in Looked THEN present \union {Own} ELSE present
    /\ hybridIds' = FALSE
    /\ made' = Null /\ announced' = FALSE
    /\ UNCHANGED <<now, files, seqs, tracked, deviceVars, todos, exists, storeVars, historyVars>>

(* loadCalendars(): what it announces, and the hybrids it remembers.       *)
Listed(c) == c \in exists /\ ~info[c].deleted
Discovered ==
    (IF Listed("calendars") THEN {"X"} ELSE {})
    \union (IF ~Listed("tasks") \/ Listed("calendars") THEN {}
            ELSE IF info["tasks"].hybrid THEN {"X"} ELSE {"tasks/X"})
IsPair == \A c \in Sides : Listed(c)
PairFound == IsPair
HybridFound == IsPair \/ \E c \in Sides : Listed(c) /\ info[c].hybrid
LoadCalendars ==
    /\ hybridIds' = (hybridIds \/ HybridFound)
    /\ announced' = ("X" \in Discovered)
    /\ UNCHANGED <<now, directoryVars, deviceVars, todos, exists, info, cached, made, storeVars,
                   historyVars, budget>>

Restart ==
    /\ Spend("restarts")
    /\ hybridIds' = FALSE /\ cached' = {} /\ announced' = FALSE
    /\ UNCHANGED <<now, directoryVars, deviceVars, todos, exists, info, made, storeVars, historyVars>>

-----------------------------------------------------------------------------
(* Writing records.  Events go to calendars/X, to-dos of a hybrid to       *)
(* tasks/X; createRecord() writes to calendars/X whatever it is given.     *)
WriteEvents(w) ==
    /\ files' = SetEntries(w)
    /\ present' = present \union {Own}
    /\ UNCHANGED <<seqs, tracked>>
WriteRecord(u, val) ==
    /\ WriteEvents(One(u, val))
    /\ meant' = Wrote(Own, u, [at |-> now, val |-> val])
    /\ UNCHANGED <<todos, got, overtaken, adrift>>
WriteTodo(u, val) ==
    /\ todos' = [todos EXCEPT ![u] = [at |-> now, val |-> val]]
    /\ UNCHANGED <<directoryVars, historyVars>>
TodoLive(u) == todos[u] # None /\ todos[u].val # Null

Ours == <<now, deviceVars, storeVars, announced>>

CreateRecord(u, val) ==
    /\ SpendWrite(Own, u, val)
    /\ "calendars" \in exists
    /\ cached' = cached \union {"calendars"}
    /\ WriteRecord(u, val)
    /\ UNCHANGED <<Ours, exists, info, hybridIds, made>>

(* updateRecord() and deleteRecord() take the first collection opened so   *)
(* far that holds the record.                                              *)
ChangeRecord(u, val) ==
    /\ SpendWrite(Own, u, val)
    /\ \/ "calendars" \in cached /\ ReadAllResources(u) # Null /\ WriteRecord(u, val)
       \/ /\ ~("calendars" \in cached /\ ReadAllResources(u) # Null)
          /\ "tasks" \in cached /\ TodoLive(u)
          /\ WriteTodo(u, val)
    /\ UNCHANGED <<Ours, exists, info, hybridIds, cached, made>>

(* pushItems(), and the writes of startSync().  A to-do that makes the     *)
(* calendar a hybrid is still written among the events.                    *)
PushItem(u, val) ==
    LET isTodo == u \in TodoUids
        c == IF isTodo /\ IsHybrid THEN "tasks" ELSE "calendars"
        sides == {c} \union (IF isTodo THEN {"tasks"} ELSE {})
    IN /\ SpendWrite(Own, u, val)
       /\ IsHybrid \/ "calendars" \in exists
       /\ hybridIds' = (IsHybrid \/ isTodo)
       /\ Appears(sides)
       /\ info' = [x \in Sides |-> IF x \in sides \ exists THEN Ensured(x)[x] ELSE info[x]]
       /\ cached' = cached \union sides
       /\ IF c = "tasks" THEN WriteTodo(u, val) ELSE WriteRecord(u, val)
       /\ UNCHANGED Ours

(* deleteItems(), removeItem() and the deletions of startSync(): a null    *)
(* entry on every side there is, whether or not it held the record.        *)
DeleteItem(u) ==
    /\ SpendWrite(Own, u, Null)
    /\ Looked # {}
    /\ cached' = cached \union Looked
    /\ hybridIds' = IsHybrid
    /\ todos' = IF "tasks" \in Looked THEN [todos EXCEPT ![u] = [at |-> now, val |-> Null]]
                ELSE todos
    /\ IF "calendars" \in Looked
       THEN /\ WriteEvents(One(u, Null))
            /\ meant' = Wrote(Own, u, [at |-> now, val |-> Null])
            /\ UNCHANGED <<got, overtaken, adrift>>
       ELSE UNCHANGED <<directoryVars, historyVars>>
    /\ UNCHANGED <<Ours, exists, info, made>>

-----------------------------------------------------------------------------
(* The controller merges what the other applications hold, by property,    *)
(* over the value it last agreed on.                                       *)
Others(u) == HoldersIn(files, u) \ {Own}
Held(a, u) == EntryIn(files, a, u)
Live(u) == {a \in Others(u) : Held(a, u).val # Null}
NewestLive(u) == Held(WinnerIn(files, u, Live(u)), u).val
NewestOther(u) == Held(WinnerIn(files, u, Others(u)), u)
Changers(u, p) == {a \in Live(u) : Held(a, u).val[p] # baseline[u].val[p]}
Changes(u, p) == {Held(a, u).val[p] : a \in Changers(u, p)}
Contested(u) == {p \in Props : Cardinality(Changes(u, p)) > 1}

(* Of the applications that changed a property, the latest, and of several *)
(* in one second that with the lowest value; the last of the contested     *)
(* properties decides for the record.                                      *)
EldestFor(u, p) ==
    Held(CHOOSE a \in Changers(u, p) :
            \A b \in Changers(u, p) : Held(a, u).at <= Held(b, u).at, u).val
ChosenFor(u, p) ==
    LET as == Changers(u, p)
        newer(a, b) == \/ Held(a, u).at > Held(b, u).at
                       \/ Held(a, u).at = Held(b, u).at /\
                             \/ Held(a, u).val[p] < Held(b, u).val[p]
                             \/ Held(a, u).val[p] = Held(b, u).val[p] /\ a <= b
    IN Held(CHOOSE a \in as : \A b \in as : newer(a, b), u).val
WinnerOf(u) == ChosenFor(u, CHOOSE p \in Contested(u) : \A q \in Contested(u) : q <= p)

(* rebuildIcal(): the newest entry with the changed properties set.        *)
NewestOnly(u) == NewestLive(u)
Rebuilt(u) ==
    [p \in Props |-> IF p \in Settable /\ Changes(u, p) # {}
                     THEN CHOOSE v \in Changes(u, p) : TRUE ELSE NewestLive(u)[p]]

(* mergeEntries(): what it says.                                           *)
Verdict(u) ==
    CASE Live(u) = {} -> "Deletion"
      [] Live(u) # {} /\ (Cardinality(Live(u)) = 1 \/ baseline[u] = None
                            \/ \A p \in Props : Changes(u, p) = {}) -> "Unchanged"
      [] OTHER -> IF Contested(u) = {} THEN "Merged" ELSE "Conflict"

Remember(u, val, at) == [val |-> val, at |-> at]
FirstAgreed(u) ==    \* mergeEntries() keeps the newest as the baseline when there is none
    IF Cardinality(Live(u)) > 1 /\ baseline[u] = None
    THEN Remember(u, NewestLive(u), now) ELSE baseline[u]

(* updateAppActivity(): the time of the latest entry of each application.  *)
Latest(a) == LET ts == {EntryIn(files, a, u).at : u \in {v \in Uids : files[a][v] # <<>>}}
             IN CHOOSE t \in ts : \A x \in ts : x <= t
Active == [a \in AppIds |-> IF \E u \in Uids : files[a][u] # <<>> THEN Latest(a) ELSE activity[a]]

(* What the merges of the records us write, remember and log.  A merge is  *)
(* flawed where it misses a change: a deletion or a write of ours newer    *)
(* than what was agreed, a property it cannot set, or one it drops with    *)
(* the loser of a conflict; or takes an old entry for a change, or has to  *)
(* choose between two writes of one second.                                *)
MergedVal(u) == IF Verdict(u) = "Conflict" THEN WinnerOf(u) ELSE Rebuilt(u)
Since(u) == {a \in HoldersIn(files, u) : Held(a, u).at > baseline[u].at}
LastChanger(u, p) == WinnerIn(files, u, Changers(u, p))
Flawed(u) ==
    \/ Live(u) \ Since(u) # {} \/ Since(u) \ Live(u) # {}
    \/ Verdict(u) = "Merged" /\ \E p \in Props \ Settable : Changes(u, p) # {}
    \/ \E p \in Contested(u) :
          \/ \E q \in Props : Changers(u, q) # {} /\ LastChanger(u, q) # LastChanger(u, p)
          \/ \E a, b \in Changers(u, p) : a # b /\ Held(a, u).at = Held(b, u).at

(* What a merge ought to come to: of each property the last change.        *)
Combined(u) ==
    [p \in Props |-> IF Changers(u, p) = {} THEN baseline[u].val[p]
                     ELSE Held(LastChanger(u, p), u).val[p]]
Apply(writes, deletes, kept) ==
    LET vals == [u \in writes |-> MergedVal(u)]
    IN /\ files' = SetEntries([u \in writes |-> <<[at |-> now, val |-> vals[u]]>>])
       /\ present' = IF writes = {} THEN present ELSE present \union {Own}
       /\ meant' = [u \in Uids |-> IF u \notin writes THEN meant[u]
                                   ELSE IF Flawed(u) THEN None
                                   ELSE Wrote(Own, u, [at |-> now, val |-> Combined(u)])[u]]
       /\ baseline' = [u \in Uids |-> IF u \in deletes THEN None
                                      ELSE IF u \in writes THEN Remember(u, vals[u], now)
                                      ELSE kept[u]]
       /\ deletionLog' = deletionLog \union deletes
       /\ activity' = Active
       /\ UNCHANGED <<seqs, tracked>>
Writes(us) == {u \in us : Others(u) # {} /\ Verdict(u) = "Merged"}
Conflicts(us) == {u \in us : Others(u) # {} /\ Verdict(u) = "Conflict"}

(* preprocessFetch(), the way fetchItems() takes once something is agreed: *)
(* a sole entry passes, conflicts go to the latest, and a record nobody    *)
(* mentions any more was deleted.                                          *)
Unmentioned == {u \in Uids : baseline[u] # None /\ HoldersIn(files, u) = {}}
Preprocess ==
    LET several == {u \in Uids : Cardinality(Others(u)) > 1}
        sole == {u \in Uids : Cardinality(Others(u)) = 1}
    IN Apply(Writes(several) \union Conflicts(several),
             Unmentioned \union {u \in sole \union several : Live(u) = {}},
             [u \in Uids |->
                IF u \in sole /\ Live(u) # {}
                   /\ (baseline[u] = None \/ NewestOther(u).at > baseline[u].at)
                THEN Remember(u, NewestOther(u).val, NewestOther(u).at)
                ELSE IF u \in several THEN FirstAgreed(u) ELSE baseline[u]])

IsInitialLoad == \A u \in Uids : baseline[u] = None
FetchItems ==
    /\ Spend("fetches")
    /\ Looked # {}
    /\ cached' = cached \union Looked
    /\ hybridIds' = IsHybrid
    /\ IF "calendars" \in exists /\ ~IsInitialLoad THEN Preprocess
       ELSE UNCHANGED <<directoryVars, storeVars, meant>>
    /\ UNCHANGED <<now, deviceVars, todos, exists, info, lifeVars, got, overtaken, adrift>>

(* runActiveSync(), after a run of the engine or when files have arrived:  *)
(* conflicts are left to others, and our own entries are not looked at.    *)
RunActiveSync ==
    /\ Spend("actives")
    /\ "calendars" \in exists
    /\ cached' = cached \union {"calendars"}
    /\ LET seen == {u \in Uids : Others(u) # {}}
       IN Apply(Writes(seen),
                {u \in seen : Live(u) = {}} \union {u \in Uids \ seen : baseline[u] # None},
                [u \in Uids |->
                   IF u \in seen /\ Verdict(u) = "Unchanged" /\ NewestOther(u).val # Null
                   THEN Remember(u, NewestOther(u).val, now)
                   ELSE IF u \in seen THEN FirstAgreed(u) ELSE baseline[u]])
    /\ UNCHANGED <<now, deviceVars, todos, exists, info, hybridIds, lifeVars, got, overtaken,
                   adrift>>

-----------------------------------------------------------------------------
(* The garbage collector, whose four parts a host runs one after another.  *)
GcVars == <<now, deviceVars, calendarVars, got, overtaken>>

SelfCompact ==
    /\ Spend("gcs")
    /\ files' = [files EXCEPT ![Own] =
                    [u \in Uids |-> IF @[u] = <<>> THEN <<>> ELSE <<Newest(@[u])>>]]
    /\ UNCHANGED <<GcVars, present, seqs, tracked, storeVars, adrift, meant>>

(* onboardNewApps() writes all that was agreed anew, then all deletions    *)
(* ever logged.  What it takes for agreed may have changed since.          *)
NewApps == {a \in present : activity[a] = None}
ToOnboard(u) ==
    (IF baseline[u] = None THEN <<>> ELSE <<[at |-> now, val |-> baseline[u].val]>>)
    \o (IF u \in deletionLog THEN <<[at |-> now, val |-> Null]>> ELSE <<>>)
OnboardNewApps ==
    LET us == {u \in Uids : ToOnboard(u) # <<>>}
        outdated(u) == ToOnboard(u)[1].val # ReadAllResources(u)
    IN /\ Spend("gcs")
       /\ NewApps # {}
       /\ files' = SetEntries([u \in us |-> ToOnboard(u)])
       /\ present' = IF us = {} THEN present ELSE present \union {Own}
       /\ activity' = [a \in AppIds |-> IF a \in NewApps THEN now ELSE activity[a]]
       /\ meant' = [u \in Uids |-> IF u \notin us THEN meant[u]
                                   ELSE IF outdated(u) THEN None
                                   ELSE Wrote(Own, u, ToOnboard(u)[1])[u]]
       /\ UNCHANGED <<GcVars, seqs, tracked, baseline, deletionLog, adrift>>

(* inactiveApps(): known, and not heard of for so long.                    *)
InactiveApps(days) == {a \in AppIds : activity[a] # None /\ activity[a] < now - days} \ {Own}

(* The owner of a file we change may learn of it before it writes again.   *)
(* Else its owner takes a number we raised for its next change; and an     *)
(* owner who learns that its directory went, or whose files are half way   *)
(* to us then, starts from zero, where we do not.                          *)
Told(changed, learns) ==
    /\ learns => \A au \in changed : fresh[au[1]][au[2]] = {}
    /\ device' = [a \in Apps |-> [u \in Uids |->
                    IF learns /\ <<a, u>> \in changed
                    THEN [file |-> files'[a][u], seq |-> seqs'[a][u]] ELSE device[a][u]]]

(* compactInactiveApps(): the newest entry of each record, and not even    *)
(* that when something was agreed on since; the file that shrank is given  *)
(* the next sequence number.  The last copy of a record may be dropped.    *)
Superseded(a, u) == baseline[u] # None /\ baseline[u].at > Held(a, u).at
Kept(a, u) == IF files[a][u] = <<>> \/ Superseded(a, u) THEN <<>> ELSE <<Held(a, u)>>
CompactInactiveApps(learns) ==
    LET shrunk == {au \in (InactiveApps(InactiveAfter) \intersect present) \X Uids :
                      Len(Kept(au[1], au[2])) < Len(files[au[1]][au[2]])}
        lost(u) == HoldersIn(files, u) # {}
                   /\ LET a == WinnerIn(files, u, HoldersIn(files, u))
                      IN <<a, u>> \in shrunk /\ Superseded(a, u)
    IN /\ Spend("gcs")
       /\ shrunk # {}
       /\ files' = [a \in AppIds |-> [u \in Uids |->
                       IF <<a, u>> \in shrunk THEN Kept(a, u) ELSE files[a][u]]]
       /\ seqs' = [a \in Apps |-> [u \in Uids |->
                       IF <<a, u>> \in shrunk THEN seqs[a][u] + 1 ELSE seqs[a][u]]]
       /\ Told(shrunk, learns)
       /\ adrift' = IF learns THEN adrift ELSE adrift \union shrunk
       /\ meant' = [u \in Uids |-> IF lost(u) THEN None ELSE meant[u]]
       /\ UNCHANGED <<now, fresh, calendarVars, got, overtaken, present, tracked, storeVars>>

(* purgeDeadApps(): the directory goes, and the application is forgotten;  *)
(* the numbers we read up to stay.                                         *)
PurgeDeadApps(learns) ==
    LET dead == InactiveApps(DeadAfter)
        gone == (dead \intersect present) \X Uids
    IN /\ Spend("gcs")
       /\ dead # {}
       /\ files' = [a \in AppIds |-> IF a \in dead THEN [u \in Uids |-> <<>>] ELSE files[a]]
       /\ seqs' = [a \in Apps |-> IF a \in dead THEN [u \in Uids |-> 0] ELSE seqs[a]]
       /\ present' = present \ dead
       /\ activity' = [a \in AppIds |-> IF a \in dead THEN None ELSE activity[a]]
       /\ Told(gone, learns)
       /\ adrift' = adrift \union {au \in gone : learns \/ fresh[au[1]][au[2]] = {"file"}}
       /\ meant' = [u \in Uids |->
                      IF HoldersIn(files, u) # {}
                         /\ WinnerIn(files, u, HoldersIn(files, u)) \in dead
                      THEN None ELSE meant[u]]
       /\ UNCHANGED <<now, fresh, calendarVars, got, overtaken, tracked, baseline, deletionLog>>

-----------------------------------------------------------------------------
Values(r) == IF r = Null THEN Edits(FirstVersion) ELSE Edits(r)

Next ==
    \/ Tick \/ GetNewEntries \/ LoadCalendars \/ DeleteCalendar \/ Restart
    \/ FetchItems \/ RunActiveSync \/ SelfCompact \/ OnboardNewApps
    \/ \E a \in Apps, u \in Uids :
          \/ \E ahead \in BOOLEAN, val \in UNION {Edits(r) : r \in SeenBy(a, u)} \union {Null} :
                ForeignWrite(a, u, val, ahead)
          \/ CopyFile(a, u)
          \/ CopySequences(a, u)
    \/ \E type \in {"hybrid", "event"} : CreateCalendar(type)
    \/ \E u \in Uids :
          \/ DeleteItem(u)
          \/ ChangeRecord(u, Null)
          \/ \E val \in Values(ReadAllResources(u)) :
                CreateRecord(u, val) \/ ChangeRecord(u, val) \/ PushItem(u, val)
    \/ \E learns \in BOOLEAN : CompactInactiveApps(learns) \/ PurgeDeadApps(learns)

Spec == Init /\ [][Next]_vars

-----------------------------------------------------------------------------
(* The variables have their types.                                         *)
TypeOK ==
    /\ now \in 1 .. MaxTime
    /\ files \in [AppIds -> [Uids -> Seq(Entry)]]
    /\ present \subseteq AppIds
    /\ seqs \in [Apps -> [Uids -> Nat]] /\ tracked \in [Apps -> [Uids -> Nat]]
    /\ device \in [Apps -> [Uids -> [file : Seq(Entry), seq : Nat]]]
    /\ fresh \in [Apps -> [Uids -> SUBSET {"file", "sequences"}]]
    /\ todos \in [Uids -> Entry \union {None}]
    /\ exists \subseteq Sides /\ cached \subseteq Sides
    /\ info \in [Sides -> [deleted : BOOLEAN, hybrid : BOOLEAN]]
    /\ baseline \in [Uids -> [at : Nat, val : Record] \union {None}]
    /\ activity \in [AppIds -> Nat \union {None}]
    /\ deletionLog \subseteq Uids
    /\ hybridIds \in BOOLEAN /\ announced \in BOOLEAN
    /\ made \in {None, Null, "hybrid", "event"}
    /\ got \subseteq (Apps \X Uids) \X Entry
    /\ overtaken \subseteq Apps \X Uids /\ adrift \subseteq Apps \X Uids
    /\ meant \in [Uids -> [at : Nat, app : AppIds, val : Record \union {Null}] \union {None}]

(* No entry of another application is missed: getNewEntries() has returned *)
(* it, or a sequence number says it will.  Except where a file is copied   *)
(* after the number that announces it, and where compaction or a purge     *)
(* lets the numbers of the two sides come apart.                           *)
NothingMissed ==
    \A a \in Apps, u \in Uids : \A e \in Range(files[a][u]) :
        \/ <<<<a, u>>, e>> \in got
        \/ <<a, u>> \in Grown
        \/ "sequences" \in fresh[a][u]
        \/ <<a, u>> \in overtaken \union adrift

(* The directory reads as a register of last writes, whatever order the    *)
(* files arrive in and whatever the controller and the garbage collector   *)
(* write to it: a merge of changes holds each of them, and onboarding,     *)
(* compaction and purging change no record.  Except a record they are      *)
(* known to get wrong, from then on.                                       *)
RegisterKept == \A u \in Uids : meant[u] # None => ReadAllResources(u) = meant[u].val

(* A calendar that was created is found by whoever looks, under the id it  *)
(* was created with, and one that was deleted is not, until something is   *)
(* put there anew; and a process that has announced it reads both sides of *)
(* it, whichever of them come to exist.                                    *)
CalendarKept ==
    /\ made \in {"hybrid", "event"} => "X" \in Discovered
    /\ made = Null => Discovered = {}
    /\ announced => exists \subseteq Looked
=============================================================================
