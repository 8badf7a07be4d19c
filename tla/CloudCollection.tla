---------------------------- MODULE CloudCollection ----------------------------
(***************************************************************************)
(* A collection of a Google or Microsoft account.  Five backends share one *)
(* skeleton and differ in where it matters; `kind` says which is meant:    *)
(*                                                                         *)
(*   "calendar"  Google events (src/calendar/googlecalendarbackend.cpp)    *)
(*   "people"    Google contacts (src/contacts/googlepeoplebackend.cpp)    *)
(*   "tasks"     Google tasks (src/todo/googletasksbackend.cpp)            *)
(*   "delta"     Graph events (src/calendar/msgraphcalendarbackend.cpp)    *)
(*   "lists"     Graph to-do lists and, alike, Graph contacts              *)
(*               (src/todo/graphtodotaskbackend.cpp)                       *)
(*                                                                         *)
(* A fetch walks pages, of everything or of what changed since a token, on *)
(* a copy of the cached rows that is committed with the next token at the  *)
(* end.  A write sends its records one by one and waits for each answer.   *)
(*                                                                         *)
(* The server numbers its changes.  A row is the number of the change that *)
(* made it and that of the change that set its optional field, 0 for none; *)
(* a token is the number of the last change a walk was promised.           *)
(***************************************************************************)
EXTENDS OperationQueue

CONSTANTS
    Last,       \* items are 1..Last, in the order in which the server lists them
    PageSize,   \* rows on a page
    MaxPages,   \* kMaxPages
    Attempts,   \* m_transientRetryAttempts
    MaxSeq,     \* bound on the changes of the server
    Budgets     \* what may happen in a behaviour, one of these records:
                \* [kind, present: the items there at first,
                \*  foreign, troubles, cancels, restarts: Nat,
                \*  stale: every request is answered 410, endless: every page has a next,
                \*  cut: an answer may end in the middle of its body,
                \*  fetches: the operations that are fetches, writes: the batches of others,
                \*  unruly: the records the recurrence rule refuses]

ASSUME CloudAssumption ==
    /\ Last \in Nat \ {0} /\ PageSize \in Nat \ {0} /\ MaxPages \in Nat
    /\ Attempts \in Nat /\ MaxSeq \in Nat /\ MaxSeq >= Last

(* An operation reads or writes, and a batch does one thing to an item.    *)
Batches ==
    {b \in [create : SUBSET (1..Last), update : SUBSET (1..Last), delete : SUBSET (1..Last)] :
        b.create \intersect b.update = {} /\ (b.create \union b.update) \intersect b.delete = {}}
ASSUME BudgetsAssumption == \A b \in Budgets :
    /\ {"kind", "fetches", "writes"} \subseteq DOMAIN b
    /\ b.kind \in {"calendar", "people", "tasks", "delta", "lists"}
    /\ \A op \in DOMAIN b.writes : op \notin b.fetches /\ b.writes[op] \in Batches

VARIABLES
    seq, changed, server,   \* the server: last change, that of each item, its row
    token, cache,           \* m_syncTokens or m_deltaTokens, and m_cache
    loaded,                 \* m_persistenceLoaded
    disk,                   \* the state file
    memo,                   \* m_lastFetchRecords
    walk,                   \* FetchState of the fetch that runs, and its request
    batch,                  \* ApplyState of the write that runs or ran last
    late,                   \* requests on their way whose operation does not wait
    was,                    \* history: rows each item has had since the fetch began
    missed,                 \* history: items a listing left out: they slipped past an
                            \* offset, or were to come after a page that came cut
    budget                  \* what of it may still happen

serverVars == <<seq, changed, server, was, missed>>
stateVars == <<token, cache, loaded, disk, memo>>
vars == <<serverVars, stateVars, walk, batch, late, budget, opVars>>

Items == 1..Last
Gone == [main |-> 0, note |-> 0]
Nothing == [i \in Items |-> Gone]
NoState == [token |-> 0, cache |-> Nothing]

Kind == budget.kind
HasToken == Kind \in {"calendar", "people", "delta"}
ClientWalks == Kind \in {"calendar", "tasks", "lists"}   \* over all pages, by the client
Retries == Kind # "people"
HasCarriers == Kind = "lists"

IsFetch(op) == op \in budget.fetches
IsWrite(op) == op \in DOMAIN budget.writes
Wanted(op) == budget.writes[op]

Idle == [phase |-> "idle", token |-> 0, cache |-> Nothing, prev |-> Nothing, at |-> 0,
         start |-> 0, tries |-> 0, pages |-> 0, resynced |-> FALSE]
NoBatch == [phase |-> "idle", what |-> "none", item |-> 0, answer |-> "none",
            create |-> {}, update |-> {}, delete |-> {}, ok |-> {}, bad |-> {}, done |-> {}]

(* A first life, or a later one that finds the state of the last.          *)
Init ==
    /\ budget \in Budgets
    /\ seq = Last
    /\ changed = [i \in Items |-> IF i \in budget.present THEN i ELSE 0]
    /\ server = [i \in Items |->
                    IF i \in budget.present THEN [main |-> i, note |-> i] ELSE Gone]
    /\ disk \in {NoState, [token |-> IF HasToken THEN Last ELSE 0, cache |-> server]}
    /\ token = 0 /\ cache = Nothing /\ memo = Nothing /\ loaded = FALSE
    /\ walk = Idle /\ batch = NoBatch /\ late = {}
    /\ was = [i \in Items |-> {}] /\ missed = {}
    /\ OpInit

Spend(what) == budget[what] > 0 /\ budget' = [budget EXCEPT ![what] = @ - 1]
Trouble(happens) == IF happens THEN Spend("troubles") ELSE UNCHANGED budget

Running(op) == op = inFlight /\ opState[op] = "running"
Walking == walk.phase # "idle"

(***************************************************************************)
(* The server.  Graph pages a listing by offset, so an item that goes away *)
(* from a page already read moves another one out of the pages to come.    *)
(***************************************************************************)
There(i) == server[i] # Gone
Place(i) == Cardinality({j \in 1..i : There(j)})

Change(i, row) ==
    /\ seq < MaxSeq /\ seq' = seq + 1
    /\ changed' = [changed EXCEPT ![i] = seq + 1]
    /\ server' = [server EXCEPT ![i] = row]
    /\ was' = IF Walking THEN [was EXCEPT ![i] = @ \union {row}] ELSE was
    /\ missed' = missed \union
         (IF Kind = "lists" /\ Walking /\ row = Gone /\ Place(i) <= walk.at
          THEN {j \in Items : There(j) /\ Place(j) = walk.at + 1} ELSE {})

(* Others change what is there; the server names what is created anew.     *)
ToBeCreated == UNION {Wanted(op).create : op \in DOMAIN budget.writes}

ForeignChange(i) ==
    /\ Spend("foreign")
    /\ i \in ToBeCreated => changed[i] > 0
    /\ \E row \in [main : {seq + 1}, note : {0, seq + 1, server[i].note}]
                  \union (IF There(i) THEN {Gone} ELSE {}) : Change(i, row)
    /\ UNCHANGED <<stateVars, walk, batch, late, opVars>>

(* What a walk has still to be given, and the next page of it.             *)
Listed ==
    CASE Kind = "delta" -> {i \in Items : changed[i] > walk.at}
      [] Kind = "lists" -> {i \in Items : There(i) /\ Place(i) > walk.at}
      [] Kind = "tasks" -> {i \in Items : changed[i] > 0 /\ i > walk.at}
      [] OTHER -> {i \in Items : changed[i] > walk.token /\ i > walk.at
                                 /\ (walk.token = 0 => There(i))}

Before(i, j) == IF Kind = "delta" THEN changed[i] < changed[j] ELSE i < j
Page == {i \in Listed : Cardinality({j \in Listed : Before(j, i)}) < PageSize}
More == budget.endless \/ Page # Listed

Furthest(keys) == CHOOSE k \in keys \union {walk.at} : \A l \in keys \union {walk.at} : l <= k
AtAfterPage ==
    CASE Kind = "delta" -> Furthest({changed[i] : i \in Page})
      [] Kind = "lists" -> walk.at + Cardinality(Page)
      [] OTHER -> Furthest(Page)

(* A token covers what was there when the first page was made; that of a   *)
(* delta walk, which goes by changes, all it has given.                    *)
NextToken(w) == IF Kind = "delta" THEN seq ELSE w.start

(***************************************************************************)
(* fetchItems().                                                           *)
(***************************************************************************)
(* The state file is read once in a life, before it is first needed.       *)
EnsurePersistedStateLoaded ==
    /\ loaded' = TRUE
    /\ token' = IF loaded THEN token ELSE disk.token
    /\ cache' = IF loaded THEN cache ELSE disk.cache

(* What the walk merges into: the cached rows, unless the listing will be  *)
(* whole; then they only fill in what it leaves out.                       *)
MergeBase(t, c) ==
    CASE Kind \in {"calendar", "delta"} -> c
      [] Kind = "people" -> IF t # 0 THEN c ELSE Nothing
      [] OTHER -> Nothing

FetchBegins(op) ==
    /\ IsFetch(op) /\ StartBody(op)
    /\ EnsurePersistedStateLoaded
    /\ walk' = [Idle EXCEPT !.phase = "asked", !.tries = 1, !.token = token',
                    !.at = IF Kind = "delta" THEN token' ELSE 0,
                    !.prev = cache', !.cache = MergeBase(token', cache')]
    /\ was' = [i \in Items |-> {server[i]}] /\ missed' = {}
    /\ UNCHANGED <<seq, changed, server, disk, memo, batch, late, budget>>

FetchFails(op) ==
    /\ walk' = Idle /\ was' = [i \in Items |-> {}]
    /\ End(op, "failed")
    /\ UNCHANGED stateVars

(* The union merge: a field the row does not have is taken from the cached *)
(* row.  Deleted rows are taken away.                                      *)
Filled(row, old) == IF row.note = 0 THEN [row EXCEPT !.note = old.note] ELSE row
EventRow(i) == server[i]
PersonRow(i) == IF There(i) THEN Filled(server[i], walk.prev[i]) ELSE Gone
TaskRow(i) == IF There(i) THEN Filled(server[i], walk.prev[i]) ELSE Gone
ListRow(i) == Filled(server[i], walk.prev[i])

(* Graph may deliver a skeleton of an event, which is filled from what the *)
(* walk has so far.                                                        *)
DeltaRow(i, skeleton) ==
    IF ~There(i) THEN Gone
    ELSE IF skeleton THEN Filled([server[i] EXCEPT !.note = 0], walk.cache[i])
    ELSE server[i]

Row(i, skeleton) ==
    CASE Kind = "calendar" -> EventRow(i)
      [] Kind = "people" -> PersonRow(i)
      [] Kind = "tasks" -> TaskRow(i)
      [] Kind = "lists" -> ListRow(i)
      [] Kind = "delta" -> DeltaRow(i, skeleton)

WalkAfterPage(skeleton) ==
    [walk EXCEPT !.cache = [i \in Items |-> IF i \in Page THEN Row(i, skeleton) ELSE @[i]],
                 !.at = AtAfterPage,
                 !.start = IF @ = 0 THEN seq ELSE @,
                 !.tries = 1,
                 !.pages = @ + 1]

(* persistState(): a new file beside the old one, which is removed before  *)
(* the new one takes its place; nobody looks whether either worked.        *)
Persisted(state) ==
    \E outcome \in {"replaced", "kept", "lost"} :
        /\ Trouble(outcome # "replaced")
        /\ disk' = CASE outcome = "replaced" -> state
                     [] outcome = "kept" -> disk
                     [] outcome = "lost" -> NoState

(* The end of the walk: rows and token are committed together.             *)
FinishFetch(op, w, t) ==
    /\ token' = IF HasToken THEN t ELSE 0
    /\ cache' = w.cache /\ memo' = w.cache
    /\ Persisted([token |-> token', cache |-> cache'])
    /\ walk' = Idle /\ was' = [i \in Items |-> {}]
    /\ End(op, "succeeded")
    /\ UNCHANGED loaded

(* A page arrived.  Only the walks of the client count their pages.        *)
PageAnswered(op) ==
    /\ IsFetch(op) /\ Running(op) /\ walk.phase = "asked" /\ ~budget.stale
    /\ \E skeleton \in IF Kind = "delta" THEN BOOLEAN ELSE {FALSE} :
        LET w == WalkAfterPage(skeleton)
        IN IF ~More THEN FinishFetch(op, w, NextToken(w))
           ELSE IF ClientWalks /\ w.pages > MaxPages THEN FetchFails(op) /\ UNCHANGED budget
           ELSE walk' = w /\ UNCHANGED <<was, stateVars, budget, opVars>>
    /\ UNCHANGED <<seq, changed, server, missed, batch, late>>

(* An answer that says it is good and is cut in its body.  The others see  *)
(* that it is no object and fail; the walk of contacts takes it for a last *)
(* page without rows, and commits what it has with no token at all.        *)
PageCut(op) ==
    /\ Kind = "people" /\ budget.cut /\ ~budget.stale
    /\ IsFetch(op) /\ Running(op) /\ walk.phase = "asked"
    /\ FinishFetch(op, walk, 0)
    /\ missed' = missed \union Listed
    /\ UNCHANGED <<seq, changed, server, batch, late>>

(* getWithRetry(): a network error or 502 to 504 is tried again after a    *)
(* while; a walk of contacts is made of plain requests, which are not.     *)
TriesLeft(w) == w.tries < Attempts

PageFailed(op) ==
    /\ IsFetch(op) /\ Running(op) /\ walk.phase = "asked" /\ Spend("troubles")
    /\ \E transient \in BOOLEAN :
        IF transient /\ Retries /\ TriesLeft(walk)
        THEN walk' = [walk EXCEPT !.phase = "waiting"] /\ UNCHANGED <<was, stateVars, opVars>>
        ELSE FetchFails(op)
    /\ UNCHANGED <<seq, changed, server, missed, batch, late>>

RetryTimer(op) ==
    /\ IsFetch(op) /\ Running(op) /\ walk.phase = "waiting"
    /\ walk' = [walk EXCEPT !.phase = "asked", !.tries = @ + 1]
    /\ UNCHANGED <<serverVars, stateVars, batch, late, budget, opVars>>

(* 410: the token is not good any more.  A listing of everything is begun, *)
(* once; without a token to drop it is an error like others.               *)
ResyncedOverOldRows(w) ==
    [w EXCEPT !.token = 0, !.at = 0, !.start = 0, !.tries = 1, !.pages = 0, !.resynced = TRUE]
ResyncedAgain(w) ==
    [w EXCEPT !.token = 0, !.at = 0, !.start = 0, !.tries = 1, !.pages = 0, !.cache = Nothing]
Resynced(w) ==
    [w EXCEPT !.token = 0, !.at = 0, !.start = 0, !.tries = 1, !.pages = 0, !.cache = Nothing,
              !.resynced = TRUE]

PageGone(op) ==
    /\ IsFetch(op) /\ Running(op) /\ walk.phase = "asked"
    /\ IF budget.stale THEN UNCHANGED budget
       ELSE Spend("troubles") /\ (walk.token # 0 \/ (Kind = "delta" /\ walk.pages # 0))
    /\ IF HasToken /\ ~walk.resynced
       THEN walk' = Resynced(walk) /\ UNCHANGED <<was, stateVars, opVars>>
       ELSE FetchFails(op)
    /\ UNCHANGED <<seq, changed, server, missed, batch, late>>

(***************************************************************************)
(* applyRecords().                                                         *)
(***************************************************************************)
(* The next record of the batch, creations first, or the end of it: the    *)
(* operation fails only when every record did.  Records that break the     *)
(* rule on recurrence are not sent.                                        *)
NextKind(b) ==
    IF b.create # {} THEN "create" ELSE IF b.update # {} THEN "update" ELSE "delete"
RuleRefuses(b) ==
    LET refused == IF HasCarriers THEN budget.unruly \intersect (b.create \union b.update) ELSE {}
    IN [b EXCEPT !.create = @ \ refused, !.update = @ \ refused, !.bad = @ \union refused]
FinishIfSettled(op, b) ==
    /\ batch' = [b EXCEPT !.phase = "over"]
    /\ End(op, IF b.ok # {} \/ b.bad = {} THEN "succeeded" ELSE "failed")

Sending(b, what, item) == [b EXCEPT !.phase = "sent", !.what = what, !.item = item]
SendNext(b) ==
    LET kind == NextKind(b)
        next == CHOOSE i \in b[kind] : \A j \in b[kind] : i <= j
    IN Sending([b EXCEPT ![kind] = @ \ {next}], kind, next)

ApplyStep(op, b) ==
    IF b[NextKind(b)] = {} THEN FinishIfSettled(op, b)
    ELSE batch' = SendNext(b) /\ UNCHANGED opVars

SettleOne(b, ok) ==
    IF ok THEN [b EXCEPT !.ok = @ \union {b.item}] ELSE [b EXCEPT !.bad = @ \union {b.item}]

Begun(op) == [NoBatch EXCEPT !.phase = "begun", !.create = Wanted(op).create,
                             !.update = Wanted(op).update, !.delete = Wanted(op).delete]

WriteBegins(op) ==
    /\ IsWrite(op) /\ StartBody(op)
    /\ LET b == RuleRefuses(Begun(op))
       IN batch' = IF b[NextKind(b)] = {} THEN b ELSE SendNext(b)
    /\ UNCHANGED <<serverVars, stateVars, walk, late, budget>>

(* With nothing to send the operation ends at once.                        *)
NothingToSend(op) ==
    /\ IsWrite(op) /\ Running(op) /\ batch.phase = "begun"
    /\ FinishIfSettled(op, batch)
    /\ UNCHANGED <<serverVars, stateVars, walk, late, budget>>

(* The server carries a request out, or refuses it.  A to-do list or a     *)
(* contact of Graph is written without its optional field, which follows   *)
(* in a request of its own, and Graph sometimes says of an item that is    *)
(* there that it is not.                                                   *)
Written(i, what) ==
    CASE what = "create" -> [main |-> seq + 1, note |-> IF HasCarriers THEN 0 ELSE seq + 1]
      [] what = "update" -> [main |-> seq + 1,
                             note |-> IF HasCarriers THEN server[i].note ELSE seq + 1]
      [] what = "carrier" -> [main |-> seq + 1, note |-> seq + 1]
      [] what = "delete" -> Gone

Arrives(what, i, answer) ==
    CASE answer = "ok" ->
            /\ (what = "create") # There(i)
            /\ IF what = "relist" THEN UNCHANGED serverVars ELSE Change(i, Written(i, what))
            /\ UNCHANGED budget
      [] answer = "gone" ->
            /\ what # "create"
            /\ IF There(i) THEN what = "delete" /\ HasCarriers /\ Spend("troubles")
                           ELSE UNCHANGED budget
            /\ UNCHANGED serverVars
      [] answer = "no" ->
            /\ Spend("troubles") /\ UNCHANGED serverVars

(* What a batch has really brought about, by this answer.                  *)
Completes(what, i, answer) ==
    \/ answer = "ok" /\ what \in {"carrier", "delete"}
    \/ answer = "ok" /\ what \in {"create", "update"} /\ ~HasCarriers
    \/ answer = "gone" /\ what \in {"delete", "relist"} /\ ~There(i)

RequestArrives ==
    /\ batch.phase = "sent"
    /\ \E answer \in {"ok", "gone", "no"} :
        /\ Arrives(batch.what, batch.item, answer)
        /\ batch' = [batch EXCEPT !.phase = "answered", !.answer = answer,
                        !.done = IF Completes(batch.what, batch.item, answer)
                                 THEN @ \union {batch.item} ELSE @]
    /\ UNCHANGED <<stateVars, walk, late, opVars>>

(* Who takes it for a success that the item was gone already.              *)
GoneIsDone == Kind \in {"calendar", "people", "tasks"}

(* Graph to-do lists and contacts: a listing has to confirm it, which is   *)
(* asked for instead of believing a 404; "gone" from a listing is that the *)
(* item is not in it.                                                      *)
Confirmed(b) == b.what = "delete" /\ b.answer = "gone" /\ HasCarriers

(* postNextCarrier(): what could not go with the record goes after it.     *)
CarriersFollow(b) == b.what \in {"create", "update"} /\ b.answer = "ok" /\ HasCarriers

GoodUnlessRefused(b) == b.answer # "no"
Good(b) ==
    IF b.what = "relist" THEN b.answer = "gone"
    ELSE b.answer = "ok" \/ (b.what = "delete" /\ b.answer = "gone" /\ GoneIsDone)

WriteAnswered(op) ==
    /\ IsWrite(op) /\ Running(op) /\ batch.phase = "answered"
    /\ IF CarriersFollow(batch) THEN batch' = Sending(batch, "carrier", batch.item) /\ UNCHANGED opVars
       ELSE IF Confirmed(batch) THEN batch' = Sending(batch, "relist", batch.item) /\ UNCHANGED opVars
       ELSE ApplyStep(op, SettleOne(batch, Good(batch)))
    /\ UNCHANGED <<serverVars, stateVars, walk, late, budget>>

(* Nothing is sent again: a request that is given up counts as failed, and *)
(* may still arrive.                                                       *)
Outstanding(heard) ==
    {[what |-> batch.what, item |-> batch.item, heard |-> heard] :
        x \in {y \in {batch.phase} : y = "sent" /\ batch.what # "relist"}}

WriteLost(op) ==
    /\ IsWrite(op) /\ Running(op) /\ batch.phase \in {"sent", "answered"} /\ Spend("troubles")
    /\ late' = late \union Outstanding(FALSE)
    /\ ApplyStep(op, SettleOne(batch, FALSE))
    /\ UNCHANGED <<serverVars, stateVars, walk>>

(***************************************************************************)
(* Cancellation, late requests, restart.                                   *)
(***************************************************************************)
(* The answer to the request on its way is the last an operation that was  *)
(* cancelled listens to; carriers are posted even so.                      *)
OwedCarrier ==
    IF batch.phase = "answered" /\ CarriersFollow(batch)
    THEN {[what |-> "carrier", item |-> batch.item, heard |-> TRUE]} ELSE {}

CancelOperation(op) ==
    /\ (IsFetch(op) \/ IsWrite(op)) /\ Spend("cancels")
    /\ CancelOp(op)
    /\ IF ~Running(op) THEN UNCHANGED <<walk, was, batch, late>>
       ELSE IF IsFetch(op)
       THEN walk' = Idle /\ was' = [i \in Items |-> {}] /\ UNCHANGED <<batch, late>>
       ELSE /\ batch' = NoBatch
            /\ late' = late \union Outstanding(TRUE) \union OwedCarrier
            /\ UNCHANGED <<walk, was>>
    /\ UNCHANGED <<seq, changed, server, missed, stateVars>>

LateArrives(r) ==
    /\ \E answer \in {"ok", "gone"} :
        /\ Arrives(r.what, r.item, answer)
        /\ late' = (late \ {r}) \union
             (IF r.heard /\ r.what # "carrier" /\ answer = "ok" /\ r.what # "delete" /\ HasCarriers
              THEN {[r EXCEPT !.what = "carrier"]} ELSE {})
    /\ UNCHANGED <<stateVars, walk, batch, opVars>>

LateNever(r) ==
    /\ late' = late \ {r}
    /\ UNCHANGED <<serverVars, stateVars, walk, batch, budget, opVars>>

DeleteOperation(op) ==
    /\ (IsFetch(op) \/ IsWrite(op))
    /\ DeleteOp(op)
    /\ UNCHANGED <<serverVars, stateVars, walk, batch, late, budget>>

Restart ==
    /\ Spend("restarts")
    /\ token' = 0 /\ cache' = Nothing /\ memo' = Nothing /\ loaded' = FALSE
    /\ walk' = Idle /\ was' = [i \in Items |-> {}] /\ batch' = NoBatch
    /\ late' = {[r EXCEPT !.heard = FALSE] : r \in late \union Outstanding(FALSE)}
    /\ opState' = [op \in Ops |-> IF opState[op] = "unborn" THEN "unborn" ELSE "deleted"]
    /\ opq' = <<>> /\ inFlight' = NoOp /\ posted' = {}
    /\ UNCHANGED <<seq, changed, server, missed, disk>>

-----------------------------------------------------------------------------
EnqueueOperation(op) ==
    /\ (IsFetch(op) \/ IsWrite(op))
    /\ Enqueue(op)
    /\ UNCHANGED <<serverVars, stateVars, walk, batch, late, budget>>

StartIdle(op) ==
    /\ StartNothing(op)
    /\ UNCHANGED <<serverVars, stateVars, walk, batch, late, budget>>

FetchTurn(op) ==
    \/ FetchBegins(op) \/ PageAnswered(op) \/ PageCut(op)
    \/ PageFailed(op) \/ PageGone(op) \/ RetryTimer(op)
WriteTurn(op) == WriteBegins(op) \/ NothingToSend(op) \/ WriteAnswered(op) \/ WriteLost(op)

Next ==
    \/ \E i \in Items : ForeignChange(i)
    \/ \E op \in Ops :
        \/ EnqueueOperation(op) \/ CancelOperation(op) \/ DeleteOperation(op)
        \/ StartIdle(op) \/ FetchTurn(op) \/ WriteTurn(op)
    \/ RequestArrives
    \/ \E r \in late : LateArrives(r) \/ LateNever(r)
    \/ Restart

(* Requests have a timeout of a minute, timers fire and posted events are  *)
(* delivered: an operation goes on while it runs.                          *)
Spec == Init /\ [][Next]_vars
FairSpec ==
    /\ Spec
    /\ WF_vars(\E op \in Ops : FetchTurn(op) \/ WriteTurn(op))
    /\ WF_vars(RequestArrives)

-----------------------------------------------------------------------------
(* A cached row stands for a row of the server; the union merge cannot     *)
(* know that an optional field was cleared, nor a skeleton what it says.   *)
Agrees(row, real) ==
    /\ row.main = real.main
    /\ Kind = "calendar" => row.note = real.note
    /\ Kind # "delta" /\ real.note # 0 => row.note = real.note

(* A token is never ahead of the rows committed with it, in memory or on   *)
(* disk: of an item that did not change since, the row is that of the      *)
(* server.  A change that is skipped here is never fetched again, so no    *)
(* walk that was cut off, restarted or refused may commit half of itself   *)
(* (docs/INVARIANTS 4 and 5).                                              *)
CoversUpTo(t, rows) == \A i \in Items : changed[i] <= t => Agrees(rows[i], server[i])
CacheAtToken ==
    HasToken => /\ token # 0 => CoversUpTo(token, cache)
                /\ disk.token # 0 => CoversUpTo(disk.token, disk.cache)

(* A fetch that succeeds reports each item as it was at some moment of the *)
(* fetch, absent only if it was; a write that succeeds has settled each    *)
(* record once, and those it calls successful are on the server, deleted   *)
(* ones gone.  But for the items a listing left out, past whose place its  *)
(* offset slipped or after a page that was cut in its body: the code takes *)
(* them for deleted, or as they were cached.                               *)
SuccessTellsTheTruth ==
    [][\A op \in Ops : opState[op] = "running" /\ opState'[op] = "succeeded" =>
        IF IsFetch(op)
        THEN \A i \in Items \ missed' : \E row \in was[i] : Agrees(memo'[i], row)
        ELSE /\ batch'.ok \union batch'.bad = UNION {Wanted(op)[k] : k \in DOMAIN Wanted(op)}
             /\ batch'.ok \intersect batch'.bad = {}
             /\ batch'.ok \subseteq batch'.done]_vars

(* An operation that was asked for is over one day, though the server      *)
(* refuses every token, or gives the walks of the client pages without an  *)
(* end; a walk that counts no pages needs a server that ends.              *)
OperationsFinish ==
    \A op \in Ops : opState[op] = "pending" ~> Over(op)
=============================================================================
