---------------------------- MODULE RemoteCalendar ----------------------------
(***************************************************************************)
(* A calendar on a CalDAV server (src/calendar/remotecalendarbackend.cpp). *)
(* The content of every item is cached in a database with its etag; what   *)
(* the server has to be asked again is decided by the collection's ctag,   *)
(* its sync token and the etags of a listing.  The server has other        *)
(* clients, and may answer a request nobody waits for any more.            *)
(*                                                                         *)
(* The server numbers its changes: the ctag and the token are the number   *)
(* of the last one, the etag of an item is that of its own last change.    *)
(* Zero stands for an empty tag and for an item that is not there.         *)
(***************************************************************************)
EXTENDS OperationQueue

CONSTANTS
    Hrefs,
    ChunkSize,      \* m_multigetChunkSize
    Window,         \* kMaxInFlightWriteJobs
    Capable,        \* whether the server knows sync-collection
    PutGivesEtag,   \* whether it answers a PUT with the new etag
    MaxSeq,         \* bound on the changes of the server
    Budgets         \* what may happen in a behaviour, one of these records:
                    \* [foreign, troubles, cancels, restarts, discoveries, direct: Nat,
                    \*  tasks: what each operation that is asked for is, "fetchItems",
                    \*         "applyRecords", "pushItems" or "deleteItems"]

Tasks == {"fetchItems", "applyRecords", "pushItems", "deleteItems"}
BudgetType == [foreign : Nat, troubles : Nat, cancels : Nat, restarts : Nat, discoveries : Nat,
               direct : Nat, tasks : UNION {[ops -> Tasks] : ops \in SUBSET Ops}]

ASSUME RemoteAssumption ==
    /\ Capable \in BOOLEAN /\ PutGivesEtag \in BOOLEAN
    /\ MaxSeq \in Nat \ {0} /\ Budgets \subseteq BudgetType

VARIABLES
    seq,            \* the server: number of the last change
    changed, there, \* of each item its last change, and whether it is there
    cached,         \* CalDavContentCache: version of each item, on disk
    ctag, token,    \* CTagStore, on disk
    etagCache,      \* m_etagCache: what a listing is compared with
    localEtags,     \* m_localEtags: what goes into If-Match
    seeded,         \* m_etagCacheSeededCalendars
    pendingCtag, supports, probed,  \* CalendarFacts of the calendar
    cur,            \* the fetch that is running
    job,            \* the write operation that waits or runs, item by item
    direct,         \* writes outside the queue of operations, item by item
    late,           \* writes on their way whose operation is over
    stray,          \* requests on their way whose operation is over
    reported,       \* history: what the last successful fetch reported
    omitted,        \* history: items the server left out of its answers to this fetch
    masked,         \* history: items that changed in one of the windows below
    budget          \* what of it may still happen

serverVars == <<seq, changed, there>>
tagVars == <<ctag, token>>
cacheVars == <<cached, etagCache, localEtags>>
factVars == <<seeded, pendingCtag, supports, probed>>
writeVars == <<job, direct, late>>
vars == <<serverVars, tagVars, cacheVars, factVars, writeVars, cur, stray, reported, omitted,
          masked, budget, opVars>>

Nothing == [h \in Hrefs |-> 0]
Version(h) == IF there[h] THEN changed[h] ELSE 0
Server == [h \in Hrefs |-> Version(h)]
Task(op) == IF op \in DOMAIN budget.tasks THEN budget.tasks[op] ELSE "none"
IsFetch(op) == Task(op) = "fetchItems"

(* A PUT is answered with a bare etag, a listing quotes its etags: the two *)
(* never compare equal.                                                    *)
Bare == -1

Idle == [phase |-> "idle", since |-> 0, stored |-> 0, from |-> 0, fresh |-> 0, at |-> 0, list |-> Nothing,
         asked |-> {}, want |-> {}, got |-> Nothing, result |-> Nothing]
NoJob == [kind |-> "none", stage |-> "idle", etag |-> 0, base |-> 0, version |-> 0]
NoJobs == [h \in Hrefs |-> NoJob]

(* A write outside the queue is launched by startSync ("batch"), by        *)
(* removeItem ("remove") or by a call that waits for it ("call").          *)
Callers == {"batch", "remove", "call"}
NoDirect == [by |-> "none", kind |-> "none", stage |-> "idle", etag |-> 0, version |-> 0]
AnyEtag == -2

(* The first life of the client, or a later one that finds its tags and    *)
(* its content on disk.                                                    *)
Init ==
    /\ seq = 1 /\ changed = [h \in Hrefs |-> 1] /\ there \in [Hrefs -> BOOLEAN]
    /\ \/ cached = Nothing /\ ctag = 0 /\ token = 0
       \/ cached = Server /\ ctag = 1 /\ token \in (IF Capable THEN {0, 1} ELSE {0})
    /\ etagCache = Nothing /\ localEtags = Nothing
    /\ seeded = FALSE /\ pendingCtag = 0 /\ supports = FALSE /\ probed = FALSE
    /\ cur = Idle /\ job = NoJobs /\ direct = [h \in Hrefs |-> NoDirect] /\ late = {} /\ stray = {}
    /\ reported = <<>> /\ omitted = {} /\ masked = {} /\ budget \in Budgets
    /\ OpInit

Spend(what) == budget[what] > 0 /\ budget' = [budget EXCEPT ![what] = @ - 1]
Trouble(happens) == IF happens THEN Spend("troubles") ELSE UNCHANGED budget

(***************************************************************************)
(* The server.  Whatever was masked is noticed again when it changes again.*)
(***************************************************************************)
Change(h, present) ==
    /\ seq < MaxSeq /\ seq' = seq + 1
    /\ changed' = [changed EXCEPT ![h] = seq + 1]
    /\ there' = [there EXCEPT ![h] = present]
    /\ masked' = masked \ {h}

ForeignChange(h) ==
    /\ Spend("foreign")
    /\ \E present \in BOOLEAN : (present \/ there[h]) /\ Change(h, present)
    /\ UNCHANGED <<omitted, tagVars, cacheVars, factVars, writeVars, cur, stray, reported, opVars>>

(***************************************************************************)
(* The caches.                                                             *)
(***************************************************************************)
Overlay(f, g) == [h \in Hrefs |-> IF g[h] # 0 THEN g[h] ELSE f[h]]
Dropped(f, hs) == [h \in Hrefs |-> IF h \in hs THEN 0 ELSE f[h]]

Erase(hs) ==
    /\ cached' = Dropped(cached, hs)
    /\ etagCache' = Dropped(etagCache, hs)
    /\ localEtags' = Dropped(localEtags, hs)

(* The row of a calendar holds both tags: clearing the ctag deletes it.    *)
ClearTags == ctag' = 0 /\ token' = 0

Succeeds(op, result) ==
    /\ reported' = result /\ cur' = Idle
    /\ End(op, "succeeded")
Fails(op) ==
    /\ cur' = Idle /\ UNCHANGED reported
    /\ End(op, "failed")
Goes(next) == cur' = next /\ UNCHANGED <<reported, opVars>>

(***************************************************************************)
(* fetchItems().                                                           *)
(***************************************************************************)
Running(op) == op = inFlight /\ opState[op] = "running"
InPhase(op, phase) == IsFetch(op) /\ Running(op) /\ cur.phase = phase

Stage(fresh) == pendingCtag' = IF fresh # 0 THEN fresh ELSE pendingCtag

(* continueFetchWithListing(): the etags of the content on disk are taken  *)
(* over once in a life, before the first listing.                          *)
SeedEtags ==
    /\ seeded' = TRUE
    /\ etagCache' = IF seeded THEN etagCache ELSE Overlay(etagCache, cached)

ToListing(fresh, c) ==
    /\ Stage(fresh) /\ SeedEtags
    /\ Goes([c EXCEPT !.phase = "list", !.fresh = fresh])
ToReport(fresh, c) ==
    /\ Stage(fresh) /\ UNCHANGED <<seeded, etagCache>>
    /\ Goes([c EXCEPT !.phase = "report", !.fresh = fresh, !.from = token])

(* The body begins: without a stored ctag there is nothing to compare.     *)
FetchBegins(op) ==
    /\ IsFetch(op) /\ op \in posted /\ opState[op] = "pending"
    /\ posted' = posted \ {op}
    /\ opState' = [opState EXCEPT ![op] = "running"]
    /\ LET c == [Idle EXCEPT !.since = seq]
       IN IF ctag = 0
          THEN /\ SeedEtags
               /\ cur' = [c EXCEPT !.phase = "list"]
          ELSE /\ cur' = [c EXCEPT !.phase = "ctag", !.stored = ctag]
               /\ UNCHANGED <<seeded, etagCache>>
    /\ omitted' = {}
    /\ UNCHANGED <<serverVars, tagVars, cached, localEtags, pendingCtag, supports, probed,
                   writeVars, stray, reported, masked, budget, opq, inFlight>>

(* A ctag that did not change serves the cache, unless the cache is empty: *)
(* then both tags are distrusted.  A failed request leaves no fresh ctag.  *)
CtagAnswered(op) ==
    /\ InPhase(op, "ctag")
    /\ \E failed \in BOOLEAN :
        LET fresh == IF failed THEN 0 ELSE seq
            match == fresh # 0 /\ fresh = cur.stored
            known == IF match THEN 0 ELSE token
        IN /\ Trouble(failed)
           /\ IF match /\ cached # Nothing
              THEN /\ Succeeds(op, cached)
                   /\ UNCHANGED <<tagVars, factVars, etagCache>>
              ELSE /\ IF match THEN ClearTags ELSE UNCHANGED tagVars
                   /\ IF ~probed /\ known # 0
                      THEN /\ Goes([cur EXCEPT !.phase = "probe", !.fresh = fresh])
                           /\ UNCHANGED <<seeded, pendingCtag, etagCache>>
                      ELSE IF supports /\ known # 0 THEN ToReport(fresh, cur)
                      ELSE ToListing(fresh, cur)
                   /\ UNCHANGED <<supports, probed>>
    /\ UNCHANGED <<omitted, serverVars, cached, localEtags, writeVars, stray, masked>>

(* probeSyncCollectionSupport(): a failed probe counts as an answer.       *)
Probed(failed) ==
    /\ Trouble(failed)
    /\ supports' = (supports \/ (Capable /\ ~failed))
    /\ probed' = TRUE

ProbeAnswered(op) ==
    /\ InPhase(op, "probe")
    /\ \E failed \in BOOLEAN : Probed(failed)
    /\ IF supports' /\ token # 0 THEN ToReport(cur.fresh, cur) ELSE ToListing(cur.fresh, cur)
    /\ UNCHANGED <<omitted, serverVars, tagVars, cached, localEtags, writeVars, stray, masked>>

(* bootstrapSyncTokenIfNeeded(): without a token one is asked for, after   *)
(* the listing.                                                            *)
AfterListing(op, result) ==
    IF supports /\ token = 0
    THEN Goes([cur EXCEPT !.phase = "token", !.result = result])
    ELSE Succeeds(op, result)

CommitPending(complete) ==
    /\ ctag' = IF complete /\ pendingCtag # 0 THEN pendingCtag ELSE ctag
    /\ UNCHANGED token

(* What a listing serves of the items nobody had to ask for.               *)
FromCache(list) == [h \in Hrefs |-> IF cached[h] = list[h] THEN list[h] ELSE 0]

(* The first of the windows in which a tag may get ahead of the cache: a   *)
(* listing misses an item only by its etag, so one whose update was        *)
(* answered without an etag is never found gone.                           *)
Orphans == {h \in Hrefs : ~there[h] /\ cached[h] # 0 /\ etagCache[h] = 0}

ListAnswered(op) ==
    /\ InPhase(op, "list")
    /\ masked' = masked \union Orphans
    /\ LET gone == {h \in Hrefs : etagCache[h] # 0 /\ ~there[h]}
           dirty == {h \in Hrefs : there[h] /\ etagCache[h] # Version(h)}
           served == FromCache(Server)
       IN IF dirty # {}
          THEN /\ Erase(gone)
               /\ Goes([cur EXCEPT !.phase = "get", !.list = Server, !.at = seq,
                                   !.asked = dirty, !.want = dirty])
               /\ UNCHANGED tagVars
          ELSE /\ cached' = Dropped(cached, gone)
               /\ etagCache' = Overlay(Dropped(etagCache, gone), served)
               /\ localEtags' = Overlay(Dropped(localEtags, gone), served)
               /\ CommitPending(Server # Nothing /\ served = Server)
               /\ AfterListing(op, served)
    /\ UNCHANGED <<omitted, serverVars, factVars, writeVars, stray, budget>>

(* A multiget answers with the items as they are now; items that are gone  *)
(* meanwhile are not in the answer, nor those the server leaves out.       *)
Batch(hs) == hs \subseteq cur.want /\ Cardinality(hs) =
                (IF Cardinality(cur.want) < ChunkSize THEN Cardinality(cur.want) ELSE ChunkSize)
Got(hs, left) == [h \in Hrefs |-> IF h \in hs \ left THEN Version(h) ELSE cur.got[h]]

BatchAnswered(hs, left) ==
    /\ Goes([cur EXCEPT !.want = @ \ hs, !.got = Got(hs, left)])
    /\ UNCHANGED <<cacheVars, tagVars>>

(* processFetchedItems(), after the last batch: the pending ctag is        *)
(* committed only when every item of the listing materialised.             *)
CompleteOrNot(result) == TRUE
Complete(result) == \A h \in Hrefs : cur.list[h] # 0 => result[h] # 0

ProcessFetchedItems(op, got) ==
    LET result == [h \in Hrefs |->
            IF cur.list[h] = 0 THEN 0
            ELSE IF got[h] # 0 THEN got[h] ELSE FromCache(cur.list)[h]]
    IN /\ cached' = Overlay(cached, got)
       /\ etagCache' = Overlay(etagCache, result)
       /\ localEtags' = Overlay(localEtags, result)
       /\ CommitPending(Complete(result))
       /\ AfterListing(op, result)

(* completeSyncCollectionFetch(): the whole cache is served.               *)
CompleteDelta(op, got) ==
    /\ cached' = Overlay(cached, got)
    /\ etagCache' = Overlay(etagCache, got)
    /\ localEtags' = Overlay(localEtags, got)
    /\ IF \A h \in cur.asked : got[h] # 0
       THEN /\ token' = cur.at
            /\ ctag' = IF pendingCtag # 0 THEN pendingCtag
                       ELSE IF cur.fresh # 0 THEN cur.fresh ELSE ctag
       ELSE UNCHANGED tagVars
    /\ Succeeds(op, cached')

MultigetAnswered(op) ==
    /\ InPhase(op, "get") \/ InPhase(op, "delta")
    /\ \E hs \in SUBSET cur.want : \E left \in SUBSET hs :
        /\ Batch(hs) /\ Cardinality(left) <= 1 /\ Trouble(left # {})
        /\ omitted' = omitted \union left
        /\ IF hs # cur.want THEN BatchAnswered(hs, left)
           ELSE IF cur.phase = "get" THEN ProcessFetchedItems(op, Got(hs, left))
           ELSE CompleteDelta(op, Got(hs, left))
    /\ UNCHANGED <<serverVars, factVars, writeVars, stray, masked>>

(* Two more of these windows: the token is taken after the listing, or     *)
(* later, while a fetch or a write has read an older version and has yet   *)
(* to put it into the cache; and a discovery may put its own ctag where a  *)
(* fetch has staged the one it will commit.                                *)
Returning ==
    {h \in Hrefs : \/ cur.phase \in {"get", "delta"} /\ cur.got[h] \notin {0, Version(h)}
                   \/ job[h].stage = "ok" /\ job[h].version < changed[h]}
Unseen == {h \in Hrefs : cached[h] # Version(h)} \union Returning
TakeToken == token' = seq /\ masked' = masked \union Unseen

TokenAnswered(op) ==
    /\ InPhase(op, "token")
    /\ \E failed \in BOOLEAN :
        /\ Trouble(failed)
        /\ IF failed THEN UNCHANGED <<token, masked>> ELSE TakeToken
    /\ Succeeds(op, cur.result)
    /\ UNCHANGED <<omitted, serverVars, ctag, cacheVars, factVars, writeVars, stray>>

(* continueFetchWithSyncCollection(): tombstones apply at once.  A token   *)
(* the server does not know, or an answer without one, leads to a listing. *)
NoTombstones == {}
Tombstones == {h \in Hrefs : ~there[h] /\ changed[h] > cur.from}

ReportAnswered(op) ==
    /\ InPhase(op, "report")
    /\ LET fresher == {h \in Hrefs : there[h] /\ changed[h] > cur.from}
       IN /\ Erase(Tombstones)
          /\ IF fresher = {}
             THEN /\ token' = seq
                  /\ ctag' = IF cur.fresh # 0 THEN cur.fresh ELSE ctag
                  /\ Succeeds(op, cached')
             ELSE /\ Goes([cur EXCEPT !.phase = "delta", !.at = seq,
                                      !.asked = fresher, !.want = fresher])
                  /\ UNCHANGED tagVars
    /\ UNCHANGED <<omitted, serverVars, factVars, writeVars, stray, masked, budget>>

ReportRefused(op) ==
    /\ InPhase(op, "report") /\ Spend("troubles")
    /\ token' \in {0, token}
    /\ ToListing(cur.fresh, cur)
    /\ UNCHANGED <<omitted, serverVars, ctag, cached, localEtags, supports, probed, writeVars, stray,
                   masked>>

(* An error, or the watchdog of startJobWithWatchdog().                    *)
FetchFails(op) ==
    /\ IsFetch(op) /\ Running(op) /\ cur.phase \in {"report", "list", "get", "delta"}
    /\ Spend("troubles")
    /\ Fails(op)
    /\ UNCHANGED <<omitted, serverVars, tagVars, cacheVars, factVars, writeVars, stray, masked>>

(***************************************************************************)
(* Writes.  Nothing kills a request: what the watchdog or a cancellation   *)
(* gave up may still arrive.                                               *)
(***************************************************************************)
Items(j, stages) == {h \in Hrefs : j[h].kind # "none" /\ j[h].stage \in stages}
InFlight == {"sent", "ok", "no"}
Rank == [create |-> 1, update |-> 2, delete |-> 3]
WindowOf(op) == IF Task(op) = "applyRecords" THEN Window ELSE Cardinality(Hrefs)

(* The pump starts as many of the next writes as the window has room for:  *)
(* creates first, then updates, then deletions.                            *)
Firsts(j, n) ==
    LET queued == Items(j, {"queued"})
    IN {hs \in SUBSET queued :
            /\ Cardinality(hs) = (IF n < Cardinality(queued) THEN n ELSE Cardinality(queued))
            /\ \A x \in hs, y \in queued \ hs : Rank[j[x].kind] <= Rank[j[y].kind]}
Room(j, op) == WindowOf(op) - Cardinality(Items(j, InFlight))
StartedOnce(j, op) ==
    IF Items(j, {"done", "bad"}) = {} THEN Firsts(j, Room(j, op)) ELSE {{}}
Started(j, op) == Firsts(j, Room(j, op))

(* Each takes its etag as it starts.                                       *)
Sent(j, hs, etags) ==
    [h \in Hrefs |->
        IF h \in hs
        THEN [j[h] EXCEPT !.stage = "sent",
                          !.etag = IF j[h].kind = "create" THEN 0 ELSE etags[h]]
        ELSE j[h]]

(* What a caller asks for: it has the last fetch to go by.                 *)
Kinds(op, h) ==
    CASE Task(op) = "pushItems" -> {"none", "create"}
      [] Task(op) = "deleteItems" -> {"none", "delete"}
      [] Task(op) = "applyRecords" ->
            {"none"} \union (IF reported[h] = 0 THEN {"create"} ELSE {"update", "delete"})

EnqueueOperation(op) ==
    /\ Task(op) # "none"
    /\ IF IsFetch(op) THEN UNCHANGED job
       ELSE /\ reported # <<>>
            /\ \A other \in Ops : IsFetch(other) \/ opState[other] \in {"unborn", "deleted"}
            /\ \E plan \in [Hrefs -> {"none", "create", "update", "delete"}] :
                /\ \A h \in Hrefs : plan[h] \in Kinds(op, h)
                /\ job' = [h \in Hrefs |-> [NoJob EXCEPT !.kind = plan[h],
                                !.stage = "queued", !.base = reported[h]]]
    /\ Enqueue(op)
    /\ UNCHANGED <<omitted, serverVars, tagVars, cacheVars, factVars, direct, late, cur, stray, reported,
                   masked, budget>>

WriteBegins(op) ==
    /\ ~IsFetch(op)
    /\ StartBody(op)
    /\ \E hs \in Started(job, op) : job' = Sent(job, hs, localEtags)
    /\ UNCHANGED <<omitted, serverVars, tagVars, cacheVars, factVars, direct, late, cur, stray, reported,
                   masked, budget>>

WriteNothing(op) ==
    /\ ~IsFetch(op) /\ Running(op)
    /\ \A h \in Hrefs : job[h].kind = "none"
    /\ job' = NoJobs /\ End(op, "succeeded")
    /\ UNCHANGED <<omitted, serverVars, tagVars, cacheVars, factVars, direct, late, cur, stray, reported,
                   masked, budget>>

(* The server: a PUT that creates has If-None-Match: *, that of a waiting  *)
(* call nothing; the others have If-Match, unless no etag is known.        *)
Accepts(h, kind, etag) ==
    CASE kind = "create" -> ~there[h]
      [] kind = "put" -> TRUE
      [] kind = "update" -> etag = 0 \/ (there[h] /\ etag \in {changed[h], AnyEtag})
      [] kind = "delete" -> there[h] /\ etag \in {0, changed[h]}

WriteArrives(h) ==
    /\ job[h].stage = "sent"
    /\ IF Accepts(h, job[h].kind, job[h].etag)
       THEN /\ Change(h, job[h].kind # "delete")
            /\ job' = [job EXCEPT ![h].stage = "ok", ![h].version = seq + 1]
       ELSE /\ job' = [job EXCEPT ![h].stage = "no"]
            /\ UNCHANGED <<serverVars, masked>>
    /\ UNCHANGED <<omitted, tagVars, cacheVars, factVars, direct, late, cur, stray, reported, budget, opVars>>

(* noteItemWritten() after a create, noteItemErased() after a deletion;    *)
(* setRawIcsAsync() remembers the etag of an update, not its content.      *)
Written(h, version, tag) ==
    /\ cached' = [cached EXCEPT ![h] = version]
    /\ etagCache' = [etagCache EXCEPT ![h] = tag]
    /\ localEtags' = [localEtags EXCEPT ![h] = version]

Noted(h, kind, version) ==
    CASE kind = "create" -> Written(h, version, version)
      [] kind = "update" ->
            /\ etagCache' = [etagCache EXCEPT ![h] = IF PutGivesEtag THEN Bare ELSE 0]
            /\ localEtags' = [localEtags EXCEPT ![h] = IF PutGivesEtag THEN version ELSE 0]
            /\ UNCHANGED cached
      [] kind = "delete" -> Erase({h})

(* The accounting of every write: the next one starts, and with the last   *)
(* one the operation ends; it fails only when nothing succeeded.           *)
ItemDone(op, j) ==
    IF Items(j, {"queued"} \union InFlight) = {}
    THEN job' = NoJobs /\ End(op, IF Items(j, {"done"}) # {} THEN "succeeded" ELSE "failed")
    ELSE /\ \E hs \in Started(j, op) : job' = Sent(j, hs, localEtags')
         /\ UNCHANGED opVars

SettledTags(j) ==
    IF Items(j, {"queued"} \union InFlight) = {} /\ Items(j, {"done"}) # {}
    THEN ClearTags ELSE UNCHANGED tagVars

WriteAnswered(op, h) ==
    /\ ~IsFetch(op) /\ Running(op) /\ job[h].stage \in {"ok", "no"}
    /\ LET ok == job[h].stage = "ok"
           j == [job EXCEPT ![h].stage = IF ok THEN "done" ELSE "bad"]
       IN /\ IF ok THEN Noted(h, job[h].kind, job[h].version) ELSE UNCHANGED cacheVars
          /\ IF ok /\ job[h].kind = "update" THEN ClearTags ELSE SettledTags(j)
          /\ ItemDone(op, j)
    /\ UNCHANGED <<omitted, serverVars, factVars, direct, late, cur, stray, reported, masked, budget>>

(* The watchdog: the item counts as failed whether it arrives or not.      *)
Abandoned(hs, heard) ==
    {[href |-> h, job |-> job[h], heard |-> heard /\ job[h].kind = "update"] :
        h \in {x \in hs : job[x].stage = "sent" \/ (heard /\ job[x].stage = "ok")}}

WriteTimesOut(op, h) ==
    /\ ~IsFetch(op) /\ Running(op) /\ job[h].stage \in InFlight
    /\ Spend("troubles")
    /\ late' = late \union Abandoned({h}, FALSE)
    /\ LET j == [job EXCEPT ![h].stage = "bad"]
       IN SettledTags(j) /\ UNCHANGED localEtags /\ ItemDone(op, j)
    /\ UNCHANGED <<omitted, serverVars, cached, etagCache, factVars, direct, cur, stray, reported,
                   masked>>

(* Of the writes of a cancelled operation only an update still hears its   *)
(* answer.                                                                 *)
LateWriteArrives(w) ==
    /\ w.job.stage = "sent"
    /\ IF Accepts(w.href, w.job.kind, w.job.etag)
       THEN /\ Change(w.href, w.job.kind # "delete")
            /\ late' = (late \ {w}) \union
                 (IF w.heard THEN {[w EXCEPT !.job.stage = "ok", !.job.version = seq + 1]} ELSE {})
       ELSE late' = late \ {w} /\ UNCHANGED <<serverVars, masked>>
    /\ UNCHANGED <<omitted, tagVars, cacheVars, factVars, job, direct, cur, stray, reported, budget, opVars>>

LateWriteAnswered(w) ==
    /\ w.job.stage = "ok"
    /\ late' = late \ {w}
    /\ IF w.heard THEN Noted(w.href, w.job.kind, w.job.version) /\ ClearTags
       ELSE UNCHANGED <<cacheVars, tagVars>>
    /\ UNCHANGED <<omitted, serverVars, factVars, job, direct, cur, stray, reported, masked, budget, opVars>>

(***************************************************************************)
(* Writes outside the queue: a fetch or a write operation may be running.  *)
(***************************************************************************)
Launch(by, plan, etags) ==
    /\ \A h \in DOMAIN plan : direct[h].by = "none"
    /\ direct' = [h \in Hrefs |->
            IF h \in DOMAIN plan
            THEN [by |-> by, kind |-> plan[h], stage |-> "sent", etag |-> etags[h], version |-> 0]
            ELSE direct[h]]
    /\ UNCHANGED <<serverVars, omitted, tagVars, cacheVars, factVars, job, late, cur, stray,
                   reported, masked, opVars>>

Batched == {h \in Hrefs : direct[h].by = "batch"}

(* startSync(): all that was staged is sent at once.  A deletion brings    *)
(* the etag of its caller.                                                 *)
StartSync(plan) ==
    /\ reported # <<>> /\ Batched = {} /\ DOMAIN plan # {}
    /\ \A h \in DOMAIN plan : plan[h] # "create" => reported[h] # 0
    /\ Launch("batch", plan, [h \in DOMAIN plan |-> CASE plan[h] = "create" -> 0
                                                      [] plan[h] = "update" -> localEtags[h]
                                                      [] plan[h] = "delete" -> reported[h]])

RemoveItem(h) == Launch("remove", [x \in {h} |-> "delete"], localEtags)

(* createRecord(), updateRecord() and deleteRecord() wait in an event loop *)
(* of their own.                                                           *)
CallRecord(h, kind) ==
    /\ \A x \in Hrefs : direct[x].by # "call"
    /\ kind \in {"update", "delete"} => localEtags[h] # 0 \/ cached[h] # 0
    /\ Launch("call", [x \in {h} |-> kind], IF kind = "put" THEN Nothing ELSE localEtags)

DirectWrite ==
    /\ Spend("direct")
    /\ \/ \E hs \in SUBSET Hrefs : \E plan \in [hs -> {"create", "update", "delete"}] :
            StartSync(plan)
       \/ \E h \in Hrefs : RemoveItem(h)
       \/ \E h \in Hrefs : \E kind \in {"put", "update", "delete"} : CallRecord(h, kind)

DirectArrives(h) ==
    /\ direct[h].stage = "sent"
    /\ IF Accepts(h, direct[h].kind, direct[h].etag)
       THEN /\ Change(h, direct[h].kind # "delete")
            /\ direct' = [direct EXCEPT ![h].stage = "ok", ![h].version = seq + 1]
       ELSE /\ direct' = [direct EXCEPT ![h].stage = "no"]
            /\ UNCHANGED <<serverVars, masked>>
    /\ UNCHANGED <<omitted, tagVars, cacheVars, factVars, job, late, cur, stray, reported, budget,
                   opVars>>

(* The batch stores what it wrote, as a creation does; a call stores the   *)
(* bare etag of its answer, and only a call distrusts the tags.  When the  *)
(* answer comes after a fetch of a newer version it puts the older one in  *)
(* its place (the fourth window); a call does so only for a fetch that has *)
(* read the ctag already.                                                  *)
DirectNoted(h) ==
    LET d == direct[h]
    IN /\ CASE d.kind = "delete" -> Erase({h})
             [] d.kind # "delete" /\ d.by = "batch" -> Written(h, d.version, d.version)
             [] d.kind = "put" /\ d.by = "call" ->
                    IF PutGivesEtag THEN Written(h, d.version, Bare) ELSE UNCHANGED cacheVars
             [] d.kind = "update" /\ d.by = "call" -> Noted(h, "update", d.version)
       /\ IF d.by = "call" THEN ClearTags ELSE UNCHANGED tagVars
       /\ masked' = IF changed[h] > d.version /\ (d.by # "call" \/ cur.phase # "idle")
                    THEN masked \union {h} ELSE masked

(* launchStartSyncModify(): a creation that meets an item becomes an       *)
(* update, and an update that meets another version is sent once more,     *)
(* for any version there is.                                               *)
Again(d, h) ==
    IF d.by # "batch" \/ d.kind = "delete" \/ d.etag = AnyEtag THEN NoDirect
    ELSE IF d.kind = "create"
    THEN [d EXCEPT !.kind = "update", !.stage = "sent", !.etag = localEtags[h]]
    ELSE [d EXCEPT !.stage = "sent", !.etag = AnyEtag]

DirectAnswered(h) ==
    /\ direct[h].stage \in {"ok", "no"}
    /\ IF direct[h].stage = "ok"
       THEN DirectNoted(h) /\ direct' = [direct EXCEPT ![h] = NoDirect]
       ELSE /\ direct' = [direct EXCEPT ![h] = Again(direct[h], h)]
            /\ UNCHANGED <<cacheVars, tagVars, masked>>
    /\ UNCHANGED <<serverVars, omitted, factVars, job, late, cur, stray, reported, budget, opVars>>

DirectLate(hs) ==
    {[href |-> h, heard |-> FALSE, job |-> [NoJob EXCEPT
        !.kind = direct[h].kind, !.stage = "sent", !.etag = direct[h].etag]] :
        h \in {x \in hs : direct[x].stage = "sent"}}

DirectTimesOut(h) ==
    /\ direct[h].stage # "idle"
    /\ Spend("troubles")
    /\ late' = late \union DirectLate({h})
    /\ direct' = [direct EXCEPT ![h] = NoDirect]
    /\ UNCHANGED <<serverVars, omitted, tagVars, cacheVars, factVars, job, cur, stray, reported,
                   masked, opVars>>

(***************************************************************************)
(* Cancellation, discovery, restart.                                       *)
(***************************************************************************)
(* The answers of a probe and of a token request are used even then.       *)
CancelOperation(op) ==
    /\ Spend("cancels")
    /\ CancelOp(op)
    /\ IF IsFetch(op)
       THEN /\ cur' = IF Running(op) THEN Idle ELSE cur
            /\ stray' = IF InPhase(op, "probe") \/ InPhase(op, "token")
                        THEN stray \union {[what |-> cur.phase, fresh |-> cur.fresh]} ELSE stray
            /\ UNCHANGED <<job, late>>
       ELSE /\ job' = NoJobs
            /\ late' = late \union Abandoned(Hrefs, TRUE)
            /\ UNCHANGED <<cur, stray>>
    /\ UNCHANGED <<omitted, serverVars, tagVars, cacheVars, factVars, direct, reported, masked>>

DeleteOperation(op) ==
    /\ Task(op) # "none"
    /\ DeleteOp(op)
    /\ UNCHANGED <<omitted, serverVars, tagVars, cacheVars, factVars, writeVars, cur, stray, reported,
                   masked, budget>>

(* loadCalendars(): the ctag a discovery reads is staged, and every        *)
(* calendar is probed.                                                     *)
Discovered ==
    /\ Spend("discoveries")
    /\ pendingCtag' = seq
    /\ stray' = stray \union {[what |-> "discovery", fresh |-> 0]}
    /\ masked' = masked \union
         (IF cur.phase \in {"get", "delta"} THEN {h \in Hrefs : changed[h] > cur.at} ELSE {})
    /\ UNCHANGED <<omitted, serverVars, tagVars, cacheVars, seeded, supports, probed, writeVars, cur,
                   reported, opVars>>

StrayAnswered(r) ==
    /\ stray' = stray \ {r}
    /\ IF r.what = "token"
       THEN TakeToken /\ UNCHANGED <<ctag, factVars, etagCache, budget>>
       ELSE /\ \E failed \in BOOLEAN : Probed(failed)
            /\ IF r.what = "discovery" THEN UNCHANGED <<pendingCtag, seeded, etagCache>>
               ELSE /\ Stage(r.fresh)
                    /\ IF supports' /\ token # 0 THEN UNCHANGED <<seeded, etagCache>>
                       ELSE SeedEtags
            /\ UNCHANGED <<tagVars, masked>>
    /\ UNCHANGED <<omitted, serverVars, cached, localEtags, writeVars, cur, reported, opVars>>

(* The program ends and is started again: what was on its way may arrive.  *)
Restart ==
    /\ Spend("restarts")
    /\ late' = {[w EXCEPT !.heard = FALSE] :
                    w \in {x \in late \union Abandoned(Hrefs, FALSE) \union DirectLate(Hrefs) :
                              x.job.stage = "sent"}}
    /\ opState' = [op \in Ops |-> IF opState[op] = "unborn" THEN "unborn" ELSE "deleted"]
    /\ opq' = <<>> /\ inFlight' = NoOp /\ posted' = {}
    /\ cur' = Idle /\ job' = NoJobs /\ direct' = [h \in Hrefs |-> NoDirect] /\ stray' = {} /\ reported' = <<>>
    /\ etagCache' = Nothing /\ localEtags' = Nothing
    /\ seeded' = FALSE /\ pendingCtag' = 0 /\ supports' = FALSE /\ probed' = FALSE
    /\ UNCHANGED <<omitted, serverVars, tagVars, cached, masked>>

-----------------------------------------------------------------------------
StartIdle(op) ==
    /\ StartNothing(op)
    /\ UNCHANGED <<omitted, serverVars, tagVars, cacheVars, factVars, writeVars, cur, stray, reported,
                   masked, budget>>

FetchTurn(op) ==
    \/ FetchBegins(op) \/ CtagAnswered(op) \/ ProbeAnswered(op) \/ ListAnswered(op)
    \/ MultigetAnswered(op) \/ TokenAnswered(op) \/ ReportAnswered(op) \/ ReportRefused(op)
    \/ FetchFails(op)
WriteTurn(op) ==
    \/ WriteBegins(op) \/ WriteNothing(op)
    \/ \E h \in Hrefs : WriteAnswered(op, h) \/ WriteTimesOut(op, h)

Next ==
    \/ \E h \in Hrefs : ForeignChange(h) \/ WriteArrives(h)
    \/ DirectWrite
    \/ \E h \in Hrefs : DirectArrives(h) \/ DirectAnswered(h) \/ DirectTimesOut(h)
    \/ \E op \in Ops :
        \/ EnqueueOperation(op) \/ CancelOperation(op) \/ DeleteOperation(op)
        \/ StartIdle(op) \/ FetchTurn(op) \/ WriteTurn(op)
    \/ \E w \in late : LateWriteArrives(w) \/ LateWriteAnswered(w)
    \/ Discovered \/ Restart
    \/ \E r \in stray : StrayAnswered(r)

(* Every request of a running operation is answered, or given up by its    *)
(* watchdog; nothing is assumed of the others.                             *)
Spec == Init /\ [][Next]_vars
FairSpec ==
    /\ Spec
    /\ WF_vars(\E op \in Ops : FetchTurn(op) \/ WriteTurn(op))
    /\ \A h \in Hrefs :
        WF_vars(WriteArrives(h)) /\ WF_vars(DirectArrives(h)) /\ WF_vars(DirectAnswered(h))

-----------------------------------------------------------------------------
(* Every variable has its type, and a fetch or a write is under way only   *)
(* while the operation whose turn it is runs.                              *)
TypeOK ==
    /\ OpTypeOK
    /\ seq \in 1..MaxSeq /\ changed \in [Hrefs -> 1..MaxSeq] /\ there \in [Hrefs -> BOOLEAN]
    /\ cached \in [Hrefs -> 0..seq] /\ ctag \in 0..seq /\ token \in 0..seq
    /\ etagCache \in [Hrefs -> {Bare} \union 0..seq] /\ localEtags \in [Hrefs -> 0..seq]
    /\ pendingCtag \in 0..seq
    /\ cur.phase # "idle" =>
          inFlight = "dangling" \/ \E op \in Ops : IsFetch(op) /\ Running(op)
    /\ Items(job, InFlight) # {} =>
          inFlight = "dangling" \/ \E op \in Ops : ~IsFetch(op) /\ Running(op)
    /\ \A h \in Hrefs : direct[h].by \in {"none"} \union Callers
    /\ masked \subseteq Hrefs /\ DOMAIN budget.tasks \subseteq Ops

(* A stored ctag or token is never ahead of the content cache: of an item  *)
(* that did not change since the tag, the cache holds what the server has  *)
(* (the comments call it N5).  Otherwise the change is never fetched.  But *)
(* for the windows in which the code loses a change.                       *)
TagsBehindCache ==
    \A h \in Hrefs \ masked :
        changed[h] <= ctag \/ changed[h] <= token => cached[h] = Version(h)

(* An item that did not change while a fetch ran is reported as it is, and *)
(* one that is not there is not reported, by every fetch that succeeds: an *)
(* item a fetch leaves out looks like a deletion to the engine.  But for   *)
(* items the server left out of its answer to a multiget: the code counts  *)
(* them, and succeeds without them.                                        *)
FetchTellsTheTruth ==
    [][\A op \in Ops :
        (IsFetch(op) /\ opState[op] # "succeeded" /\ opState'[op] = "succeeded") =>
            \A h \in Hrefs \ (masked' \union omitted') :
                changed[h] <= cur.since => reported'[h] = Version(h)]_vars

(* A write replaces the version its caller had read, never one of another  *)
(* client it has not seen.  (remotecalendarbackend.cpp: "Cached ETag goes  *)
(* in If-Match to prevent overwriting concurrent changes.")                *)
OverwritesOnlyWhatWasRead ==
    [][\A h \in Hrefs :
        (job[h].stage = "sent" /\ job[h].kind \in {"update", "delete"} /\ job'[h].stage = "ok") =>
            Version(h) = job[h].base]_vars

(* An operation that was asked for is over one day, and so is a batch of   *)
(* startSync(): every item is counted once, also one that is retried       *)
(* after a refused precondition.                                           *)
OperationsFinish ==
    /\ \A op \in Ops : (opState[op] = "pending") ~> Over(op)
    /\ (Batched # {}) ~> (Batched = {})
=============================================================================
