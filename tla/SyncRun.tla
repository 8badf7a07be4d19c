------------------------------ MODULE SyncRun ------------------------------
(***************************************************************************)
(* One run of the sync engine: class SyncEngine (engine thread), its       *)
(* MappingQueue, and the pool of SyncEngineWorker threads it dispatches    *)
(* mappings to (src/engine/syncengine.cpp, mappingqueue.cpp).              *)
(*                                                                         *)
(* The engine thread is event driven: every slot it runs is one action,    *)
(* except pumpQueue(), whose loop body is an action of its own because the *)
(* workers run while it loops.  `pc' says whether the engine is inside the *)
(* loop.  A worker is a thread with an event loop: `mail[s]' is its queue  *)
(* of posted events, `out[s]' the signals it has queued for the engine.    *)
(* What a mapping's reconciliation does is abstracted to how it ends and   *)
(* which sides it wrote; module Reconcile opens it.                        *)
(***************************************************************************)
EXTENDS Integers, Sequences, FiniteSets

CONSTANTS
    MappingCount,   \* the configured mappings are 1..MappingCount, in list order
    Endpoints,      \* (backend, collection) pairs; see Source, Target
    Backends, Resources,
    Source, Target, \* mapping -> endpoint
    BackendOf,      \* endpoint -> backend
    ResourceOf,     \* backend -> resourceId()
    BackendCap,     \* backend -> maxConcurrentOperations(), 0 for unlimited
    PoolLimit,      \* bound: the largest m_maxConcurrentMappings a host sets
    Requests,       \* the SyncRequests hosts make
    Togglable,      \* the mappings hosts enable and disable
    Cancels,        \* how hosts cancel: a subset of {"future", "reason"}
    Losable,        \* the resources that may be reported lost
    Conflicts,      \* mappings that may meet a conflict nobody resolved yet
    HasControllers, \* whether active DecSync controllers are registered
    MaxSyncPasses, MaxResolutionPasses

Mappings == 1..MappingCount
Slots == 1..PoolLimit
ControlSlot == 1
None == 0

ASSUME SizesAssumption ==
    /\ MappingCount \in Nat \ {0}
    /\ PoolLimit \in Nat \ {0}
    /\ MaxSyncPasses \in Nat /\ MaxResolutionPasses \in Nat
    /\ HasControllers \in BOOLEAN

ASSUME TopologyAssumption ==
    /\ Source \in [Mappings -> Endpoints]
    /\ Target \in [Mappings -> Endpoints]
    /\ BackendOf \in [Endpoints -> Backends]
    /\ ResourceOf \in [Backends -> Resources]
    /\ BackendCap \in [Backends -> Nat]

(* ids is what the request selects: {} stands for every enabled mapping,   *)
(* one id for a single-mapping run, more for a subset.  concurrency is the *)
(* m_maxConcurrentMappings in force when the run starts.                   *)
Request == [ids : SUBSET Mappings, monitored : BOOLEAN, clobber : BOOLEAN,
            concurrency : Slots]

ASSUME RequestsAssumption == Requests \subseteq Request

ASSUME HostAssumption ==
    /\ Togglable \subseteq Mappings
    /\ Cancels \subseteq {"future", "reason"}
    /\ Losable \subseteq Resources
    /\ Conflicts \subseteq Mappings

VARIABLES
    enabled,      \* mappings whose SyncMapping::enabled is set
    iface,        \* m_currentIface # nullptr: a run is open (m_isSyncing)
    watch,        \* the run's canceled() notification: none, posted, delivered
    cancelled,    \* m_cancelled of the engine
    mode,         \* m_queue.dispatchMode()
    pc,           \* "events": in the event loop; "pump": inside pumpQueue()
    monitored,    \* m_currentSyncBehavior = Monitored
    override,     \* m_queueOverride.clobber
    effCap,       \* m_effectiveCap
    filter,       \* m_pendingQueueFilter
    pending,      \* mappings not yet taken from m_queue
    results,      \* this pass' m_queue.m_results, by mapping
    carried,      \* mappings with a result in m_carriedResults
    lost,         \* m_queue.m_lostResources
    skipped,      \* m_skippedMappingIds
    dirty,        \* m_passDirtyWriters
    pass,         \* m_currentPass
    resPasses,    \* m_resolutionPasses
    newRes,       \* m_mappingsWithNewResolutions
    toPresent,    \* mappings with an entry in m_pendingUnmonitoredConflicts
    presenting,   \* m_conflictPresentationScheduled
    claims,       \* m_inFlightEndpoints
    inFlight,     \* m_inFlight: mapping -> slot, None when not in flight
    poolSize,     \* m_pool.size()
    busy,         \* m_pool[s].busyMappingId
    mail,         \* events posted to the worker of slot s, oldest first
    st,           \* what the worker of slot s is doing
    wcancel,      \* m_cancelled of that worker
    clobbers,     \* the override in the worker's current request
    deferred,     \* the worker has emitted conflictDetected in this request
    res,          \* the SyncResult carried by its syncCompleted
    out           \* signals the worker has queued for the engine

runVars  == <<iface, watch, cancelled, mode, monitored, override, effCap, filter>>
queueVars == <<pending, results, carried, lost, skipped>>
passVars == <<dirty, pass, resPasses>>
conflictVars == <<newRes, toPresent, presenting>>
poolVars == <<claims, inFlight, poolSize, busy>>
workVars == <<st, deferred, res, out>>
vars == <<enabled, pc, runVars, queueVars, passVars, conflictVars, poolVars,
          clobbers, mail, wcancel, workVars>>

(***************************************************************************)
(* Helpers.                                                                *)
(***************************************************************************)
Ends(m) == {Source[m], Target[m]}
BackendsOf(m) == {BackendOf[e] : e \in Ends(m)}
ResourcesOf(m) == {ResourceOf[b] : b \in BackendsOf(m)}

InFlight == {m \in Mappings : inFlight[m] # None}
FreeSlots == {s \in 1..poolSize : busy[s] = None}

NoResult == [outcome |-> "none", wrote |-> {}]
Results == [outcome : {"none", "ok", "failed", "cancelled"},
            wrote : SUBSET {"source", "target"}]

WroteEnds(m, r) == (IF "source" \in r.wrote THEN {Source[m]} ELSE {})
                     \union (IF "target" \in r.wrote THEN {Target[m]} ELSE {})

(* Two wake-ups in a row do what one does, so the second is not stored.    *)
Post(q, e) == IF q # <<>> /\ q[Len(q)] = e /\ e = "observe" THEN q
              ELSE Append(q, e)

PostAll(e) == [s \in Slots |-> IF s <= poolSize THEN Post(mail[s], e) ELSE mail[s]]

(***************************************************************************)
(* Which mapping pumpQueue() may take next.                                *)
(***************************************************************************)
InFlightSharing(m) == {k \in InFlight : ResourcesOf(k) \cap ResourcesOf(m) # {}}

BelowCapOffByOne(m) == \A b \in BackendsOf(m) :
                  BackendCap[b] > 0 => Cardinality(InFlightSharing(m)) <= BackendCap[b]
BelowCap(m) == \A b \in BackendsOf(m) :
                  BackendCap[b] > 0 => Cardinality(InFlightSharing(m)) < BackendCap[b]

IsEligibleByTarget(m) == Target[m] \notin claims /\ BelowCap(m)
IsEligible(m) == Ends(m) \cap claims = {} /\ BelowCap(m)

NextEligible(m) == /\ m \in pending
                   /\ IsEligible(m)
                   /\ \A k \in pending : IsEligible(k) => m <= k

(* nextEligible() takes the mapping out of m_pending.                      *)
Take(m) == pending' = pending \ {m}

IsLost(m) == ResourcesOf(m) \cap lost # {}

----------------------------------------------------------------------------
Init ==
    /\ enabled = Mappings
    /\ iface = FALSE /\ watch = "none" /\ cancelled = FALSE /\ mode = "None"
    /\ pc = "events"
    /\ monitored = FALSE /\ override = FALSE /\ effCap = 1 /\ filter = {}
    /\ pending = {} /\ results = [m \in Mappings |-> "none"] /\ carried = {}
    /\ lost = {} /\ skipped = {}
    /\ dirty = [e \in Endpoints |-> {}] /\ pass = 1 /\ resPasses = 0
    /\ newRes = {} /\ toPresent = {} /\ presenting = FALSE
    /\ claims = {} /\ inFlight = [m \in Mappings |-> None]
    /\ poolSize = 0 /\ busy = [s \in Slots |-> None]
    /\ mail = [s \in Slots |-> <<>>]
    /\ wcancel = [s \in Slots |-> FALSE]
    /\ clobbers = [s \in Slots |-> FALSE]
    /\ st = [s \in Slots |-> "idle"]
    /\ deferred = [s \in Slots |-> FALSE]
    /\ res = [s \in Slots |-> NoResult]
    /\ out = [s \in Slots |-> <<>>]

(***************************************************************************)
(* Finishing.  finishRun() closes the future and empties the queue and the *)
(* in-flight tables.  A cancelled finish marks the future cancelled, which *)
(* posts canceled() to the run's watcher unless the caller's own cancel()  *)
(* already did.  m_cancelled keeps its value.                              *)
(***************************************************************************)
FinishRun(asCancelled) ==
    /\ iface' = FALSE
    /\ watch' = IF asCancelled /\ watch = "none" THEN "posted" ELSE watch
    /\ mode' = "None"
    /\ pending' = {} /\ results' = [m \in Mappings |-> "none"] /\ carried' = {}
    /\ lost' = {}
    /\ claims' = {} /\ inFlight' = [m \in Mappings |-> None]
    /\ pc' = "events"

(* MappingQueue::prime                                                     *)
Prime(selected) ==
    /\ pending' = enabled \cap selected
    /\ results' = [m \in Mappings |-> "none"]
    /\ lost' = {}
    /\ mode' = "Queue"

(* startWorkerPool() only ever adds workers.                               *)
GrowPoolEachRun(size) == poolSize' = poolSize + size
GrowPool(size) == poolSize' = IF poolSize < size THEN size ELSE poolSize

(* resolveEffectiveCap()                                                   *)
CapOfAnyBehavior(r) == r.concurrency
EffectiveCap(r) == IF r.monitored THEN 1 ELSE r.concurrency

(* Dispatching m to slot s: lease, in-flight entry and processSyncRequested *)
Dispatch(m, s, clobber) ==
    /\ busy' = [busy EXCEPT ![s] = m]
    /\ inFlight' = [inFlight EXCEPT ![m] = s]
    /\ mail' = [mail EXCEPT ![s] = Append(@, "process")]
    /\ clobbers' = [clobbers EXCEPT ![s] = clobber]

(***************************************************************************)
(* runSync().                                                              *)
(***************************************************************************)

(* beginRun() replaces the watcher, so a canceled() notification of the    *)
(* previous run that was not delivered yet is dropped.                     *)
BeginRun == iface' = TRUE /\ watch' = "none"

(* driveQueue() with work to do, up to the first event it waits for: the   *)
(* active controllers, the fast-path pre-pass, or nothing for a clobber.   *)
StartQueueRun(r) ==
    /\ ~iface /\ pc = "events"
    /\ Cardinality(r.ids) # 1
    /\ BeginRun
    /\ override' = r.clobber
    /\ pass' = 1 /\ resPasses' = 0
    /\ dirty' = [e \in Endpoints |-> {}] /\ carried' = {}
    /\ newRes' = {} /\ toPresent' = {}
    /\ cancelled' = FALSE
    /\ monitored' = r.monitored
    /\ filter' = IF r.ids = {} THEN Mappings ELSE r.ids
    /\ Prime(filter')
    /\ effCap' = EffectiveCap(r)
    /\ GrowPool(effCap')
    /\ wcancel' = [s \in Slots |-> FALSE]
    /\ IF HasControllers \/ ~r.clobber
       THEN /\ mail' = [mail EXCEPT ![ControlSlot] =
                          Append(@, IF HasControllers THEN "controllers" ELSE "fastPath")]
            /\ pc' = "events"
            /\ UNCHANGED skipped
       ELSE /\ skipped' = {}
            /\ pc' = "pump"
            /\ UNCHANGED mail
    /\ UNCHANGED <<enabled, presenting, claims, inFlight, busy, clobbers, workVars>>

(* Single-mapping runs: processSingleMapping().  A run that starts while   *)
(* m_cancelled is still set, or that names a mapping which is not enabled, *)
(* is finished before anything is dispatched.                              *)
SinglePreamble ==
    /\ ~iface /\ pc = "events"
    /\ skipped' = {} /\ resPasses' = 0 /\ newRes' = {}

StartSingleRun(r, m) ==
    /\ SinglePreamble
    /\ r.ids = {m} /\ ~cancelled /\ m \in enabled
    /\ BeginRun
    /\ monitored' = r.monitored
    /\ mode' = "Single"
    /\ pending' = {} /\ results' = [k \in Mappings |-> "none"] /\ lost' = {}
    /\ effCap' = 1
    /\ GrowPool(1)
    /\ wcancel' = [s \in Slots |-> FALSE]
    /\ \E s \in 1..poolSize' :
          /\ busy[s] = None
          /\ \A t \in 1..poolSize' : busy[t] = None => s <= t
          /\ Dispatch(m, s, r.clobber)
    /\ UNCHANGED <<enabled, pc, cancelled, override, filter, carried, dirty, pass,
                   toPresent, presenting, claims, workVars>>

RefuseSingleRun(r, m) ==
    /\ SinglePreamble
    /\ r.ids = {m} /\ (cancelled \/ m \notin enabled)
    /\ watch' = IF cancelled THEN "posted" ELSE "none"
    /\ mode' = "None"
    /\ pending' = {} /\ results' = [k \in Mappings |-> "none"] /\ lost' = {}
    /\ carried' = {} /\ claims' = {} /\ inFlight' = [k \in Mappings |-> None]
    /\ UNCHANGED <<enabled, pc, iface, cancelled, monitored, override, effCap, filter,
                   dirty, pass, toPresent, presenting, poolSize, busy, clobbers,
                   mail, wcancel, workVars>>

(***************************************************************************)
(* Continuations of a queue run, on the control worker's answers.          *)
(***************************************************************************)
TakeSignal(s, e) == /\ pc = "events"
                    /\ out[s] # <<>> /\ Head(out[s]) = e
                    /\ out' = [out EXCEPT ![s] = Tail(@)]

(* finishDriveQueueSetup()                                                 *)
FinishSetup ==
    IF cancelled
    THEN /\ FinishRun(TRUE)
         /\ UNCHANGED <<cancelled, monitored, override, effCap, filter>>
    ELSE /\ pc' = "pump"
         /\ UNCHANGED <<runVars, pending, results, carried, lost, claims, inFlight>>

(* onActiveControllersReady() -> continueDriveQueueSetup()                 *)
OnActiveControllersReady ==
    /\ TakeSignal(ControlSlot, "controllersReady")
    /\ IF ~cancelled /\ ~override
       THEN /\ mail' = [mail EXCEPT ![ControlSlot] = Append(@, "fastPath")]
            /\ UNCHANGED <<pc, runVars, queueVars, claims, inFlight>>
       ELSE /\ skipped' = {}
            /\ FinishSetup
            /\ UNCHANGED mail
    /\ UNCHANGED <<enabled, passVars, conflictVars, poolSize, busy, clobbers,
                   wcancel, st, deferred, res>>

(* onFastPathReady(): unchanged is what the pre-pass found unchanged.      *)
OnFastPathReady(unchanged) ==
    /\ TakeSignal(ControlSlot, "fastPathReady")
    /\ skipped' = unchanged
    /\ FinishSetup
    /\ UNCHANGED <<enabled, passVars, conflictVars, poolSize, busy, clobbers,
                   mail, wcancel, st, deferred, res>>

(***************************************************************************)
(* pumpQueue().                                                            *)
(***************************************************************************)
Taking == /\ pc = "pump" /\ ~cancelled
          /\ Cardinality(InFlight) < effCap

(* A mapping of a lost resource is reported cancelled, not dispatched.     *)
PumpLost(m) ==
    /\ Taking /\ NextEligible(m) /\ IsLost(m)
    /\ Take(m)
    /\ results' = [results EXCEPT ![m] = "cancelled"]
    /\ UNCHANGED <<enabled, pc, runVars, carried, lost, skipped, passVars,
                   conflictVars, poolVars, clobbers, mail, wcancel, workVars>>

(* A mapping the pre-pass found unchanged is reported done.                *)
PumpSkip(m) ==
    /\ Taking /\ NextEligible(m) /\ ~IsLost(m) /\ m \in skipped
    /\ Take(m)
    /\ results' = [results EXCEPT ![m] = "ok"]
    /\ UNCHANGED <<enabled, pc, runVars, carried, lost, skipped, passVars,
                   conflictVars, poolVars, clobbers, mail, wcancel, workVars>>

Dispatchable(m) == NextEligible(m) /\ ~IsLost(m) /\ m \notin skipped

PumpDispatch(m, s) ==
    /\ Taking /\ Dispatchable(m)
    /\ s \in FreeSlots /\ \A t \in FreeSlots : s <= t
    /\ Take(m)
    /\ claims' = claims \union Ends(m)
    /\ Dispatch(m, s, override)
    /\ UNCHANGED <<enabled, pc, runVars, results, carried, lost, skipped, passVars,
                   conflictVars, poolSize, wcancel, workVars>>

(* The loop is over: the cap is reached, no pending mapping is eligible,   *)
(* or the pool has no free slot (pushBack() puts the mapping back).        *)
LoopDone == /\ pc = "pump" /\ ~cancelled
            /\ \/ Cardinality(InFlight) >= effCap
               \/ \A m \in pending : ~IsEligible(m)
               \/ FreeSlots = {} /\ \E m \in pending : Dispatchable(m)

(* Something is running, or waits for what is running: a later completion  *)
(* pumps again.                                                            *)
PumpWait ==
    /\ LoopDone
    /\ InFlight # {} \/ pending # {}
    /\ pc' = "events"
    /\ UNCHANGED <<enabled, runVars, queueVars, passVars, conflictVars, poolVars,
                   clobbers, mail, wcancel, workVars>>

Drained == LoopDone /\ InFlight = {} /\ pending = {}

(* The resolution re-pass: mappings a conflict of which was answered.      *)
ResolutionDue == resPasses < MaxResolutionPasses /\ newRes # {}
ResolutionIds == enabled \cap newRes

(* The fixpoint re-pass: mappings with an endpoint another mapping wrote.  *)
DirtyForeignSource(m) == dirty[Source[m]] # {} /\ dirty[Source[m]] # {m}
DirtyForeign(m) == \E e \in Ends(m) : dirty[e] # {} /\ dirty[e] # {m}
FixpointDue == pass < MaxSyncPasses /\ \E e \in Endpoints : dirty[e] # {}
FixpointIds == {m \in enabled : DirtyForeign(m)}

Reported == {m \in Mappings : results[m] # "none"}
CarryOverNothing == carried
CarryOver == carried \union Reported

RePass(ids) ==
    /\ carried' = CarryOver
    /\ dirty' = [e \in Endpoints |-> {}]
    /\ skipped' = {}
    /\ Prime(ids)
    /\ UNCHANGED <<enabled, pc, iface, watch, cancelled, monitored, override, effCap,
                   filter, toPresent, presenting, poolVars, clobbers, mail, wcancel,
                   workVars>>

PumpResolutionPass ==
    /\ Drained /\ ResolutionDue /\ ResolutionIds # {}
    /\ newRes' = {}
    /\ resPasses' = resPasses + 1
    /\ RePass(ResolutionIds)
    /\ UNCHANGED pass

NoResolutionPass == ~ResolutionDue \/ ResolutionIds = {}

PumpFixpointPass ==
    /\ Drained /\ NoResolutionPass /\ FixpointDue /\ FixpointIds # {}
    /\ newRes' = IF ResolutionDue THEN {} ELSE newRes
    /\ pass' = pass + 1
    /\ RePass(FixpointIds)
    /\ UNCHANGED resPasses

PumpFinish ==
    /\ Drained /\ NoResolutionPass /\ (~FixpointDue \/ FixpointIds = {})
    /\ newRes' = IF ResolutionDue THEN {} ELSE newRes
    /\ dirty' = IF FixpointDue THEN [e \in Endpoints |-> {}] ELSE dirty
    /\ FinishRun(FALSE)
    /\ UNCHANGED <<enabled, cancelled, monitored, override, effCap, filter, skipped,
                   pass, resPasses, toPresent, presenting, poolSize, busy, clobbers,
                   mail, wcancel, workVars>>

(* A cancelled run drains before it finishes.                              *)
FinishAtOnce == FALSE
MustDrain == InFlight # {}

PumpCancelled ==
    /\ pc = "pump" /\ cancelled
    /\ IF MustDrain
       THEN /\ pc' = "events"
            /\ UNCHANGED <<iface, watch, mode, pending, results, carried, lost,
                           claims, inFlight>>
       ELSE FinishRun(TRUE)
    /\ UNCHANGED <<enabled, cancelled, monitored, override, effCap, filter, skipped,
                   passVars, conflictVars, poolSize, busy, clobbers, mail, wcancel,
                   workVars>>

(***************************************************************************)
(* onWorkerSyncCompleted().                                                *)
(***************************************************************************)
ReleasedSlotStaysBusy(m, s) == /\ busy' = busy
                               /\ inFlight' = [inFlight EXCEPT ![m] = None]
Released(m, s) == /\ busy' = [busy EXCEPT ![s] = None]
                  /\ inFlight' = [inFlight EXCEPT ![m] = None]

ClaimsLeakTarget(m) == claims \ {Source[m]}
ClaimsWithout(m) == claims \ Ends(m)

(* invalidateSkipsTouching()                                               *)
SkipsAfterTargetOnly(m) == {k \in skipped : Target[m] \notin Ends(k)}
SkipsAfter(m) == {k \in skipped : Ends(k) \cap Ends(m) = {}}

(* A queued presentation of the conflicts collected so far.                *)
SchedulePresentation == presenting' = (presenting \/ toPresent # {})

CompleteQueued(s) ==
    LET m == busy[s]
        changed == res[s].outcome = "ok" /\ res[s].wrote # {}
    IN  /\ mode = "Queue"
        /\ TakeSignal(s, "completed")
        /\ Released(m, s)
        /\ claims' = ClaimsWithout(m)
        /\ SchedulePresentation
        /\ results' = [results EXCEPT ![m] = res[s].outcome]
        /\ skipped' = IF changed THEN SkipsAfter(m) ELSE skipped
        /\ dirty' = IF changed
                    THEN [e \in Endpoints |-> IF e \in WroteEnds(m, res[s])
                                              THEN dirty[e] \union {m} ELSE dirty[e]]
                    ELSE dirty
        /\ res' = [res EXCEPT ![s] = NoResult]
        /\ pc' = "pump"
        /\ UNCHANGED <<enabled, runVars, pending, carried, lost, pass, resPasses,
                       newRes, toPresent, poolSize, clobbers, mail, wcancel, st, deferred>>

(* A single-mapping run whose conflict was answered meanwhile runs its     *)
(* mapping once more (redispatchForResolutions) on the lowest free slot.   *)
Redispatchable(m) == /\ ~cancelled /\ resPasses < MaxResolutionPasses
                     /\ m \in newRes /\ m \in enabled

CompleteAndRedispatch(s) ==
    LET m == busy[s]
        free == FreeSlots \union {s}
    IN  /\ mode = "Single"
        /\ TakeSignal(s, "completed")
        /\ Redispatchable(m)
        /\ newRes' = newRes \ {m}
        /\ resPasses' = resPasses + 1
        /\ SchedulePresentation
        /\ \E t \in free :
              /\ \A u \in free : t <= u
              /\ busy' = [busy EXCEPT ![s] = None, ![t] = m]
              /\ inFlight' = [inFlight EXCEPT ![m] = t]
              /\ mail' = [mail EXCEPT ![t] = Append(@, "process")]
              /\ clobbers' = [clobbers EXCEPT ![t] = override]
        /\ claims' = ClaimsWithout(m) \union Ends(m)
        /\ res' = [res EXCEPT ![s] = NoResult]
        /\ UNCHANGED <<enabled, pc, runVars, queueVars, dirty, pass, toPresent,
                       poolSize, wcancel, st, deferred>>

(* Otherwise it finishes, cancelled if the engine or the worker saw it.    *)
CompleteSingle(s) ==
    LET m == busy[s]
    IN  /\ mode = "Single"
        /\ TakeSignal(s, "completed")
        /\ ~Redispatchable(m)
        /\ newRes' = IF ~cancelled /\ resPasses < MaxResolutionPasses
                     THEN newRes \ {m} ELSE newRes
        /\ SchedulePresentation
        /\ FinishRun(cancelled \/ res[s].outcome = "cancelled")
        /\ busy' = [busy EXCEPT ![s] = None]
        /\ res' = [res EXCEPT ![s] = NoResult]
        /\ UNCHANGED <<enabled, cancelled, monitored, override, effCap, filter,
                       skipped, passVars, toPresent, poolSize, clobbers, mail,
                       wcancel, st, deferred>>

(***************************************************************************)
(* Conflicts.                                                              *)
(***************************************************************************)

(* onWorkerConflictDetected(): an unmonitored mapping defers a conflict.   *)
OnConflictDetected(s) ==
    /\ TakeSignal(s, "conflict")
    /\ toPresent' = toPresent \union {busy[s]}
    /\ UNCHANGED <<enabled, pc, runVars, queueVars, passVars, newRes, presenting,
                   poolVars, clobbers, mail, wcancel, st, deferred, res>>

(* presentPendingConflicts(): the user answers some of the batch, which    *)
(* reaches onConflictResolved() while the dialogs are up.                  *)
PresentPendingConflicts(answered) ==
    /\ pc = "events" /\ presenting
    /\ presenting' = FALSE
    /\ toPresent' = {}
    /\ newRes' = newRes \union answered
    /\ UNCHANGED <<enabled, pc, runVars, queueVars, passVars, poolVars, clobbers,
                   mail, wcancel, workVars>>

(* onWorkerConflictPauseRequested(): the dialog is answered and the control*)
(* slot's worker resumed, whichever worker asked.                          *)
OnConflictPauseRequested(s) ==
    /\ TakeSignal(s, "pause")
    /\ mail' = [mail EXCEPT ![ControlSlot] = Append(@, "resume")]
    /\ UNCHANGED <<enabled, pc, runVars, queueVars, passVars, conflictVars, poolVars,
                   clobbers, wcancel, st, deferred, res>>

(***************************************************************************)
(* The host.                                                               *)
(***************************************************************************)
SetMappingEnabled(m) ==
    /\ pc = "events"
    /\ enabled' = IF m \in enabled THEN enabled \ {m} ELSE enabled \union {m}
    /\ UNCHANGED <<pc, runVars, queueVars, passVars, conflictVars, poolVars, clobbers,
                   mail, wcancel, workVars>>

(* QFuture::cancel() from any thread; the watcher's notification is posted.*)
CancelFuture ==
    /\ "future" \in Cancels
    /\ iface /\ watch = "none"
    /\ watch' = "posted"
    /\ UNCHANGED <<enabled, pc, iface, cancelled, mode, monitored, override, effCap,
                   filter, queueVars, passVars, conflictVars, poolVars, clobbers,
                   mail, wcancel, workVars>>

CancelEverything ==
    /\ cancelled' = TRUE
    /\ wcancel' = [s \in Slots |-> s <= poolSize \/ wcancel[s]]
    /\ mail' = PostAll("observe")

OnCancelObserved ==
    /\ pc = "events" /\ watch = "posted"
    /\ watch' = "delivered"
    /\ CancelEverything
    /\ UNCHANGED <<enabled, pc, iface, mode, monitored, override, effCap, filter,
                   queueVars, passVars, conflictVars, poolVars, clobbers, workVars>>

(* cancelWithReason() with any reason but ResourceLost.                    *)
CancelWithReason ==
    /\ "reason" \in Cancels
    /\ pc = "events"
    /\ CancelEverything
    /\ UNCHANGED <<enabled, pc, iface, watch, mode, monitored, override, effCap,
                   filter, queueVars, passVars, conflictVars, poolVars, clobbers,
                   workVars>>

(* cancelWithReason(ResourceLost, r): the workers of in-flight mappings    *)
(* that touch r are told to stop.                                          *)
LoseResource(r) ==
    LET hit == {inFlight[m] : m \in {k \in InFlight : r \in ResourcesOf(k)}}
    IN  /\ pc = "events"
        /\ lost' = lost \union {r}
        /\ wcancel' = [s \in Slots |-> s \in hit \/ wcancel[s]]
        /\ mail' = [s \in Slots |-> IF s \in hit THEN Post(mail[s], "observe")
                                    ELSE mail[s]]
        /\ UNCHANGED <<enabled, pc, runVars, pending, results, carried, skipped,
                       passVars, conflictVars, poolVars, clobbers, workVars>>

(***************************************************************************)
(* The worker of slot s.                                                   *)
(***************************************************************************)
engineVars == <<enabled, pc, runVars, queueVars, passVars, conflictVars, poolVars,
                clobbers>>

TakeMail(s, e) == /\ mail[s] # <<>> /\ Head(mail[s]) = e
                  /\ mail' = [mail EXCEPT ![s] = Tail(@)]

Emit(s, e) == out' = [out EXCEPT ![s] = Append(@, e)]

(* syncCompleted                                                           *)
Complete(s, r) == /\ st' = [st EXCEPT ![s] = "idle"]
                  /\ deferred' = [deferred EXCEPT ![s] = FALSE]
                  /\ res' = [res EXCEPT ![s] = r]
                  /\ Emit(s, "completed")

(* processSync(): a worker whose flag is already set completes at once.    *)
WorkerProcess(s) ==
    /\ st[s] = "idle"
    /\ TakeMail(s, "process")
    /\ IF wcancel[s]
       THEN Complete(s, [outcome |-> "cancelled", wrote |-> {}])
       ELSE /\ st' = [st EXCEPT ![s] = "running"]
            /\ UNCHANGED <<deferred, res, out>>
    /\ UNCHANGED <<engineVars, wcancel>>

(* observeCancel(): also inside a running sync, which waits in nested      *)
(* event loops; a sync that is paused on a conflict ends as cancelled.     *)
WorkerObserve(s) ==
    /\ TakeMail(s, "observe")
    /\ wcancel' = [wcancel EXCEPT ![s] = TRUE]
    /\ IF st[s] = "paused"
       THEN Complete(s, [outcome |-> "failed", wrote |-> {}])
       ELSE UNCHANGED workVars
    /\ UNCHANGED engineVars

(* resumeAfterConflict(): ignored unless the worker is paused.             *)
WorkerResume(s) ==
    /\ TakeMail(s, "resume")
    /\ st' = IF st[s] = "paused" THEN [st EXCEPT ![s] = "running"] ELSE st
    /\ UNCHANGED <<engineVars, wcancel, deferred, res, out>>

(* The control worker's pre-pass and controller loop.                      *)
WorkerSetup(kind) ==
    LET s == ControlSlot
    IN  /\ st[s] = "idle"
        /\ TakeMail(s, kind)
        /\ Emit(s, IF kind = "controllers" THEN "controllersReady" ELSE "fastPathReady")
        /\ UNCHANGED <<engineVars, wcancel, st, deferred, res>>

(* unifiedHandleConflicts() walks the operations with no event loop of its *)
(* own, after a last look at the flag: a flag it can meet is one that was  *)
(* set since, the wake-up still in the mail.                               *)
WakeUpPending(s) == \E i \in 1..Len(mail[s]) : mail[s][i] = "observe"

(* A conflict whose policy is AskUser; the walk looks at the flag before   *)
(* each operation, so it may still be set between the look and the conflict*)
InWalk(s) == /\ st[s] = "running"
             /\ busy[s] \in Conflicts
             /\ wcancel[s] => WakeUpPending(s)

WorkerPause(s) ==
    /\ InWalk(s) /\ monitored
    /\ st' = [st EXCEPT ![s] = "paused"]
    /\ Emit(s, "pause")
    /\ UNCHANGED <<engineVars, mail, wcancel, deferred, res>>

WorkerDefer(s) ==
    /\ InWalk(s) /\ ~monitored /\ ~deferred[s]
    /\ deferred' = [deferred EXCEPT ![s] = TRUE]
    /\ Emit(s, "conflict")
    /\ UNCHANGED <<engineVars, mail, wcancel, st, res>>

(* The walk returns when it finds the flag set, and nothing after it       *)
(* completes the sync.                                                     *)
WorkerAbandon(s) ==
    /\ st[s] = "running" /\ wcancel[s] /\ WakeUpPending(s)
    /\ st' = [st EXCEPT ![s] = "abandoned"]
    /\ UNCHANGED <<engineVars, mail, wcancel, deferred, res, out>>

(* Every other way a sync ends.  With a deferred conflict nothing is       *)
(* written and the mapping fails.                                          *)
WorkerComplete(s, r) ==
    /\ st[s] = "running"
    /\ r.outcome \in {"ok", "failed"}
    /\ deferred[s] => r.outcome = "failed" /\ r.wrote = {}
    /\ Complete(s, r)
    /\ UNCHANGED <<engineVars, mail, wcancel>>

----------------------------------------------------------------------------
Engine ==
    \/ OnActiveControllersReady
    \/ \E unchanged \in SUBSET pending : OnFastPathReady(unchanged)
    \/ \E m \in Mappings : PumpLost(m)
    \/ \E m \in Mappings : PumpSkip(m)
    \/ \E m \in Mappings, s \in Slots : PumpDispatch(m, s)
    \/ PumpWait
    \/ PumpResolutionPass
    \/ PumpFixpointPass
    \/ PumpFinish
    \/ PumpCancelled
    \/ \E s \in Slots : CompleteQueued(s)
    \/ \E s \in Slots : CompleteAndRedispatch(s)
    \/ \E s \in Slots : CompleteSingle(s)
    \/ \E s \in Slots : OnConflictDetected(s)
    \/ \E s \in Slots : OnConflictPauseRequested(s)
    \/ \E answered \in SUBSET toPresent : PresentPendingConflicts(answered)
    \/ OnCancelObserved

Worker(s) ==
    \/ WorkerProcess(s)
    \/ WorkerObserve(s)
    \/ WorkerResume(s)
    \/ WorkerPause(s)
    \/ WorkerDefer(s)
    \/ WorkerAbandon(s)
    \/ \E r \in Results : WorkerComplete(s, r)

Host ==
    \/ \E r \in Requests : StartQueueRun(r)
    \/ \E r \in Requests, m \in Mappings : StartSingleRun(r, m)
    \/ \E r \in Requests, m \in Mappings : RefuseSingleRun(r, m)
    \/ \E m \in Togglable : SetMappingEnabled(m)
    \/ CancelFuture
    \/ CancelWithReason
    \/ \E r \in Losable : LoseResource(r)

Next ==
    \/ Engine
    \/ \E s \in Slots : Worker(s)
    \/ \E kind \in {"controllers", "fastPath"} : WorkerSetup(kind)
    \/ Host

Spec == Init /\ [][Next]_vars
(***************************************************************************)
(* Fairness.  The engine's and the workers' event loops keep running, the  *)
(* dialogs return, and a sync that is not abandoned ends: its operation    *)
(* list is finite, so it cannot pause for ever (hence the strong form).    *)
(* Nothing is assumed of the host, of cancellation or of WorkerAbandon.    *)
(***************************************************************************)
WorkerEnds(s) == \E r \in Results : WorkerComplete(s, r)

Fairness ==
    /\ WF_vars(Engine)
    /\ \A s \in Slots : /\ WF_vars(WorkerProcess(s))
                        /\ WF_vars(WorkerObserve(s))
                        /\ WF_vars(WorkerResume(s))
                        /\ SF_vars(WorkerEnds(s))
    /\ \A kind \in {"controllers", "fastPath"} : WF_vars(WorkerSetup(kind))

FairSpec == Spec /\ Fairness

----------------------------------------------------------------------------
(***************************************************************************)
(* Properties.                                                             *)
(***************************************************************************)
Outcomes == {"none", "ok", "failed", "cancelled"}
MailKinds == {"process", "observe", "resume", "controllers", "fastPath"}
SignalKinds == {"completed", "conflict", "pause", "controllersReady", "fastPathReady"}

RunTyped ==
    /\ enabled \subseteq Mappings
    /\ iface \in BOOLEAN /\ cancelled \in BOOLEAN
    /\ watch \in {"none", "posted", "delivered"}
    /\ mode \in {"None", "Queue", "Single"}
    /\ pc \in {"events", "pump"}
    /\ monitored \in BOOLEAN /\ override \in BOOLEAN
    /\ effCap \in Slots /\ filter \subseteq Mappings

QueueTyped ==
    /\ pending \subseteq Mappings /\ carried \subseteq Mappings
    /\ results \in [Mappings -> Outcomes]
    /\ lost \subseteq Resources /\ skipped \subseteq Mappings
    /\ dirty \in [Endpoints -> SUBSET Mappings]
    /\ pass \in Nat /\ resPasses \in Nat
    /\ newRes \subseteq Mappings /\ toPresent \subseteq Mappings
    /\ presenting \in BOOLEAN

PoolTyped ==
    /\ claims \subseteq Endpoints
    /\ inFlight \in [Mappings -> Slots \union {None}]
    /\ poolSize \in Slots \union {0}
    /\ busy \in [Slots -> Mappings \union {None}]

WorkTyped ==
    /\ mail \in [Slots -> Seq(MailKinds)]
    /\ st \in [Slots -> {"idle", "running", "paused", "abandoned"}]
    /\ wcancel \in [Slots -> BOOLEAN] /\ clobbers \in [Slots -> BOOLEAN]
    /\ deferred \in [Slots -> BOOLEAN]
    /\ res \in [Slots -> Results]
    /\ out \in [Slots -> Seq(SignalKinds)]

(* Every variable has the type its C++ counterpart has.                    *)
TypeOK == RunTyped /\ QueueTyped /\ PoolTyped /\ WorkTyped

(* Two mappings in flight at once never share an endpoint: no collection   *)
(* is read by one sync while another writes it (isEligible, the claims).   *)
EndpointExclusion ==
    \A m, k \in InFlight : m # k => Ends(m) \cap Ends(k) = {}

(* The endpoint claims are those of the mappings in flight, no more, so an *)
(* idle endpoint is never withheld from a pending mapping.                 *)
ClaimsExact ==
    mode = "Queue" => claims = UNION {Ends(m) : m \in InFlight}

(* The in-flight table and the slots agree, and below the cap a slot is    *)
(* free: a lease never fails, pushBack() is never needed.  No run has more *)
(* leases than its cap, no backend more than it declared it can serve,     *)
(* whichever side of the mappings it is on.                                *)
LeasesSound ==
    /\ \A s \in Slots : busy[s] # None => s <= poolSize /\ inFlight[busy[s]] = s
    /\ \A m \in InFlight : busy[inFlight[m]] = m
    /\ iface /\ Cardinality(InFlight) < effCap => FreeSlots # {}
    /\ Cardinality(InFlight) <= effCap
    /\ \A b \in Backends : BackendCap[b] > 0 =>
          Cardinality({m \in InFlight : b \in BackendsOf(m)}) <= BackendCap[b]

(* Events of the kinds E in a queue.                                       *)
Has(q, E) == \E i \in 1..Len(q) : q[i] \in E
AtMostOnce(q, E) == \A i, j \in 1..Len(q) : q[i] \in E /\ q[j] \in E => i = j

Asked(s) == Has(mail[s], {"process"})
Working(s) == st[s] # "idle"
Finished(s) == Has(out[s], {"completed"})

AnswerOwed(s) ==
    /\ AtMostOnce(mail[s], {"process"}) /\ AtMostOnce(out[s], {"completed"})
    /\ Asked(s) => ~Working(s) /\ ~Finished(s)
    /\ Working(s) => ~Finished(s)
    /\ busy[s] # None <=> Asked(s) \/ Working(s) \/ Finished(s)

(* A leased slot owes exactly one completion and a free slot none, so no   *)
(* request, running sync or completion outlives its run, and a future is   *)
(* never resolved while a worker still works for it (drain-before-finish). *)
OneAnswerPerLease ==
    /\ \A s \in Slots : AnswerOwed(s)
    /\ ~iface => InFlight = {} /\ \A s \in Slots : busy[s] = None

(* resumeAfterConflictResolution() answers the control slot whoever asked; *)
(* so only that slot may ever pause or have its pause pending, and what is *)
(* posted to it is read before its next request.                           *)
ResumeReachesAsker ==
    /\ \A s \in Slots : st[s] = "paused" \/ Has(out[s], {"pause"}) => s = ControlSlot
    /\ \A i, j \in 1..Len(mail[ControlSlot]) :
          mail[ControlSlot][i] = "process" /\ mail[ControlSlot][j] = "resume" => j < i

(* A skip verdict still in force is one nobody's successful write made     *)
(* stale: the endpoints of a skippable pending mapping are clean.          *)
SkipVerdictFresh ==
    mode = "Queue" => \A m \in skipped \cap pending : \A e \in Ends(m) : dirty[e] = {}

(* While a run is open no mapping it has taken on drops out: it stays      *)
(* queued, is in flight, or has its result, and a result only moves to the *)
(* results carried over; a run that is not cancelled ends with none queued.*)
Answered == carried \union Reported
NothingDropped ==
    [][mode = "Queue" =>
         \/ mode' = "Queue" /\ pending \union InFlight \union Answered
                                 \subseteq (pending \union InFlight \union Answered)'
         \/ mode' = "None" /\ InFlight = {} /\ (cancelled \/ pending = {})]_vars

(* A run that nobody cancels finishes its future.                          *)
RunTerminates == iface ~> ~iface

(* A cancelled run finishes its future.                                    *)
CancelTerminates == (iface /\ cancelled) ~> ~iface
=============================================================================
