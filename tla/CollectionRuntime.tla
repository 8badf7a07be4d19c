-------------------------- MODULE CollectionRuntime --------------------------
(***************************************************************************)
(* The facade a host drives (src/runtime/collectionruntime.cpp): provider  *)
(* accounts, the topology transaction, runs with leases of external        *)
(* resources, reset and destruction.  Everything is on one thread, and     *)
(* what makes it hard is that this thread re-enters: applyTopology() waits *)
(* for connections in a nested event loop, a lease may run a loop while it *)
(* prepares, and a run is over only when the engine's future is.           *)
(*                                                                         *)
(* A topology binds the hub, an endpoint a factory makes, to endpoints of  *)
(* providers: provider p stands for its backend, for the endpoint made of  *)
(* it and for the mapping between the hub and it.  The engine is reduced   *)
(* to what module SyncRun shows of it: a result for each mapping it took.  *)
(***************************************************************************)
EXTENDS ProviderManager, Integers, Sequences, FiniteSets

CONSTANTS
    Hub,          \* the factory endpoint
    Resources, ResourceOf,   \* the resource an endpoint is bound to, or NoResource
    NoResource,
    Disabled,     \* mappings with enabled = false in every topology
    Topologies,   \* the TopologyDefinitions hosts submit
    Selections,   \* the RunSelections hosts make: All or a set of mappings
    All,
    HostsAddWhileApplying   \* whether hosts add providers inside the nested loop

ASSUME RuntimeAssumption ==
    /\ Hub \notin Providers
    /\ ResourceOf \in [Providers -> Resources \union {NoResource}]
    /\ HostsAddWhileApplying \in BOOLEAN

Endpoints == Providers \union {Hub}
Names == {"old", "new", "renamed", "meta"}

(* The part of a CollectionMutation the transaction tells apart.           *)
Mutation == [kind : {"Create", "Adopt", "Rename", "Untrack", "Update", "Destroy"},
             at : Endpoints, name : Names]

(* provs counts when replace is set; drops is whether the request lists    *)
(* the endpoints it leaves out as removed.                                 *)
Topology == [replace : BOOLEAN, provs : SUBSET Providers, eps : SUBSET Providers,
             drops : BOOLEAN, muts : Seq(Mutation)]

ASSUME TopologiesAssumption ==
    /\ Topologies \subseteq Topology
    /\ \A s \in Selections : s = All \/ s \subseteq Providers

VARIABLES
    usable,       \* m_usable
    defs,         \* m_definition.providers
    snapIds,      \* m_snapshot.providerIds
    eps,          \* the keys of m_endpointResourceIds, the hub left out
    maps,         \* m_mappings, and what the engine was given
    phys,         \* the collections that exist at each endpoint
    \* applyTopology()
    applyPc,      \* where it is; "idle" is m_topologyApplying = false
    want,         \* its argument
    staged,       \* providersStaged
    done,         \* appliedMutations
    prepared,     \* persistencePrepared
    repair,       \* repairRequired of its result
    before,       \* previousProviders and, as history, phys and maps when it began
    torn,         \* history: the collections it changed for good without knowing
    \* run()
    runPc,        \* where the run is; "idle" is m_running = false
    picked,       \* m_activeMappingIds
    wants,        \* active resources not prepared yet
    active,       \* m_activeResourceIds
    prepFailed,   \* a lease refused
    cancelled,    \* m_cancelled
    lost,         \* m_lostResourceIds
    halted,       \* m_cancelled of the engine
    stopped,      \* mappings the engine was told to cancel for a lost resource
    results,      \* the engine's result for each mapping
    lease,        \* what each lease was told in this run
    answer,       \* the RunResult of the last run
    life          \* "up", "draining" in the destructor, "gone"

applyVars == <<applyPc, want, staged, done, prepared, repair, before, torn>>
topoVars == <<snapIds, eps, maps>>
runVars == <<runPc, picked, wants, active, prepFailed, cancelled, lost, halted,
             stopped, results, lease, answer>>
vars == <<pmVars, usable, defs, topoVars, phys, applyVars, runVars, life>>

NoTopology == [replace |-> FALSE, provs |-> {}, eps |-> {}, drops |-> FALSE, muts |-> <<>>]
NoAnswer == [ok |-> FALSE, cancelled |-> FALSE]
NothingBefore == [phys |-> [e \in Endpoints |-> {}], maps |-> {}, providers |-> {}]
FreshLease == [prepared |-> FALSE, flushed |-> FALSE, finished |-> 0]
NoResults == [p \in Providers |-> "none"]

TypeOK ==
    /\ PMTypeOK
    /\ usable \in BOOLEAN /\ defs \subseteq Providers /\ snapIds \subseteq Providers
    /\ eps \subseteq Providers /\ maps \subseteq eps
    /\ phys \in [Endpoints -> SUBSET Names]
    /\ applyPc \in {"idle", "joining", "checking", "mutating", "undoing", "restoring",
                    "restoring then undo"}
    /\ want \in Topologies \union {NoTopology}
    /\ before.providers \subseteq Providers
    /\ {staged, prepared, repair} \subseteq BOOLEAN
    /\ Len(done) <= Len(want.muts)
    /\ torn \subseteq Endpoints \X Names
    /\ runPc \in {"idle", "preparing", "syncing"}
    /\ picked \subseteq Providers /\ active \subseteq Resources /\ wants \subseteq active
    /\ {prepFailed, cancelled, halted} \subseteq BOOLEAN
    /\ lost \subseteq Resources /\ stopped \subseteq Providers
    /\ results \in [Providers -> {"none", "ok", "failed", "cancelled"}]
    /\ lease \in [Resources -> [prepared : BOOLEAN, flushed : BOOLEAN, finished : 0..2]]
    /\ answer \in [ok : BOOLEAN, cancelled : BOOLEAN]
    /\ life \in {"up", "draining", "gone"}

Init ==
    /\ present \in SUBSET Providers
    /\ pstate = [p \in Providers |-> "Disconnected"]
    /\ dialing = {} /\ orphans = {} /\ owned = {} /\ bound = {} /\ held = {}
    /\ usable = TRUE /\ defs = present /\ snapIds = present
    /\ eps = {} /\ maps = {}
    /\ phys = [e \in Endpoints |-> {"old"}]
    /\ applyPc = "idle" /\ want = NoTopology /\ staged = FALSE
    /\ done = <<>> /\ prepared = FALSE /\ repair = FALSE
    /\ before = NothingBefore /\ torn = {}
    /\ runPc = "idle" /\ picked = {} /\ wants = {} /\ active = {}
    /\ prepFailed = FALSE /\ cancelled = FALSE /\ lost = {} /\ halted = FALSE
    /\ stopped = {} /\ results = NoResults
    /\ lease = [r \in Resources |-> FreshLease]
    /\ answer = NoAnswer /\ life = "up"

(* The thread is back in an event loop, the outer or a nested one.         *)
InLoop == /\ life # "gone"
          /\ \/ applyPc = "idle"
             \/ applyPc \in {"joining", "restoring", "restoring then undo"} /\ Waiting

(* The record of the last run ends when the host turns to something else.  *)
RunIsHistory ==
    /\ lease' = [r \in Resources |-> FreshLease] /\ answer' = NoAnswer
    /\ UNCHANGED <<runPc, picked, wants, active, prepFailed, cancelled, lost, halted,
                   stopped, results>>

(* ... and is the host's to call from.                                     *)
HostCalls == InLoop /\ life = "up" /\ usable

(***************************************************************************)
(* Providers.                                                              *)
(***************************************************************************)
AddProvider(p) ==
    /\ HostCalls /\ runPc = "idle"
    /\ applyPc = "idle" \/ HostsAddWhileApplying
    /\ p \notin present
    /\ AddToManager(p)
    /\ defs' = defs \union {p} /\ snapIds' = snapIds \union {p}
    /\ UNCHANGED <<usable, eps, maps, phys, applyVars, life>>
    /\ RunIsHistory

(* updateProvider(): whatever was built on the old configuration is no     *)
(* longer executable.                                                      *)
UpdateProvider(p, dropped) ==
    /\ HostCalls /\ runPc = "idle" /\ applyPc = "idle"
    /\ p \in present
    /\ Reconfigure({p}, dropped)
    /\ eps' = {} /\ maps' = {}
    /\ UNCHANGED <<usable, defs, snapIds, phys, applyVars, life>>
    /\ RunIsHistory

RemoveProvider(p) ==
    /\ HostCalls /\ runPc = "idle" /\ applyPc = "idle"
    /\ p \in present /\ p \notin eps
    /\ RemoveFromManager(p)
    /\ defs' = defs \ {p} /\ snapIds' = snapIds \ {p}
    /\ UNCHANGED <<usable, eps, maps, phys, applyVars, life>>
    /\ RunIsHistory

ConnectProviders ==
    /\ HostCalls
    /\ ToDial(present, pstate) # {}
    /\ ConnectAll
    /\ UNCHANGED <<usable, defs, topoVars, phys, applyVars, runVars, life>>

ProvidersReport ==
    /\ InLoop
    /\ ProviderEvent
    /\ UNCHANGED <<usable, defs, topoVars, phys, applyVars, runVars, life>>

(***************************************************************************)
(* applyTopology().                                                        *)
(***************************************************************************)
ApplyFrame == UNCHANGED <<usable, eps, maps, runVars, life>>

EndApply == /\ applyPc' = "idle" /\ want' = NoTopology /\ held' = {}
            /\ repair' = FALSE /\ before' = NothingBefore /\ torn' = {}

(* The provider set is staged at once, whatever comes of the rest; without *)
(* replaceProviders nothing is connected or waited for.                    *)
ApplyTopology(d, dropped) ==
    /\ HostCalls /\ runPc = "idle" /\ applyPc = "idle"
    /\ want' = d /\ staged' = d.replace
    /\ before' = [phys |-> phys, maps |-> maps, providers |-> defs]
    /\ IF d.replace
       THEN /\ dropped \subseteq d.provs \intersect defs
            /\ ReplaceAll(defs \ d.provs, dropped, d.provs)
            /\ applyPc' = "joining"
       ELSE /\ dropped = {}
            /\ applyPc' = "checking"
            /\ UNCHANGED pmVars
    /\ UNCHANGED <<usable, defs, topoVars, phys, done, prepared, repair, torn, life>>
    /\ RunIsHistory

(* An account whose type changed cannot be updated: what was staged so far *)
(* is undone before anybody is waited for.                                 *)
RejectTopology(d) ==
    /\ HostCalls /\ runPc = "idle" /\ applyPc = "idle"
    /\ d.replace /\ d.provs \intersect defs # {}
    /\ want' = d /\ staged' = TRUE
    /\ before' = [phys |-> phys, maps |-> maps, providers |-> defs]
    /\ ReplaceAll(present, {}, defs)
    /\ applyPc' = "restoring"
    /\ UNCHANGED <<usable, defs, topoVars, phys, done, prepared, repair, torn, life>>
    /\ RunIsHistory

(* Leaving with an error: restoreProviders() builds every provider anew    *)
(* and waits for them, if the set was staged.                              *)
LeaveStaged == EndApply /\ UNCHANGED <<present, pstate, dialing, orphans, owned, bound>>

Leave ==
    IF staged
    THEN /\ ReplaceAll(present, {}, before.providers)
         /\ applyPc' = "restoring"
         /\ UNCHANGED <<want, repair, before, torn>>
    ELSE /\ EndApply
         /\ UNCHANGED <<present, pstate, dialing, orphans, owned, bound>>

(* The wait in the nested loop ends when nobody is connecting any more, or *)
(* after kProviderConnectTimeoutMs.                                        *)
Joined ==
    /\ applyPc = "joining"
    /\ IF \A p \in want.provs : pstate[p] = "Connected"
       THEN applyPc' = "checking" /\ UNCHANGED <<pmVars, want, repair, before, torn>>
       ELSE Leave
    /\ ApplyFrame
    /\ UNCHANGED <<defs, snapIds, phys, staged, done, prepared>>

Restored ==
    /\ applyPc \in {"restoring", "restoring then undo"}
    /\ defs' = before.providers /\ snapIds' = before.providers /\ staged' = FALSE
    /\ IF applyPc = "restoring"
       THEN EndApply
       ELSE applyPc' = "undoing" /\ UNCHANGED <<want, held, repair, before, torn>>
    /\ ApplyFrame
    /\ UNCHANGED <<present, pstate, dialing, orphans, owned, bound, phys, done, prepared>>

WaitEnds == ~Waiting /\ (Joined \/ Restored)
NeverGiveUp == FALSE
GiveUpWaiting == Waiting /\ (Joined \/ Restored)

(* What is validated before anything durable or physical is touched.       *)
Valid ==
    LET known == IF want.replace THEN want.provs ELSE snapIds
    IN /\ want.eps \subseteq known \intersect owned
       /\ \A p \in want.eps : pstate[p] = "Connected"
       /\ want.drops \/ eps \subseteq want.eps
       /\ \A i \in 1..Len(want.muts) : want.muts[i].at \in want.eps \union {Hub}

(* Not valid, a factory that fails, or a participant that will not prepare. *)
ApplyRefused ==
    /\ applyPc = "checking"
    /\ Leave
    /\ ApplyFrame
    /\ UNCHANGED <<defs, snapIds, phys, staged, done, prepared>>

ApplyPrepared ==
    /\ applyPc = "checking" /\ Valid
    /\ applyPc' = "mutating" /\ prepared' = TRUE
    /\ held' = want.eps
    /\ ApplyFrame
    /\ UNCHANGED <<present, pstate, dialing, orphans, owned, bound, defs, snapIds, phys,
                   want, staged, done, repair, before, torn>>

(* The collection mutations, one by one, on the executor of the endpoint.  *)
Does(mu, s) ==
    CASE mu.kind = "Create"  -> s \union {mu.name}
      [] mu.kind = "Rename"  -> (s \ {mu.name}) \union {"renamed"}
      [] mu.kind = "Update"  -> s \union {"meta"}
      [] mu.kind = "Destroy" -> s \ {mu.name}
      [] OTHER -> s

Undoes(mu, s) ==
    CASE mu.kind = "Create" -> s \ {mu.name}
      [] mu.kind = "Rename" -> (s \ {"renamed"}) \union {mu.name}
      [] OTHER -> s

Touched(mu) ==
    {mu.at} \X CASE mu.kind = "Rename" -> {mu.name, "renamed"}
                 [] mu.kind = "Update" -> {"meta"}
                 [] OTHER -> {mu.name}

NeedsIt(mu) == mu.kind \in {"Rename", "Adopt", "Destroy"}
Possible(mu) == /\ NeedsIt(mu) => mu.name \in phys[mu.at]
                /\ mu.kind = "Rename" => "renamed" \notin phys[mu.at]
Done(mu) == phys' = [phys EXCEPT ![mu.at] = Does(mu, @)]

(* To create what is there already succeeds, and is taken for a creation.  *)
Recreated(mu) ==
    {c \in Touched(mu) : mu.kind = "Create" /\ mu.name \in phys[mu.at]}

(* What fails was not done, or was: an answer is lost on the way, or one   *)
(* half of the metadata is saved and the other is not.  It is not among    *)
(* what will be undone.                                                    *)
ApplyMutation ==
    /\ applyPc = "mutating" /\ Len(done) < Len(want.muts)
    /\ LET mu == want.muts[Len(done) + 1]
       IN \/ /\ Possible(mu) /\ Done(mu)
             /\ done' = Append(done, mu)
             /\ torn' = torn \union Recreated(mu)
             /\ UNCHANGED <<applyPc, repair>>
          \/ /\ mu.kind # "Untrack"
             /\ applyPc' = "undoing"
             /\ repair' = (mu.kind = "Destroy")
             /\ \/ UNCHANGED <<phys, torn>>
                \/ Possible(mu) /\ Done(mu) /\ torn' = torn \union Touched(mu)
             /\ UNCHANGED done
    /\ ApplyFrame
    /\ UNCHANGED <<pmVars, defs, snapIds, want, staged, prepared, before>>

RepairUpdates(mu) == mu.kind = "Update"
NeedsRepair(mu) == mu.kind \in {"Update", "Destroy"}

(* compensateCollections(), backwards.  A creation and a renaming can be   *)
(* undone, if the backend obliges; the rest is left and is said to be.  A  *)
(* backend that was destroyed meanwhile is called all the same, if another *)
(* has its id by now: that works, or says it did.                          *)
Compensate ==
    /\ applyPc = "undoing" /\ done # <<>>
    /\ LET mu == done[Len(done)]
       IN IF mu.kind \in {"Create", "Rename"}
          THEN \/ /\ mu.at \in owned \union {Hub}
                  /\ phys' = [phys EXCEPT ![mu.at] = Undoes(mu, @)]
                  /\ UNCHANGED <<repair, torn>>
               \/ /\ repair' = TRUE
                  /\ UNCHANGED <<phys, torn>>
               \/ /\ mu.at \in owned \ held
                  /\ torn' = torn \union Touched(mu)
                  /\ UNCHANGED <<phys, repair>>
          ELSE /\ repair' = (repair \/ NeedsRepair(mu))
               /\ UNCHANGED <<phys, torn>>
    /\ done' = SubSeq(done, 1, Len(done) - 1)
    /\ ApplyFrame
    /\ UNCHANGED <<pmVars, defs, snapIds, applyPc, want, staged, prepared, before>>

(* Then the participant rolls back.                                        *)
Compensated ==
    /\ applyPc = "undoing" /\ done = <<>>
    /\ prepared' = FALSE
    /\ Leave
    /\ ApplyFrame
    /\ UNCHANGED <<defs, snapIds, phys, staged, done>>

(* The participant commits, then the new topology is published.  When it   *)
(* refuses, providers are restored first and collections after them.       *)
ApplyCommitted ==
    /\ applyPc = "mutating" /\ Len(done) = Len(want.muts)
    /\ prepared' = FALSE /\ staged' = FALSE /\ done' = <<>>
    /\ eps' = want.eps /\ maps' = want.eps
    /\ bound' = bound \union {p \in want.eps : ResourceOf[p] # NoResource}
    /\ IF want.replace THEN defs' = want.provs /\ snapIds' = want.provs
                       ELSE UNCHANGED <<defs, snapIds>>
    /\ EndApply
    /\ UNCHANGED <<present, pstate, dialing, orphans, owned, usable, phys, runVars, life>>

CommitRefused ==
    /\ applyPc = "mutating" /\ Len(done) = Len(want.muts)
    /\ prepared' = FALSE
    /\ IF staged
       THEN ReplaceAll(present, {}, before.providers) /\ applyPc' = "restoring then undo"
       ELSE applyPc' = "undoing" /\ UNCHANGED pmVars
    /\ ApplyFrame
    /\ UNCHANGED <<defs, snapIds, phys, want, staged, done, repair, before, torn>>

ApplyStep ==
    \/ WaitEnds \/ GiveUpWaiting
    \/ ApplyRefused \/ ApplyPrepared
    \/ ApplyMutation \/ Compensate \/ Compensated
    \/ ApplyCommitted \/ CommitRefused

(***************************************************************************)
(* run().                                                                  *)
(***************************************************************************)
RunFrame == UNCHANGED <<pmVars, usable, defs, topoVars, phys, applyVars, life>>

Selected(s) == IF s = All THEN maps ELSE s
ResourcesFor(ms) == {ResourceOf[m] : m \in ms \intersect maps} \ {NoResource}
LostTo(m) == ResourceOf[m] \in lost

(* finishResourcesOnce(): m_resourcesFinished is that a lease was told.    *)
FinishFlushed(ls) == [r \in Resources |->
    IF ls[r].flushed THEN [ls[r] EXCEPT !.finished = @ + 1] ELSE ls[r]]

Finish(ls) == [r \in Resources |->
    IF r \in active /\ \A q \in active : ls[q].finished = 0
    THEN [ls[r] EXCEPT !.finished = @ + 1] ELSE ls[r]]

(* The end of every run: leases finished, flags reset, the promise kept.   *)
EndRun(a, ls) ==
    /\ answer' = a /\ lease' = Finish(ls)
    /\ runPc' = "idle" /\ cancelled' = FALSE
    /\ picked' = {} /\ active' = {} /\ wants' = {} /\ lost' = {}
    /\ prepFailed' = FALSE /\ stopped' = {} /\ results' = NoResults

(* A selection that names an unknown mapping or a backend that is gone is  *)
(* refused, after the leases it would use are known; one that is empty is  *)
(* no work.                                                                *)
Run(s) ==
    LET ms == Selected(s)
        rs == ResourcesFor(ms)
        bad == ~(ms \subseteq maps /\ ms \subseteq owned)
    IN /\ HostCalls /\ applyPc = "idle" /\ runPc = "idle"
       /\ IF bad \/ ms = {}
          THEN /\ answer' = [ok |-> ~bad, cancelled |-> FALSE]
               /\ lease' = [r \in Resources |->
                              [FreshLease EXCEPT !.finished = IF r \in rs THEN 1 ELSE 0]]
               /\ UNCHANGED <<runPc, picked, wants, active>>
          ELSE /\ runPc' = "preparing"
               /\ picked' = ms /\ active' = rs /\ wants' = rs
               /\ lease' = [r \in Resources |-> FreshLease]
               /\ answer' = NoAnswer
       /\ cancelled' = FALSE /\ lost' = {} /\ prepFailed' = FALSE
       /\ stopped' = {} /\ results' = NoResults
       /\ UNCHANGED halted
       /\ RunFrame

(* lease->prepare() and executePhase(), code of the host.                  *)
Prepare(r) ==
    /\ runPc = "preparing" /\ r \in wants /\ InLoop
    /\ \/ /\ wants' = wants \ {r}
          /\ lease' = [lease EXCEPT ![r].prepared = TRUE]
          /\ UNCHANGED prepFailed
       \/ /\ wants' = {} /\ prepFailed' = TRUE
          /\ UNCHANGED lease
    /\ UNCHANGED <<runPc, picked, active, cancelled, lost, halted, stopped, results, answer>>
    /\ RunFrame

(* The engine starts.  A queue run clears the engine's cancel flag and what *)
(* it knew of lost resources; a run of one mapping that finds the flag set  *)
(* is over before it began.                                                 *)
Launch ==
    /\ runPc = "preparing" /\ wants = {}
    /\ IF cancelled \/ prepFailed
       THEN /\ EndRun([ok |-> FALSE, cancelled |-> cancelled], lease)
            /\ UNCHANGED halted
       ELSE /\ runPc' = "syncing"
            /\ halted' = (halted /\ Cardinality(picked) = 1)
            /\ UNCHANGED <<picked, wants, active, prepFailed, cancelled, lost, stopped,
                           results, lease, answer>>
    /\ RunFrame

(* A baseline that cannot be cleared ends a full run before the engine's.  *)
LaunchRefused ==
    /\ runPc = "preparing" /\ wants = {} /\ ~cancelled /\ ~prepFailed
    /\ EndRun([ok |-> FALSE, cancelled |-> FALSE], lease)
    /\ UNCHANGED halted
    /\ RunFrame

(* The engine's part: a result for an enabled mapping.                     *)
EngineResult(m, r) ==
    /\ runPc = "syncing" /\ InLoop
    /\ m \in picked \ Disabled /\ results[m] = "none"
    /\ r = "ok" => m \in owned /\ ~halted
    /\ r = "cancelled" => halted \/ m \in stopped
    /\ results' = [results EXCEPT ![m] = r]
    /\ UNCHANGED <<runPc, picked, wants, active, prepFailed, cancelled, lost, halted,
                   stopped, lease, answer>>
    /\ RunFrame

EngineAnswers == \E m \in Providers, r \in {"ok", "failed", "cancelled"} : EngineResult(m, r)

(* The engine's future is over.  Every mapping that was selected must have *)
(* a result; leases are flushed only if all is well.                       *)
WellForTheEngine == ~halted /\ \A m \in picked : results[m] = "ok"

Well == /\ ~halted
        /\ \A m \in picked : results[m] = "ok" /\ ~LostTo(m)

Flush(rs) == [r \in Resources |->
    IF r \in rs THEN [lease[r] EXCEPT !.flushed = TRUE] ELSE lease[r]]

EngineFinished(rs) ==
    /\ runPc = "syncing" /\ InLoop
    /\ halted \/ \A m \in picked \ Disabled : results[m] # "none"
    /\ rs \subseteq active /\ (~Well => rs = {})
    /\ EndRun([ok |-> Well /\ rs = active,
               cancelled |-> halted \/ \E m \in picked :
                                  results[m] = "cancelled"
                                  \/ (results[m] # "none" /\ LostTo(m))], Flush(rs))
    /\ UNCHANGED halted
    /\ RunFrame

Cancel ==
    /\ InLoop /\ life = "up" /\ runPc # "idle" /\ ~cancelled
    /\ cancelled' = TRUE /\ halted' = TRUE
    /\ UNCHANGED <<runPc, picked, wants, active, prepFailed, lost, stopped, results,
                   lease, answer>>
    /\ RunFrame

(* The loss handler of a lease: the engine finds the mappings of a resource *)
(* by the resource id of their backends, and knows of none before it runs.  *)
Lose(r) ==
    /\ InLoop /\ runPc # "idle" /\ r \in Resources \ lost
    /\ lost' = lost \union {r}
    /\ stopped' = IF runPc = "syncing"
                  THEN stopped \union {m \in picked \intersect bound : ResourceOf[m] = r}
                  ELSE stopped
    /\ UNCHANGED <<runPc, picked, wants, active, prepFailed, cancelled, halted, results,
                   lease, answer>>
    /\ RunFrame

(***************************************************************************)
(* reset() and destruction.                                                *)
(***************************************************************************)
(* A database that cannot be removed or opened leaves the runtime unusable. *)
Reset(opened) ==
    /\ InLoop /\ life = "up" /\ runPc = "idle" /\ applyPc = "idle"
    /\ DisconnectAll
    /\ usable' = opened
    /\ snapIds' = {} /\ eps' = {} /\ maps' = {}
    /\ halted' = FALSE /\ cancelled' = FALSE
    /\ UNCHANGED <<defs, phys, applyVars, runPc, picked, wants, active, prepFailed, lost,
                   stopped, results, lease, answer, life>>

(* The destructor cancels an active run and lets its end come for a second; *)
(* what has not ended then is answered there.                               *)
Destroy ==
    /\ life = "up" /\ InLoop /\ applyPc = "idle" /\ runPc # "preparing"
    /\ life' = IF runPc = "idle" THEN "gone" ELSE "draining"
    /\ IF runPc = "idle" THEN UNCHANGED <<cancelled, halted>>
                         ELSE cancelled' = TRUE /\ halted' = TRUE
    /\ UNCHANGED <<pmVars, usable, defs, topoVars, phys, applyVars, runPc, picked, wants,
                   active, prepFailed, lost, stopped, results, lease, answer>>

Torn ==
    /\ life = "draining"
    /\ life' = "gone"
    /\ IF runPc = "idle"
       THEN UNCHANGED <<runPc, picked, wants, active, prepFailed, cancelled, lost, stopped,
                        results, lease, answer>>
       ELSE EndRun([ok |-> FALSE, cancelled |-> TRUE], lease)
    /\ UNCHANGED <<pmVars, usable, defs, topoVars, phys, applyVars, halted>>

Host ==
    \/ \E p \in Providers :
          \/ AddProvider(p) \/ RemoveProvider(p)
          \/ \E dropped \in SUBSET {p} : UpdateProvider(p, dropped)
    \/ ConnectProviders
    \/ \E d \in Topologies : RejectTopology(d) \/ \E s \in SUBSET d.provs : ApplyTopology(d, s)
    \/ \E s \in Selections : Run(s)
    \/ Cancel
    \/ \E r \in Resources : Lose(r)
    \/ \E opened \in BOOLEAN : Reset(opened)
    \/ Destroy

RunStep ==
    \/ \E r \in Resources : Prepare(r)
    \/ Launch \/ LaunchRefused
    \/ EngineAnswers
    \/ \E rs \in SUBSET Resources : EngineFinished(rs)

Next == Host \/ ProvidersReport \/ ApplyStep \/ RunStep \/ Torn

Spec == Init /\ [][Next]_vars

(* The thread goes on whenever it can: an application of a topology does   *)
(* not wait for ever, hooks return, the engine answers unless it was told  *)
(* to stop (SyncRun says why then it may not), a destructor returns.       *)
Fairness == /\ WF_vars(ApplyStep)
            /\ WF_vars((\E r \in Resources : Prepare(r)) \/ Launch \/ LaunchRefused)
            /\ WF_vars(~cancelled /\ EngineAnswers)
            /\ WF_vars(~cancelled /\ \E rs \in SUBSET Resources : EngineFinished(rs))
            /\ WF_vars(Torn)

FairSpec == Spec /\ Fairness

(***************************************************************************)
(* Properties.                                                             *)
(***************************************************************************)
(* A lease that was prepared is finished exactly once before its run is    *)
(* answered, flushed only after it was prepared, and never told to finish  *)
(* while the run goes on, however the run ends: refused, cancelled, failed *)
(* in a hook, completed by the engine or cut off by the destructor.        *)
LeaseProtocol ==
    /\ life = "gone" => runPc = "idle"
    /\ \A r \in Resources :
        /\ lease[r].finished <= 1
        /\ lease[r].flushed => lease[r].prepared
        /\ runPc = "idle" /\ lease[r].prepared => lease[r].finished = 1
        /\ runPc # "idle" => lease[r].finished = 0

(* A run that is answered with success was not cancelled, in its           *)
(* preparation or later; it synced every mapping it was asked for against  *)
(* resources that were there to the end, though the engine could not know  *)
(* of every loss; and each lease was prepared and flushed (docs/INVARIANTS *)
(* 1).                                                                     *)
SuccessIsEarned ==
    [][runPc # "idle" /\ runPc' = "idle" /\ answer'.ok =>
          /\ runPc = "syncing" /\ ~cancelled
          /\ \A m \in picked : results[m] = "ok" /\ ~LostTo(m)
          /\ \A r \in active : lease'[r].prepared /\ lease'[r].flushed]_vars

(* After a topology that failed and asks for no repair, accounts and        *)
(* mappings are what they were, the durable participant is not left        *)
(* prepared, and so is every collection but those in torn: a collection    *)
(* created though it was there is deleted by the compensation, a mutation  *)
(* that fails after it was done is not undone, and a backend destroyed by  *)
(* the restoration of the accounts does not undo what it says it undid.    *)
(* Of these nothing is said to the host, so the code does not keep         *)
(* docs/INVARIANTS 17 ("atomic or return explicit repair state"); of all   *)
(* others it does.  A transaction is left from "mutating" only when it is  *)
(* committed.                                                              *)
FailedApplyIsUndone ==
    [][applyPc # "idle" /\ applyPc' = "idle" =>
          /\ ~prepared'
          /\ applyPc # "mutating" /\ ~repair =>
                /\ maps' = before.maps
                /\ defs' = before.providers /\ present' = before.providers
                /\ \A e \in Endpoints, n \in Names : <<e, n>> \notin torn =>
                        (n \in phys'[e] <=> n \in before.phys[e])]_vars

(* Outside a transaction the configured accounts are those the manager has, *)
(* and every endpoint of the topology belongs to one of them.              *)
AccountsAgree ==
    applyPc = "idle" => /\ defs = present
                        /\ snapIds \subseteq defs
                        /\ eps \subseteq present

(* Teardown and waiting are bounded (docs/INVARIANTS 3): an application of *)
(* a topology returns though a provider never connects, a run that is not  *)
(* cancelled is answered, and a destructor ends with its run answered.     *)
Returns ==
    /\ applyPc # "idle" ~> applyPc = "idle"
    /\ runPc # "idle" ~> runPc = "idle" \/ cancelled
    /\ life = "draining" ~> life = "gone"
=============================================================================
