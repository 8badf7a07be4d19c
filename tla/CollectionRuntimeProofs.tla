----------------------- MODULE CollectionRuntimeProofs -----------------------
(***************************************************************************)
(* Proofs about CollectionRuntime: accounts and topology agree, a topology *)
(* that fails is undone, leases are finished once and success is earned.   *)
(***************************************************************************)
EXTENDS CollectionRuntimeInv, SequenceTheorems, TLAPS

USE DEF vars, pmVars, topoVars, applyVars, runVars

(***************************************************************************)
(* The manager of accounts: each of its operations keeps its types.        *)
(***************************************************************************)
LEMMA Replaces ==
    ASSUME PMTypeOK, NEW ps \in SUBSET Providers, NEW dropped \in SUBSET Providers,
           NEW qs \in SUBSET Providers, ReplaceAll(ps, dropped, qs)
    PROVE  PMTypeOK' /\ present' = (present \ ps) \union qs
BY DEF PMTypeOK, ReplaceAll, Dialled, ToDial, Unregister

LEMMA Manages ==
    ASSUME PMTypeOK, NEW p \in Providers
    PROVE  /\ AddToManager(p) => PMTypeOK' /\ present' = present \union {p}
           /\ RemoveFromManager(p) => PMTypeOK' /\ present' = present \ {p}
           /\ \A dropped \in SUBSET {p} : Reconfigure({p}, dropped) =>
                 PMTypeOK' /\ present' = present
<1>1. AddToManager(p) => PMTypeOK' /\ present' = present \union {p}
  BY DEF PMTypeOK, AddToManager
<1>2. RemoveFromManager(p) => PMTypeOK' /\ present' = present \ {p}
  BY DEF PMTypeOK, RemoveFromManager, Unregister
<1>3. ASSUME NEW dropped \in SUBSET {p}, Reconfigure({p}, dropped)
      PROVE  PMTypeOK' /\ present' = present
  BY <1>3 DEF PMTypeOK, Reconfigure, Unregister
<1>. QED
  BY <1>1, <1>2, <1>3

LEMMA Connecting ==
    ASSUME PMTypeOK
    PROVE  /\ ConnectAll => PMTypeOK' /\ present' = present
           /\ DisconnectAll => PMTypeOK' /\ present' = present
<1>1. ConnectAll => PMTypeOK' /\ present' = present
  BY DEF PMTypeOK, ConnectAll, Dialled, ToDial
<1>2. DisconnectAll => PMTypeOK' /\ present' = present
  BY DEF PMTypeOK, DisconnectAll, Unregister
<1>. QED
  BY <1>1, <1>2

LEMMA Reporting ==
    ASSUME PMTypeOK, ProviderEvent
    PROVE  PMTypeOK' /\ present' = present
<1>. PICK p \in Providers :
        Connects(p) \/ OrphanReports(p) \/ CollectionsChange(p) \/ FailsToConnect(p) \/ Drops(p)
  BY DEF ProviderEvent
<1>1. CASE Connects(p)
  BY <1>1 DEF PMTypeOK, Connects, Register
<1>2. CASE OrphanReports(p)
  BY <1>2 DEF PMTypeOK, OrphanReports
<1>3. CASE CollectionsChange(p)
  BY <1>3 DEF PMTypeOK, CollectionsChange, Register
<1>4. CASE FailsToConnect(p)
  BY <1>4 DEF PMTypeOK, FailsToConnect
<1>5. CASE Drops(p)
  BY <1>5 DEF PMTypeOK, Drops, Unregister
<1>. QED
  BY <1>1, <1>2, <1>3, <1>4, <1>5

(***************************************************************************)
(* The run and its leases.                                                 *)
(***************************************************************************)
USE DEF RunInv

LEMMA RunFrozen ==
    ASSUME RunInv, UNCHANGED <<runVars, life>>
    PROVE  RunInv'
BY DEF RunTyped, RunKnows, LeaseProtocol

LEMMA RunForgotten ==
    ASSUME RunInv, RunIsHistory, runPc = "idle", UNCHANGED life
    PROVE  RunInv'
<1>1. RunTyped'
  BY DEF RunTyped, RunIsHistory, FreshLease, NoAnswer
<1>2. \A r \in Resources : lease'[r] = FreshLease
  BY DEF RunIsHistory
<1>3. RunKnows' /\ LeaseProtocol'
  BY <1>2 DEF RunKnows, LeaseProtocol, RunIsHistory, FreshLease
<1>. QED
  BY <1>1, <1>3

(* However a run ends, the leases it prepared are told once.               *)
LEMMA Finished ==
    ASSUME RunInv, runPc # "idle",
           NEW ls \in [Resources -> [prepared : BOOLEAN, flushed : BOOLEAN, finished : 0..2]],
           \A r \in Resources : /\ ls[r].finished = 0
                                /\ ls[r].flushed => ls[r].prepared
                                /\ ls[r].prepared => r \in active,
           NEW a \in [ok : BOOLEAN, cancelled : BOOLEAN], EndRun(a, ls)
    PROVE  /\ lease' \in [Resources -> [prepared : BOOLEAN, flushed : BOOLEAN, finished : 0..2]]
           /\ runPc' = "idle" /\ cancelled' = FALSE
           /\ \A r \in Resources : /\ lease'[r].finished <= 1
                                   /\ lease'[r].flushed => lease'[r].prepared
                                   /\ lease'[r].prepared => lease'[r].finished = 1
           /\ \A r \in Resources : lease'[r].prepared = ls[r].prepared
                                   /\ lease'[r].flushed = ls[r].flushed
<1>1. lease' = [r \in Resources |->
                   IF r \in active THEN [ls[r] EXCEPT !.finished = 1] ELSE ls[r]]
  <2>1. \A r \in active : r \in Resources /\ ls[r].finished = 0
    BY DEF RunTyped
  <2>2. \A r \in active : \A q \in active : ls[q].finished = 0
    BY <2>1
  <2>3. \A r \in active : [ls[r] EXCEPT !.finished = @ + 1] = [ls[r] EXCEPT !.finished = 1]
    BY <2>1
  <2>. QED
    BY <2>2, <2>3 DEF EndRun, Finish
<1>2. ASSUME NEW r \in Resources
      PROVE  /\ lease'[r] \in [prepared : BOOLEAN, flushed : BOOLEAN, finished : 0..2]
             /\ lease'[r].prepared = ls[r].prepared /\ lease'[r].flushed = ls[r].flushed
             /\ lease'[r].finished = IF r \in active THEN 1 ELSE 0
  BY <1>1
<1>3. lease' \in [Resources -> [prepared : BOOLEAN, flushed : BOOLEAN, finished : 0..2]]
  BY <1>1, <1>2
<1>. QED
  BY <1>2, <1>3 DEF EndRun

LEMMA Ends ==
    ASSUME RunInv, runPc # "idle", NEW ls,
           ls = lease \/ \E rs \in SUBSET active : ls = Flush(rs) /\ runPc = "syncing",
           NEW a \in [ok : BOOLEAN, cancelled : BOOLEAN], EndRun(a, ls),
           UNCHANGED halted, UNCHANGED life \/ life' = "gone"
    PROVE  RunInv'
<1>. DEFINE Ready(l) ==
        /\ l \in [Resources -> [prepared : BOOLEAN, flushed : BOOLEAN, finished : 0..2]]
        /\ \A r \in Resources : /\ l[r].finished = 0
                                /\ l[r].flushed => l[r].prepared
                                /\ l[r].prepared => r \in active
<1>1. Ready(ls)
  <2>1. CASE ls = lease
    BY <2>1 DEF RunTyped, RunKnows, LeaseProtocol
  <2>2. ASSUME NEW rs \in SUBSET active, ls = Flush(rs), runPc = "syncing"
        PROVE  Ready(ls)
    <3>1. \A r \in rs : r \in Resources /\ lease[r].prepared
      BY <2>2 DEF RunTyped, RunKnows
    <3>2. \A r \in Resources :
             /\ ls[r] = IF r \in rs THEN [lease[r] EXCEPT !.flushed = TRUE] ELSE lease[r]
             /\ lease[r] \in [prepared : BOOLEAN, flushed : BOOLEAN, finished : 0..2]
      BY <2>2 DEF Flush, RunTyped
    <3>3. \A r \in Resources :
             /\ ls[r] \in [prepared : BOOLEAN, flushed : BOOLEAN, finished : 0..2]
             /\ ls[r].prepared = lease[r].prepared /\ ls[r].finished = lease[r].finished
             /\ ls[r].flushed => r \in rs \/ lease[r].flushed
      BY <3>2
    <3>4. ls = [r \in Resources |-> ls[r]]
      BY <2>2 DEF Flush
    <3>. QED
      BY <2>2, <3>1, <3>3, <3>4 DEF RunKnows, LeaseProtocol
  <2>. QED
    BY <2>1, <2>2
<1>2. /\ lease' \in [Resources -> [prepared : BOOLEAN, flushed : BOOLEAN, finished : 0..2]]
      /\ runPc' = "idle" /\ cancelled' = FALSE
      /\ \A r \in Resources : /\ lease'[r].finished <= 1
                              /\ lease'[r].flushed => lease'[r].prepared
                              /\ lease'[r].prepared => lease'[r].finished = 1
  BY <1>1, Finished
<1>3. RunTyped'
  BY <1>2 DEF RunTyped, EndRun, NoResults
<1>. QED
  BY <1>2, <1>3 DEF RunKnows, LeaseProtocol

LEMMA RunStarts == ASSUME RunInv, TopoTyped, NEW s \in Selections, Run(s) PROVE RunInv'
<1>. DEFINE ms == Selected(s)  rs == ResourcesFor(ms)
<1>1. ms \subseteq Providers /\ rs \subseteq Resources
  <2>1. ms \subseteq Providers
    BY TopologiesAssumption DEF TopoTyped, Selected
  <2>2. \A m \in ms : ResourceOf[m] \in Resources \union {NoResource}
    BY <2>1, RuntimeAssumption
  <2>3. rs \subseteq Resources
    BY <2>2 DEF ResourcesFor
  <2>. QED
    BY <2>1, <2>3
<1>2. runPc = "idle" /\ cancelled' = FALSE /\ UNCHANGED <<life, halted>>
  BY DEF Run, RunFrame
<1>. HIDE DEF ms, rs
<1>3. CASE ~(ms \subseteq maps /\ ms \subseteq owned) \/ ms = {}
  <2>1. /\ lease' = [r \in Resources |-> [FreshLease EXCEPT !.finished = IF r \in rs THEN 1 ELSE 0]]
        /\ answer' = [ok |-> ~~(ms \subseteq maps /\ ms \subseteq owned), cancelled |-> FALSE]
        /\ UNCHANGED <<runPc, picked, wants, active>>
    BY <1>3 DEF Run, ms, rs
  <2>5. answer' \in [ok : BOOLEAN, cancelled : BOOLEAN]
    BY <2>1
  <2>2. \A r \in Resources : /\ lease'[r].finished \in 0..1 /\ lease'[r].prepared = FALSE
                              /\ lease'[r].flushed = FALSE
    BY <2>1 DEF FreshLease
  <2>3. lease' \in [Resources -> [prepared : BOOLEAN, flushed : BOOLEAN, finished : 0..2]]
    <3>1. FreshLease \in [prepared : BOOLEAN, flushed : BOOLEAN, finished : 0..2]
      BY DEF FreshLease
    <3>2. \A r \in Resources : [FreshLease EXCEPT !.finished = IF r \in rs THEN 1 ELSE 0]
             \in [prepared : BOOLEAN, flushed : BOOLEAN, finished : 0..2]
      BY <3>1
    <3>. QED
      BY <2>1, <3>2
  <2>4. RunTyped'
    BY <2>1, <2>3, <2>5, <1>2 DEF Run, RunTyped, NoResults
  <2>. QED
    BY <2>1, <2>2, <2>4, <1>2 DEF RunKnows, LeaseProtocol
<1>4. CASE ~(~(ms \subseteq maps /\ ms \subseteq owned) \/ ms = {})
  <2>1. /\ runPc' = "preparing" /\ picked' = ms /\ active' = rs /\ wants' = rs
        /\ lease' = [r \in Resources |-> FreshLease] /\ answer' = NoAnswer
    BY <1>4 DEF Run, ms, rs
  <2>4. /\ lease' \in [Resources -> [prepared : BOOLEAN, flushed : BOOLEAN, finished : 0..2]]
        /\ answer' \in [ok : BOOLEAN, cancelled : BOOLEAN]
    BY <2>1 DEF NoAnswer, FreshLease
  <2>5. lost' = {} /\ prepFailed' = FALSE /\ stopped' = {} /\ results' = NoResults
    BY DEF Run
  <2>2. RunTyped'
    BY <2>1, <2>4, <2>5, <1>1, <1>2 DEF RunTyped, NoResults
  <2>3. life = "up"
    BY DEF Run, HostCalls
  <2>. QED
    BY <2>1, <2>2, <2>3, <1>2 DEF RunKnows, LeaseProtocol, FreshLease
<1>. QED
  BY <1>3, <1>4

LEMMA RunPrepares == ASSUME RunInv, NEW r \in Resources, Prepare(r) PROVE RunInv'
<1>. USE DEF Prepare, RunFrame
<1>1. CASE /\ wants' = wants \ {r} /\ lease' = [lease EXCEPT ![r].prepared = TRUE]
           /\ UNCHANGED prepFailed
  <2>1. \A q \in Resources : /\ lease'[q].prepared = (lease[q].prepared \/ q = r)
                              /\ lease'[q].flushed = lease[q].flushed
                              /\ lease'[q].finished = lease[q].finished
    BY <1>1 DEF RunTyped
  <2>2. RunTyped'
    BY <1>1 DEF RunTyped
  <2>. QED
    BY <1>1, <2>1, <2>2 DEF RunTyped, RunKnows, LeaseProtocol
<1>2. CASE wants' = {} /\ prepFailed' = TRUE /\ UNCHANGED lease
  BY <1>2 DEF RunTyped, RunKnows, LeaseProtocol
<1>. QED
  BY <1>1, <1>2

LEMMA RunLaunches == ASSUME RunInv, Launch \/ LaunchRefused PROVE RunInv'
<1>. USE DEF RunFrame
<1>1. CASE LaunchRefused
  BY <1>1, Ends DEF LaunchRefused
<1>2. CASE Launch /\ (cancelled \/ prepFailed)
  BY <1>2, Ends DEF Launch, RunTyped
<1>3. CASE Launch /\ ~(cancelled \/ prepFailed)
  <2>1. /\ runPc = "preparing" /\ wants = {} /\ runPc' = "syncing" /\ ~cancelled /\ ~prepFailed
        /\ halted' \in BOOLEAN
        /\ UNCHANGED <<picked, wants, active, prepFailed, cancelled, lost, stopped,
                       results, lease, answer, life>>
    BY <1>3 DEF Launch, RunTyped
  <2>. QED
    BY <2>1 DEF RunTyped, RunKnows, LeaseProtocol
<1>. QED
  BY <1>1, <1>2, <1>3

LEMMA RunAnswered == ASSUME RunInv, EngineAnswers PROVE RunInv'
<1>. PICK m \in Providers, r \in {"ok", "failed", "cancelled"} : EngineResult(m, r)
  BY DEF EngineAnswers
<1>. QED
  BY DEF EngineResult, RunFrame, RunTyped, RunKnows, LeaseProtocol

LEMMA RunEnds == ASSUME RunInv, NEW rs \in SUBSET Resources, EngineFinished(rs) PROVE RunInv'
<1>1. rs \in SUBSET active /\ runPc = "syncing" /\ UNCHANGED <<halted, life>>
  BY DEF EngineFinished, RunFrame
<1>. DEFINE a == [ok |-> Well /\ rs = active,
                  cancelled |-> halted \/ \E m \in picked :
                                     results[m] = "cancelled"
                                     \/ (results[m] # "none" /\ LostTo(m))]
<1>2. EndRun(a, Flush(rs))
  BY DEF EngineFinished
<1>3. a \in [ok : BOOLEAN, cancelled : BOOLEAN]
  BY DEF RunTyped, Well
<1>. HIDE DEF a
<1>. QED
  BY <1>1, <1>2, <1>3, Ends

LEMMA RunInterrupted ==
    ASSUME RunInv, Cancel \/ (\E r \in Resources : Lose(r)) \/ Destroy
           \/ (\E opened \in BOOLEAN : Reset(opened))
    PROVE  RunInv'
<1>1. CASE Cancel
  BY <1>1 DEF Cancel, RunFrame, RunTyped, RunKnows, LeaseProtocol
<1>2. CASE \E r \in Resources : Lose(r)
  <2>. PICK r \in Resources : Lose(r)
    BY <1>2
  <2>. QED
    BY DEF Lose, RunFrame, RunTyped, RunKnows, LeaseProtocol
<1>3. CASE Destroy
  BY <1>3 DEF Destroy, RunTyped, RunKnows, LeaseProtocol
<1>4. CASE \E opened \in BOOLEAN : Reset(opened)
  BY <1>4 DEF Reset, RunTyped, RunKnows, LeaseProtocol
<1>. QED
  BY <1>1, <1>2, <1>3, <1>4

LEMMA RunTorn == ASSUME RunInv, Torn PROVE RunInv'
<1>1. CASE runPc = "idle"
  BY <1>1 DEF Torn, RunTyped, RunKnows, LeaseProtocol
<1>2. CASE runPc # "idle"
  BY <1>2, Ends DEF Torn
<1>. QED
  BY <1>1, <1>2

(***************************************************************************)
(* The topology.                                                           *)
(***************************************************************************)
LEMMA TopoFrozen ==
    ASSUME TopoInv, UNCHANGED <<pmVars, usable, defs, topoVars, phys, applyVars>>
    PROVE  TopoInv'
<1>1. TopoTyped' /\ ApplyPhases'
  BY DEF TopoInv, TopoTyped, PMTypeOK, ApplyPhases
<1>2. BackendsHeld' /\ AccountsKept'
  BY DEF TopoInv, BackendsHeld, AccountsKept, AccountsAgree
<1>3. Reversible'
  BY DEF TopoInv, Reversible, UndoableAt, Lasting
<1>. QED
  BY <1>1, <1>2, <1>3 DEF TopoInv

(* What hosts and providers do between and within transactions leaves the  *)
(* transaction alone.                                                      *)
LEMMA ApplyUntouched ==
    ASSUME TopoInv, UNCHANGED <<phys, applyVars>>,
           applyPc \notin {"mutating", "undoing"}, TopoTyped', AccountsKept'
    PROVE  TopoInv'
<1>1. ApplyPhases' /\ BackendsHeld'
  BY DEF TopoInv, ApplyPhases, BackendsHeld
<1>2. Reversible'
  BY DEF TopoInv, Reversible, UndoableAt, Lasting
<1>. QED
  BY <1>1, <1>2 DEF TopoInv

LEMMA AccountCalls ==
    ASSUME TopoInv, NEW p \in Providers,
           AddProvider(p) \/ RemoveProvider(p) \/ \E dropped \in SUBSET {p} : UpdateProvider(p, dropped)
    PROVE  TopoInv'
<1>0. PMTypeOK
  BY DEF TopoInv, TopoTyped
<1>1. CASE AddProvider(p)
  <2>1. PMTypeOK' /\ present' = present \union {p}
    BY <1>0, <1>1, Manages DEF AddProvider
  <2>2. TopoTyped'
    BY <1>1, <2>1 DEF AddProvider, TopoInv, TopoTyped
  <2>3. AccountsKept'
    BY <1>1, <2>1 DEF AddProvider, TopoInv, AccountsKept, AccountsAgree
  <2>. QED
    BY <1>1, <2>2, <2>3, ApplyUntouched DEF AddProvider, HostCalls, InLoop
<1>2. CASE RemoveProvider(p)
  <2>1. PMTypeOK' /\ present' = present \ {p}
    BY <1>0, <1>2, Manages DEF RemoveProvider
  <2>2. TopoTyped'
    BY <1>2, <2>1 DEF RemoveProvider, TopoInv, TopoTyped
  <2>3. AccountsKept'
    BY <1>2, <2>1 DEF RemoveProvider, TopoInv, AccountsKept, AccountsAgree
  <2>. QED
    BY <1>2, <2>2, <2>3, ApplyUntouched DEF RemoveProvider
<1>3. ASSUME NEW dropped \in SUBSET {p}, UpdateProvider(p, dropped)
      PROVE  TopoInv'
  <2>1. PMTypeOK' /\ present' = present
    BY <1>0, <1>3, Manages DEF UpdateProvider
  <2>2. TopoTyped'
    BY <1>3, <2>1 DEF UpdateProvider, TopoInv, TopoTyped
  <2>3. AccountsKept'
    BY <1>3, <2>1 DEF UpdateProvider, TopoInv, AccountsKept, AccountsAgree
  <2>. QED
    BY <1>3, <2>2, <2>3, ApplyUntouched DEF UpdateProvider
<1>. QED
  BY <1>1, <1>2, <1>3

LEMMA ProvidersMove ==
    ASSUME TopoInv, ConnectProviders \/ ProvidersReport \/ \E opened \in BOOLEAN : Reset(opened)
    PROVE  TopoInv'
<1>0. PMTypeOK
  BY DEF TopoInv, TopoTyped
<1>1. CASE ConnectProviders \/ ProvidersReport
  <2>1. PMTypeOK' /\ present' = present /\ InLoop
    BY <1>0, <1>1, Connecting, Reporting DEF ConnectProviders, ProvidersReport, HostCalls
  <2>2. UNCHANGED <<usable, defs, topoVars, phys, applyVars>>
    BY <1>1 DEF ConnectProviders, ProvidersReport
  <2>3. TopoTyped' /\ AccountsKept'
    BY <2>1, <2>2 DEF TopoInv, TopoTyped, AccountsKept, AccountsAgree
  <2>. QED
    BY <2>1, <2>2, <2>3, ApplyUntouched DEF InLoop
<1>2. ASSUME NEW opened \in BOOLEAN, Reset(opened)
      PROVE  TopoInv'
  <2>1. PMTypeOK' /\ present' = present
    BY <1>0, <1>2, Connecting DEF Reset
  <2>2. TopoTyped'
    BY <1>2, <2>1 DEF Reset, TopoInv, TopoTyped
  <2>3. AccountsKept'
    BY <1>2, <2>1 DEF Reset, TopoInv, AccountsKept, AccountsAgree
  <2>. QED
    BY <1>2, <2>2, <2>3, ApplyUntouched DEF Reset
<1>. QED
  BY <1>1, <1>2

(***************************************************************************)
(* The steps of a transaction.                                             *)
(***************************************************************************)
LEMMA Begins ==
    ASSUME TopoInv, NEW d \in Topologies,
           RejectTopology(d) \/ \E s \in SUBSET d.provs : ApplyTopology(d, s)
    PROVE  TopoInv'
<1>0. /\ TopoTyped /\ PMTypeOK /\ d \in Topology /\ d.provs \subseteq Providers
      /\ applyPc = "idle" /\ want' = d /\ d.replace \in BOOLEAN
      /\ UNCHANGED <<usable, defs, topoVars, phys, done, prepared, repair, torn>>
      /\ before' = [phys |-> phys, maps |-> maps, providers |-> defs]
  BY TopologiesAssumption DEF TopoInv, TopoTyped, RejectTopology, ApplyTopology, Topology
<1>1. done = <<>> /\ ~prepared /\ ~repair
  BY <1>0 DEF TopoInv, ApplyPhases
<1>. DEFINE Begun ==
      /\ PMTypeOK' /\ applyPc' \in {"joining", "checking", "restoring"}
      /\ staged' = d.replace
      /\ applyPc' = "restoring" => staged' /\ present' = defs
      /\ applyPc' = "joining" => present' = (present \ (defs \ d.provs)) \union d.provs
      /\ applyPc' = "checking" => ~d.replace /\ present' = present
      /\ applyPc' = "joining" => d.replace
<1>2. Begun
  <2>1. CASE RejectTopology(d)
    <3>1. PMTypeOK' /\ present' = (present \ present) \union defs
      <4>1. present \in SUBSET Providers /\ {} \in SUBSET Providers /\ defs \in SUBSET Providers
        BY <1>0 DEF TopoTyped, PMTypeOK
      <4>2. ReplaceAll(present, {}, defs)
        BY <2>1 DEF RejectTopology
      <4>. QED
        BY <1>0, <4>1, <4>2, Replaces
    <3>. QED
      BY <2>1, <3>1 DEF RejectTopology
  <2>2. ASSUME NEW s \in SUBSET d.provs, ApplyTopology(d, s)
        PROVE  Begun
    <3>1. CASE d.replace
      <4>1. ReplaceAll(defs \ d.provs, s, d.provs) /\ applyPc' = "joining"
        BY <2>2, <3>1 DEF ApplyTopology
      <4>2. /\ defs \ d.provs \in SUBSET Providers /\ s \in SUBSET Providers
            /\ d.provs \in SUBSET Providers
        BY <1>0 DEF TopoTyped
      <4>3. PMTypeOK' /\ present' = (present \ (defs \ d.provs)) \union d.provs
        BY <1>0, <4>1, <4>2, Replaces
      <4>. QED
        BY <2>2, <3>1, <4>1, <4>3 DEF ApplyTopology
    <3>2. CASE ~d.replace
      BY <1>0, <2>2, <3>2 DEF ApplyTopology, PMTypeOK
    <3>. QED
      BY <3>1, <3>2
  <2>. QED
    BY <2>1, <2>2
<1>3. TopoTyped'
  <2>1. before' \in Recalled
    BY <1>0 DEF TopoTyped, Recalled
  <2>2. Len(done') <= Len(want'.muts)
    BY <1>0, <1>1 DEF Topology
  <2>. QED
    BY <1>0, <1>2, <2>1, <2>2 DEF TopoTyped
<1>4. ApplyPhases' /\ BackendsHeld'
  <2>1. done' = <<>> /\ ~prepared' /\ ~repair' /\ want' = d /\ staged' = d.replace
        /\ applyPc' \in {"joining", "checking", "restoring"}
        /\ (applyPc' = "restoring" => staged')
    BY <1>0, <1>1, <1>2
  <2>2. BackendsHeld'
    BY <2>1 DEF BackendsHeld
  <2>3. \A i \in 1..Len(done') : done'[i] = want'.muts[i]
    BY <2>1
  <2>4. ApplyPhases'
    BY <2>1, <2>3 DEF ApplyPhases
  <2>. QED
    BY <2>2, <2>4
<1>5. AccountsKept'
  BY <1>0, <1>2 DEF TopoInv, TopoTyped, AccountsKept, AccountsAgree
<1>6. Reversible'
  BY <1>0, <1>1 DEF Reversible, UndoableAt
<1>. QED
  BY <1>3, <1>4, <1>5, <1>6 DEF TopoInv

(* Leaving with an error.                                                  *)
LEMMA Leaves ==
    ASSUME TopoInv, applyPc \in {"joining", "checking", "undoing"}, done = <<>>, Leave,
           UNCHANGED <<defs, snapIds, phys, staged, done>>, UNCHANGED <<usable, eps, maps>>,
           prepared' = FALSE
    PROVE  TopoInv'
<1>0. /\ TopoTyped /\ PMTypeOK /\ want' \in {want, NoTopology}
      /\ before' \in {before, NothingBefore} /\ torn' \in {torn, {}}
  BY DEF TopoInv, TopoTyped, Leave, EndApply
<1>1. CASE staged
  <2>1. /\ ReplaceAll(present, {}, before.providers) /\ applyPc' = "restoring"
        /\ UNCHANGED <<want, repair, before, torn>>
    BY <1>1 DEF Leave
  <2>2. /\ present \in SUBSET Providers /\ {} \in SUBSET Providers
        /\ before.providers \in SUBSET Providers
    BY <1>0 DEF TopoTyped, PMTypeOK, Recalled
  <2>3. PMTypeOK' /\ present' = before.providers
    <3>1. PMTypeOK' /\ present' = (present \ present) \union before.providers
      BY <1>0, <2>1, <2>2, Replaces
    <3>. QED
      BY <3>1
  <2>4. TopoTyped'
    <3>1. prepared' \in BOOLEAN /\ staged' \in BOOLEAN
      BY <1>0 DEF TopoTyped
    <3>. QED
      BY <1>0, <2>1, <2>3, <3>1 DEF TopoTyped
  <2>5. ApplyPhases' /\ BackendsHeld'
    BY <1>1, <2>1 DEF TopoInv, ApplyPhases, BackendsHeld
  <2>6. AccountsKept'
    BY <2>1, <2>3 DEF TopoInv, AccountsKept, AccountsAgree
  <2>7. Reversible'
    BY <2>1 DEF TopoInv, Reversible, UndoableAt, Lasting
  <2>. QED
    BY <2>4, <2>5, <2>6, <2>7 DEF TopoInv
<1>2. CASE ~staged
  <2>1. /\ applyPc' = "idle" /\ want' = NoTopology /\ held' = {} /\ repair' = FALSE
        /\ before' = NothingBefore /\ torn' = {}
        /\ UNCHANGED <<present, pstate, dialing, orphans, owned, bound>>
    BY <1>2 DEF Leave, EndApply
  <2>2. NoTopology \in Topology /\ NothingBefore \in Recalled
    BY DEF NoTopology, NothingBefore, Topology, Recalled
  <2>3. TopoTyped'
    <3>1. PMTypeOK'
      BY <1>0, <2>1 DEF PMTypeOK
    <3>2. Len(done') <= Len(want'.muts)
      BY <2>1 DEF NoTopology
    <3>. QED
      BY <1>0, <2>1, <2>2, <3>1, <3>2 DEF TopoTyped
  <2>4. ApplyPhases' /\ BackendsHeld'
    BY <1>2, <2>1 DEF ApplyPhases, BackendsHeld
  <2>5. AccountsKept'
    BY <1>2, <2>1 DEF TopoInv, AccountsKept, AccountsAgree
  <2>6. Reversible'
    BY <2>1 DEF Reversible
  <2>. QED
    BY <2>3, <2>4, <2>5, <2>6 DEF TopoInv
<1>. QED
  BY <1>0, <1>1, <1>2 DEF TopoTyped

LEMMA Waits == ASSUME TopoInv, Joined \/ Restored PROVE TopoInv'
<1>1. CASE Joined
  <2>1. applyPc = "joining" /\ done = <<>> /\ ~prepared
    BY <1>1 DEF Joined, TopoInv, ApplyPhases
  <2>2. CASE \A p \in want.provs : pstate[p] = "Connected"
    <3>1. /\ applyPc' = "checking"
          /\ UNCHANGED <<pmVars, want, repair, before, torn, usable, eps, maps, defs, snapIds, phys,
                         staged, done, prepared>>
      BY <1>1, <2>2 DEF Joined, ApplyFrame
    <3>2. TopoTyped'
      BY <3>1 DEF TopoInv, TopoTyped, PMTypeOK
    <3>3. ApplyPhases' /\ BackendsHeld'
      BY <2>1, <3>1 DEF TopoInv, ApplyPhases, BackendsHeld
    <3>4. AccountsKept'
      BY <2>1, <3>1 DEF TopoInv, AccountsKept, AccountsAgree
    <3>5. Reversible'
      BY <2>1, <3>1 DEF TopoInv, Reversible, UndoableAt, Lasting
    <3>. QED
      BY <3>2, <3>3, <3>4, <3>5 DEF TopoInv
  <2>3. CASE ~(\A p \in want.provs : pstate[p] = "Connected")
    <3>1. Leave /\ UNCHANGED <<defs, snapIds, phys, staged, done>> /\ UNCHANGED <<usable, eps, maps>>
          /\ UNCHANGED prepared
      BY <1>1, <2>3 DEF Joined, ApplyFrame
    <3>2. prepared' = FALSE
      BY <2>1, <3>1 DEF TopoInv, TopoTyped
    <3>. QED
      BY <2>1, <3>1, <3>2, Leaves
  <2>. QED
    BY <2>2, <2>3
<1>2. CASE Restored
  <2>1. /\ applyPc \in {"restoring", "restoring then undo"}
        /\ defs' = before.providers /\ snapIds' = before.providers /\ staged' = FALSE
        /\ UNCHANGED <<usable, eps, maps>>
        /\ UNCHANGED <<present, pstate, dialing, orphans, owned, bound, phys, done, prepared>>
    BY <1>2 DEF Restored, ApplyFrame
  <2>2. TopoTyped /\ PMTypeOK /\ before.providers \subseteq Providers /\ ~prepared
    BY <2>1 DEF TopoInv, TopoTyped, Recalled, ApplyPhases
  <2>3. CASE applyPc = "restoring"
    <3>1. /\ applyPc' = "idle" /\ want' = NoTopology /\ held' = {} /\ repair' = FALSE
          /\ before' = NothingBefore /\ torn' = {}
      BY <1>2, <2>3 DEF Restored, EndApply
    <3>2. done = <<>>
      BY <2>3 DEF TopoInv, ApplyPhases
    <3>3. NoTopology \in Topology /\ NothingBefore \in Recalled
      BY DEF NoTopology, NothingBefore, Topology, Recalled
    <3>4. PMTypeOK'
      BY <2>1, <2>2, <3>1 DEF PMTypeOK
    <3>5. Len(done') <= Len(want'.muts)
      <4>1. done' = <<>> /\ want'.muts = <<>>
        BY <2>1, <3>1, <3>2 DEF NoTopology
      <4>. QED
        BY <4>1
    <3>6. TopoTyped'
      BY <2>1, <2>2, <3>1, <3>3, <3>4, <3>5 DEF TopoTyped
    <3>7. ApplyPhases' /\ BackendsHeld'
      <4>1. done' = <<>> /\ ~prepared' /\ ~repair' /\ staged' = FALSE /\ applyPc' = "idle"
        BY <2>1, <2>2, <3>1, <3>2
      <4>2. \A i \in 1..Len(done') : done'[i] = want'.muts[i]
        BY <4>1
      <4>. QED
        BY <4>1, <4>2 DEF ApplyPhases, BackendsHeld
    <3>8. AccountsKept'
      BY <2>1, <2>3, <3>1 DEF TopoInv, AccountsKept, AccountsAgree
    <3>9. Reversible'
      BY <3>1 DEF Reversible
    <3>. QED
      BY <3>6, <3>7, <3>8, <3>9 DEF TopoInv
  <2>4. CASE applyPc = "restoring then undo"
    <3>1. applyPc' = "undoing" /\ UNCHANGED <<want, held, repair, before, torn>>
      BY <1>2, <2>4 DEF Restored
    <3>2. PMTypeOK'
      BY <2>1, <2>2, <3>1 DEF PMTypeOK
    <3>3. TopoTyped'
      BY <2>1, <2>2, <3>1, <3>2 DEF TopoTyped
    <3>4. ApplyPhases' /\ BackendsHeld'
      BY <2>1, <2>2, <2>4, <3>1 DEF TopoInv, ApplyPhases, BackendsHeld
    <3>5. AccountsKept'
      BY <2>1, <2>4, <3>1 DEF TopoInv, AccountsKept, AccountsAgree
    <3>6. Reversible'
      <4>1. UNCHANGED <<phys, done, before, torn, repair>> /\ Reversible
        BY <2>1, <3>1 DEF TopoInv
      <4>2. Lasting' <=> Lasting
        BY <4>1 DEF Lasting
      <4>3. \A e \in Endpoints, n \in Names : UndoableAt(e, n)' <=> UndoableAt(e, n)
        BY <4>1 DEF UndoableAt
      <4>4. applyPc # "idle"
        BY <2>4
      <4>. QED
        BY <4>1, <4>2, <4>3, <4>4 DEF Reversible
    <3>. QED
      BY <3>3, <3>4, <3>5, <3>6 DEF TopoInv
  <2>. QED
    BY <2>1, <2>3, <2>4
<1>. QED
  BY <1>1, <1>2

LEMMA Checks == ASSUME TopoInv, ApplyRefused \/ ApplyPrepared PROVE TopoInv'
<1>1. CASE ApplyRefused
  <2>1. applyPc = "checking" /\ done = <<>> /\ ~prepared
    BY <1>1 DEF ApplyRefused, TopoInv, ApplyPhases
  <2>2. Leave /\ UNCHANGED <<defs, snapIds, phys, staged, done>> /\ UNCHANGED <<usable, eps, maps>>
        /\ UNCHANGED prepared
    BY <1>1 DEF ApplyRefused, ApplyFrame
  <2>3. prepared' = FALSE
    BY <2>1, <2>2 DEF TopoInv, TopoTyped
  <2>. QED
    BY <2>1, <2>2, <2>3, Leaves
<1>2. CASE ApplyPrepared
  <2>1. /\ applyPc = "checking" /\ Valid /\ applyPc' = "mutating" /\ prepared' = TRUE
        /\ held' = want.eps
        /\ UNCHANGED <<present, pstate, dialing, orphans, owned, bound, defs, snapIds, phys,
                       want, staged, done, repair, before, torn, usable, eps, maps>>
    BY <1>2 DEF ApplyPrepared, ApplyFrame
  <2>2. want.eps \subseteq owned
    BY <2>1 DEF Valid
  <2>3. TopoTyped'
    BY <2>1, <2>2 DEF TopoInv, TopoTyped, PMTypeOK
  <2>4. ApplyPhases'
    BY <2>1 DEF TopoInv, ApplyPhases
  <2>5. BackendsHeld'
    BY <2>1, <2>2 DEF Valid, BackendsHeld
  <2>6. AccountsKept'
    BY <2>1 DEF TopoInv, AccountsKept, AccountsAgree
  <2>7. Reversible'
    BY <2>1 DEF TopoInv, Reversible, UndoableAt, Lasting
  <2>. QED
    BY <2>3, <2>4, <2>5, <2>6, <2>7 DEF TopoInv
<1>. QED
  BY <1>1, <1>2

(* A change of a collection, and what undoes it.                           *)
LEMMA Changes ==
    ASSUME NEW ph \in [Endpoints -> SUBSET Names], NEW mu \in Mutation,
           NEW e \in Endpoints, NEW n \in Names
    PROVE  /\ <<e, n>> \notin Touched(mu)
                 => (n \in [ph EXCEPT ![mu.at] = Does(mu, @)][e] <=> n \in ph[e])
           /\ ~NeedsRepair(mu) /\ ~Touches(mu, e, n)
                 => (n \in [ph EXCEPT ![mu.at] = Does(mu, @)][e] <=> n \in ph[e])
           /\ ~Touches(mu, e, n)
                 => (n \in [ph EXCEPT ![mu.at] = Undoes(mu, @)][e] <=> n \in ph[e])
           /\ Touches(mu, e, n)
                 => /\ <<e, n>> \in Touched(mu)
                    /\ n \in [ph EXCEPT ![mu.at] = Undoes(mu, @)][e]
                          <=> mu.kind = "Rename" /\ mu.name = n
<1>1. mu.at \in Endpoints /\ mu.name \in Names
      /\ mu.kind \in {"Create", "Adopt", "Rename", "Untrack", "Update", "Destroy"}
  BY DEF Mutation
<1>2. ASSUME NEW s PROVE
         [ph EXCEPT ![mu.at] = s][e] = IF e = mu.at THEN s ELSE ph[e]
  BY <1>1
<1>3. ASSUME ~NeedsRepair(mu), ~Touches(mu, e, n)
      PROVE  n \in [ph EXCEPT ![mu.at] = Does(mu, @)][e] <=> n \in ph[e]
  BY <1>1, <1>3 DEF NeedsRepair, Touches, Does
<1>4. ASSUME ~Touches(mu, e, n)
      PROVE  n \in [ph EXCEPT ![mu.at] = Undoes(mu, @)][e] <=> n \in ph[e]
  BY <1>1, <1>4 DEF Touches, Undoes
<1>5. ASSUME Touches(mu, e, n)
      PROVE  /\ <<e, n>> \in Touched(mu)
             /\ n \in [ph EXCEPT ![mu.at] = Undoes(mu, @)][e] <=> mu.kind = "Rename" /\ mu.name = n
  BY <1>1, <1>5 DEF Touches, Undoes, Touched
<1>6. ASSUME <<e, n>> \notin Touched(mu)
      PROVE  n \in [ph EXCEPT ![mu.at] = Does(mu, @)][e] <=> n \in ph[e]
  <2>1. e = mu.at => /\ mu.kind = "Rename" => n # mu.name /\ n # "renamed"
                     /\ mu.kind = "Update" => n # "meta"
                     /\ mu.kind \notin {"Rename", "Update"} => n # mu.name
    BY <1>1, <1>6 DEF Touched
  <2>. QED
    BY <1>1, <2>1 DEF Does
<1>. QED
  BY <1>3, <1>4, <1>5, <1>6

LEMMA Mutates == ASSUME TopoInv, ApplyMutation PROVE TopoInv'
<1>. DEFINE k == Len(done) + 1
            mu == want.muts[k]
<1>1. /\ applyPc = "mutating" /\ Len(done) < Len(want.muts)
      /\ UNCHANGED <<pmVars, defs, snapIds, want, staged, prepared, before, usable, eps, maps>>
  BY DEF ApplyMutation, ApplyFrame
<1>2. /\ TopoTyped /\ PMTypeOK /\ done \in Seq(Mutation) /\ want.muts \in Seq(Mutation)
      /\ Len(done) \in Nat /\ k \in 1..Len(want.muts) /\ mu \in Mutation /\ mu.at \in Endpoints
      /\ phys \in [Endpoints -> SUBSET Names]
  <2>1. /\ TopoTyped /\ PMTypeOK /\ done \in Seq(Mutation) /\ want \in Topology
        /\ phys \in [Endpoints -> SUBSET Names]
    BY DEF TopoInv, TopoTyped
  <2>2. want.muts \in Seq(Mutation)
    BY <2>1 DEF Topology
  <2>3. Len(done) \in Nat /\ k \in 1..Len(want.muts) /\ mu \in Mutation
    BY <1>1, <2>1, <2>2
  <2>. HIDE DEF k, mu
  <2>4. mu.at \in Endpoints
    BY <2>3 DEF Mutation
  <2>. QED
    BY <2>1, <2>2, <2>3, <2>4
<1>3. [phys EXCEPT ![mu.at] = Does(mu, @)] \in [Endpoints -> SUBSET Names]
      /\ Touched(mu) \subseteq Endpoints \X Names /\ Recreated(mu) \subseteq Touched(mu)
  <2>. HIDE DEF k, mu
  <2>1. mu.name \in Names /\ "renamed" \in Names /\ "meta" \in Names
    BY <1>2 DEF Mutation, Names
  <2>2. Does(mu, phys[mu.at]) \subseteq Names
    BY <1>2, <2>1 DEF Does
  <2>3. Touched(mu) \subseteq Endpoints \X Names /\ Recreated(mu) \subseteq Touched(mu)
    BY <1>2, <2>1 DEF Touched, Recreated
  <2>. QED
    BY <1>2, <2>2, <2>3
<1>4. CASE /\ Possible(mu) /\ Done(mu)
           /\ done' = Append(done, mu)
           /\ torn' = torn \union Recreated(mu)
           /\ UNCHANGED <<applyPc, repair>>
  <2>1. /\ done' \in Seq(Mutation) /\ Len(done') = k
        /\ \A i \in 1..Len(done) : done'[i] = done[i]
        /\ done'[k] = mu
    BY <1>2, <1>4
  <2>2. phys' = [phys EXCEPT ![mu.at] = Does(mu, @)] /\ phys' \in [Endpoints -> SUBSET Names]
        /\ torn' \subseteq Endpoints \X Names
    BY <1>2, <1>3, <1>4 DEF Done, TopoTyped
  <2>3. TopoTyped'
    BY <1>1, <1>2, <1>4, <2>1, <2>2 DEF TopoTyped, PMTypeOK
  <2>4. \A i \in 1..Len(done') : done'[i] = want'.muts[i]
    BY <1>1, <1>2, <2>1 DEF TopoInv, ApplyPhases
  <2>5. ApplyPhases'
    BY <1>1, <1>4, <2>4 DEF TopoInv, ApplyPhases
  <2>6. BackendsHeld'
    BY <1>1, <1>4 DEF TopoInv, BackendsHeld
  <2>7. AccountsKept'
    BY <1>1, <1>4 DEF TopoInv, AccountsKept, AccountsAgree
  <2>8. ASSUME ~repair, ~Lasting', NEW e \in Endpoints, NEW n \in Names, <<e, n>> \notin torn'
        PROVE  UndoableAt(e, n)'
    <3>1. ~Lasting /\ ~NeedsRepair(mu)
      BY <1>2, <2>1, <2>8 DEF Lasting
    <3>2. UndoableAt(e, n)
      BY <1>1, <1>4, <2>8, <3>1 DEF TopoInv, Reversible
    <3>3. Touches(mu, e, n) /\ mu.kind = "Create" => n \notin phys[e]
      <4>1. <<e, n>> \notin Recreated(mu)
        BY <1>4, <2>8
      <4>2. Touches(mu, e, n) => <<e, n>> \in Touched(mu)
        BY <1>2, Changes
      <4>. QED
        BY <4>1, <4>2 DEF Recreated, Touches
    <3>. SUFFICES
           /\ (\A i \in 1..Len(done') : ~Touches(done'[i], e, n))
                 => (n \in phys'[e] <=> n \in before.phys[e])
           /\ \A i \in 1..Len(done') :
                 Touches(done'[i], e, n) /\ (\A j \in 1..(i - 1) : ~Touches(done'[j], e, n))
                 => (n \in before.phys[e] <=> done'[i].kind = "Rename" /\ done'[i].name = n)
      BY <1>1 DEF UndoableAt
    <3>4. ASSUME \A i \in 1..Len(done') : ~Touches(done'[i], e, n)
          PROVE  n \in phys'[e] <=> n \in before.phys[e]
      <4>1. ~Touches(mu, e, n) /\ \A i \in 1..Len(done) : ~Touches(done[i], e, n)
        BY <1>2, <2>1, <3>4
      <4>. QED
        BY <1>2, <2>2, <3>1, <3>2, <4>1, Changes DEF UndoableAt
    <3>5. ASSUME NEW i \in 1..Len(done'), Touches(done'[i], e, n),
                 \A j \in 1..(i - 1) : ~Touches(done'[j], e, n)
          PROVE  n \in before.phys[e] <=> done'[i].kind = "Rename" /\ done'[i].name = n
      <4>1. CASE i <= Len(done)
        <5>1. i \in 1..Len(done) /\ \A j \in 1..(i - 1) : j \in 1..Len(done)
          BY <1>2, <4>1
        <5>. QED
          BY <2>1, <3>2, <3>5, <5>1 DEF UndoableAt
      <4>2. CASE i = k
        <5>1. Touches(mu, e, n) /\ \A j \in 1..Len(done) : ~Touches(done[j], e, n)
          BY <1>2, <2>1, <3>5, <4>2
        <5>2. n \in phys[e] <=> n \in before.phys[e]
          BY <3>2, <5>1 DEF UndoableAt
        <5>3. /\ e = mu.at
              /\ \/ mu.kind = "Create" /\ mu.name = n
                 \/ mu.kind = "Rename" /\ n \in {mu.name, "renamed"}
          BY <5>1 DEF Touches
        <5>4. CASE mu.kind = "Create"
          BY <2>1, <3>3, <4>2, <5>1, <5>2, <5>4
        <5>5. CASE mu.kind = "Rename"
          <6>1. mu.name \in phys[mu.at] /\ "renamed" \notin phys[mu.at]
            BY <1>4, <5>5 DEF Possible, NeedsIt
          <6>. QED
            BY <2>1, <4>2, <5>2, <5>3, <5>5, <6>1
        <5>. QED
          BY <5>3, <5>4, <5>5
      <4>. QED
        BY <1>2, <2>1, <4>1, <4>2
    <3>. QED
      BY <3>4, <3>5
  <2>9. Reversible'
    BY <1>1, <1>4, <2>8 DEF TopoInv, Reversible
  <2>. QED
    BY <2>3, <2>5, <2>6, <2>7, <2>9 DEF TopoInv
<1>5. CASE /\ applyPc' = "undoing" /\ repair' = (mu.kind = "Destroy") /\ UNCHANGED done
           /\ \/ UNCHANGED <<phys, torn>>
              \/ Possible(mu) /\ Done(mu) /\ torn' = torn \union Touched(mu)
  <2>1. repair' \in BOOLEAN /\ torn \subseteq torn' /\ torn' \subseteq Endpoints \X Names
        /\ phys' \in [Endpoints -> SUBSET Names]
    BY <1>2, <1>3, <1>5 DEF Done, TopoTyped
  <2>2. TopoTyped'
    BY <1>1, <1>2, <1>5, <2>1 DEF TopoTyped, PMTypeOK
  <2>3. ApplyPhases'
    BY <1>1, <1>5 DEF TopoInv, ApplyPhases
  <2>4. BackendsHeld'
    <3>1. \A i \in 1..Len(done) : done[i].at \in held \union {Hub}
      BY <1>1, <1>2 DEF TopoInv, BackendsHeld, ApplyPhases
    <3>. QED
      BY <1>1, <1>5, <3>1 DEF BackendsHeld
  <2>5. AccountsKept'
    BY <1>1, <1>5 DEF TopoInv, AccountsKept, AccountsAgree
  <2>6. ASSUME ~repair', ~Lasting', NEW e \in Endpoints, NEW n \in Names, <<e, n>> \notin torn'
        PROVE  UndoableAt(e, n)'
    <3>1. ~repair /\ ~Lasting
      BY <1>1, <1>5, <2>6 DEF TopoInv, ApplyPhases, Lasting
    <3>2. UndoableAt(e, n)
      BY <1>1, <2>1, <2>6, <3>1 DEF TopoInv, Reversible
    <3>3. n \in phys'[e] <=> n \in phys[e]
      <4>1. CASE UNCHANGED <<phys, torn>>
        BY <4>1
      <4>2. CASE Possible(mu) /\ Done(mu) /\ torn' = torn \union Touched(mu)
        BY <1>2, <2>6, <4>2, Changes DEF Done
      <4>. QED
        BY <1>5, <4>1, <4>2
    <3>. QED
      BY <1>1, <1>5, <3>2, <3>3 DEF UndoableAt
  <2>7. Reversible'
    BY <1>1, <2>6 DEF Reversible
  <2>. QED
    BY <2>2, <2>3, <2>4, <2>5, <2>7 DEF TopoInv
<1>. QED
  BY <1>4, <1>5 DEF ApplyMutation

(* A sequence without its last element: one shorter, the others in place.  *)
LEMMA WithoutLast ==
    ASSUME NEW S, NEW q \in Seq(S), q # <<>>, NEW r, r = SubSeq(q, 1, Len(q) - 1)
    PROVE  /\ r \in Seq(S) /\ Len(r) = Len(q) - 1
           /\ \A i \in 1..(Len(q) - 1) : r[i] = q[i]
<1>1. Len(q) \in Nat \ {0}
  OBVIOUS
<1>2. r \in Seq(S)
  BY <1>1
<1>3. Len(r) = Len(q) - 1
  <2>1. \A i \in 1..(Len(q) - 1) : q[i] \in S
    BY <1>1
  <2>. DEFINE n == Len(q) - 1
  <2>2. n \in Int /\ n \in Nat /\ 1 \in Int
    BY <1>1
  <2>. HIDE DEF n
  <2>3. Len(SubSeq(q, 1, n)) = IF 1 <= n THEN n - 1 + 1 ELSE 0
    BY <2>1, <2>2, SubSeqProperties DEF n
  <2>4. Len(SubSeq(q, 1, n)) = n
    BY <2>2, <2>3
  <2>. QED
    BY <2>4 DEF n
<1>4. ASSUME NEW i \in 1..(Len(q) - 1) PROVE r[i] = q[i]
  BY <1>1
<1>. QED
  BY <1>2, <1>3, <1>4

LEMMA Compensates == ASSUME TopoInv, Compensate PROVE TopoInv'
<1>. DEFINE k == Len(done)
            mu == done[k]
<1>1. /\ applyPc = "undoing" /\ done # <<>>
      /\ done' = SubSeq(done, 1, Len(done) - 1)
      /\ UNCHANGED <<pmVars, defs, snapIds, applyPc, want, staged, prepared, before, usable, eps, maps>>
  BY DEF Compensate, ApplyFrame
<1>2. /\ TopoTyped /\ PMTypeOK /\ done \in Seq(Mutation) /\ k \in 1..Len(done) /\ mu \in Mutation
      /\ mu.at \in Endpoints /\ phys \in [Endpoints -> SUBSET Names] /\ Len(done) <= Len(want.muts)
      /\ Len(want.muts) \in Nat
  <2>1. /\ TopoTyped /\ PMTypeOK /\ done \in Seq(Mutation) /\ want \in Topology
        /\ phys \in [Endpoints -> SUBSET Names] /\ Len(done) <= Len(want.muts)
    BY DEF TopoInv, TopoTyped
  <2>2. want.muts \in Seq(Mutation)
    BY <2>1 DEF Topology
  <2>3. k \in 1..Len(done) /\ mu \in Mutation
    BY <1>1, <2>1
  <2>. HIDE DEF k, mu
  <2>4. mu.at \in Endpoints
    BY <2>3 DEF Mutation
  <2>. QED
    BY <2>1, <2>2, <2>3, <2>4
<1>3. /\ done' \in Seq(Mutation) /\ Len(done') = k - 1
      /\ \A i \in 1..Len(done') : done'[i] = done[i] /\ i \in 1..Len(done)
  <2>1. k \in Nat \ {0} /\ k - 1 \in 0..k
    BY <1>2 DEF k
  <2>2. Len(done') = k - 1 /\ \A i \in 1..(k - 1) : done'[i] = done[i]
    BY <1>1, <1>2, WithoutLast DEF k
  <2>3. \A i \in 1..(k - 1) : i \in 1..Len(done)
    BY <2>1 DEF k
  <2>4. done' \in Seq(Mutation)
    BY <1>1, <1>2, <2>1 DEF k
  <2>. QED
    BY <2>2, <2>3, <2>4
<1>4. mu = want.muts[k] /\ \A i \in 1..Len(done') : done'[i] = want'.muts[i]
  BY <1>1, <1>2, <1>3 DEF TopoInv, ApplyPhases
<1>5. \/ /\ mu.kind \in {"Create", "Rename"} /\ phys' = [phys EXCEPT ![mu.at] = Undoes(mu, @)]
         /\ UNCHANGED <<repair, torn>>
      \/ repair' = TRUE /\ UNCHANGED <<phys, torn>>
      \/ /\ torn' = torn \union Touched(mu) /\ UNCHANGED <<phys, repair>>
         /\ mu.kind \in {"Create", "Rename"}
      \/ /\ mu.kind \notin {"Create", "Rename"} /\ repair' = (repair \/ NeedsRepair(mu))
         /\ UNCHANGED <<phys, torn>>
  BY DEF Compensate
<1>. HIDE DEF k, mu
<1>6. /\ repair' \in BOOLEAN /\ phys' \in [Endpoints -> SUBSET Names]
      /\ torn \subseteq torn' /\ torn' \subseteq Endpoints \X Names
  <2>1. repair \in BOOLEAN /\ torn \subseteq Endpoints \X Names
    BY <1>2 DEF TopoTyped
  <2>2. Undoes(mu, phys[mu.at]) \subseteq Names
    BY <1>2 DEF Undoes, Mutation, Names
  <2>3. Touched(mu) \subseteq Endpoints \X Names
    BY <1>2 DEF Touched, Mutation, Names
  <2>. QED
    BY <1>2, <1>5, <2>1, <2>2, <2>3
<1>7. TopoTyped'
  BY <1>1, <1>2, <1>3, <1>6 DEF TopoTyped, PMTypeOK
<1>8. ApplyPhases'
  BY <1>1, <1>4 DEF TopoInv, ApplyPhases
<1>9. BackendsHeld'
  BY <1>1, <1>3 DEF TopoInv, BackendsHeld
<1>10. AccountsKept'
  BY <1>1 DEF TopoInv, AccountsKept, AccountsAgree
<1>11. ASSUME ~repair', ~Lasting', NEW e \in Endpoints, NEW n \in Names, <<e, n>> \notin torn'
       PROVE  UndoableAt(e, n)'
  <2>1. ~repair /\ ~NeedsRepair(mu)
    BY <1>2, <1>5, <1>11 DEF NeedsRepair, TopoTyped
  <2>2. ~Lasting
    <3>1. ASSUME NEW i \in 1..Len(done) PROVE ~NeedsRepair(done[i])
      <4>1. i = k \/ i \in 1..Len(done')
        BY <1>2, <1>3 DEF k
      <4>. QED
        BY <1>3, <1>11, <2>1, <4>1 DEF Lasting, mu
    <3>. QED
      BY <3>1 DEF Lasting
  <2>3. UndoableAt(e, n)
    BY <1>1, <1>6, <1>11, <2>1, <2>2 DEF TopoInv, Reversible
  <2>4. /\ ~Touches(mu, e, n) => (n \in phys'[e] <=> n \in phys[e])
        /\ Touches(mu, e, n) => (n \in phys'[e] <=> mu.kind = "Rename" /\ mu.name = n)
    <3>1. CASE phys' = [phys EXCEPT ![mu.at] = Undoes(mu, @)]
      BY <1>2, <3>1, Changes
    <3>2. CASE torn' = torn \union Touched(mu) /\ UNCHANGED phys
      <4>1. ~Touches(mu, e, n)
        BY <1>2, <1>11, <3>2, Changes
      <4>. QED
        BY <3>2, <4>1
    <3>3. CASE mu.kind \notin {"Create", "Rename"} /\ UNCHANGED phys
      BY <3>3 DEF Touches
    <3>. QED
      BY <1>5, <1>11, <3>1, <3>2, <3>3
  <2>. SUFFICES
         /\ (\A i \in 1..Len(done') : ~Touches(done'[i], e, n))
               => (n \in phys'[e] <=> n \in before.phys[e])
         /\ \A i \in 1..Len(done') :
               Touches(done'[i], e, n) /\ (\A j \in 1..(i - 1) : ~Touches(done'[j], e, n))
               => (n \in before.phys[e] <=> done'[i].kind = "Rename" /\ done'[i].name = n)
    BY <1>1 DEF UndoableAt
  <2>6. ASSUME \A i \in 1..Len(done') : ~Touches(done'[i], e, n)
        PROVE  n \in phys'[e] <=> n \in before.phys[e]
    <3>1. \A i \in 1..(k - 1) : ~Touches(done[i], e, n)
      BY <1>3, <2>6
    <3>2. CASE Touches(mu, e, n)
      <4>1. n \in before.phys[e] <=> mu.kind = "Rename" /\ mu.name = n
        BY <1>2, <2>3, <3>1, <3>2 DEF UndoableAt, mu
      <4>. QED
        BY <2>4, <3>2, <4>1
    <3>3. CASE ~Touches(mu, e, n)
      <4>1. \A i \in 1..Len(done) : ~Touches(done[i], e, n)
        <5>1. \A i \in 1..Len(done) : i = k \/ i \in 1..(k - 1)
          BY <1>2 DEF k
        <5>. QED
          BY <3>1, <3>3, <5>1 DEF mu
      <4>2. n \in phys[e] <=> n \in before.phys[e]
        BY <2>3, <4>1 DEF UndoableAt
      <4>. QED
        BY <2>4, <3>3, <4>2
    <3>. QED
      BY <3>2, <3>3
  <2>7. ASSUME NEW i \in 1..Len(done'), Touches(done'[i], e, n),
               \A j \in 1..(i - 1) : ~Touches(done'[j], e, n)
        PROVE  n \in before.phys[e] <=> done'[i].kind = "Rename" /\ done'[i].name = n
    <3>1. i \in 1..Len(done) /\ done'[i] = done[i]
      BY <1>3
    <3>2. \A j \in 1..(i - 1) : j \in 1..Len(done')
      BY <1>2, <1>3
    <3>3. \A j \in 1..(i - 1) : ~Touches(done[j], e, n)
      BY <1>3, <2>7, <3>2
    <3>. QED
      BY <2>3, <2>7, <3>1, <3>3 DEF UndoableAt
  <2>. QED
    BY <2>6, <2>7
<1>12. Reversible'
  BY <1>1, <1>11 DEF Reversible
<1>. QED
  BY <1>7, <1>8, <1>9, <1>10, <1>12 DEF TopoInv

LEMMA Compensations == ASSUME TopoInv, Compensated PROVE TopoInv'
BY Leaves DEF Compensated, ApplyFrame

LEMMA Commits == ASSUME TopoInv, ApplyCommitted PROVE TopoInv'
<1>1. /\ applyPc = "mutating" /\ applyPc' = "idle" /\ want' = NoTopology /\ held' = {}
      /\ repair' = FALSE /\ before' = NothingBefore /\ torn' = {}
      /\ prepared' = FALSE /\ staged' = FALSE /\ done' = <<>>
      /\ eps' = want.eps /\ maps' = want.eps
      /\ bound' = bound \union {p \in want.eps : ResourceOf[p] # NoResource}
      /\ IF want.replace THEN defs' = want.provs /\ snapIds' = want.provs
                         ELSE UNCHANGED <<defs, snapIds>>
      /\ UNCHANGED <<present, pstate, dialing, orphans, owned, usable, phys>>
  BY DEF ApplyCommitted, EndApply
<1>2. TopoTyped /\ PMTypeOK /\ want \in Topology /\ want.eps \subseteq owned
  BY <1>1 DEF TopoInv, TopoTyped, BackendsHeld
<1>3. /\ want.provs \subseteq Providers /\ want.eps \subseteq Providers
      /\ want.eps \subseteq present /\ want.replace \in BOOLEAN
  BY <1>2 DEF Topology, PMTypeOK
<1>4. NoTopology \in Topology /\ NothingBefore \in Recalled /\ NoTopology.muts = <<>>
      /\ NoTopology.replace = FALSE
  BY DEF NoTopology, NothingBefore, Topology, Recalled
<1>5. PMTypeOK'
  BY <1>1, <1>2 DEF PMTypeOK
<1>6. /\ defs' \subseteq Providers /\ snapIds' \subseteq Providers
      /\ Len(done') <= Len(want'.muts)
  BY <1>1, <1>2, <1>3, <1>4 DEF TopoTyped
<1>7. TopoTyped'
  <2>1. /\ eps' \subseteq Providers /\ maps' \subseteq eps'
        /\ want' \in Topology /\ want' \in Topologies \union {NoTopology} /\ before' \in Recalled
        /\ torn' \subseteq Endpoints \X Names
        /\ staged' \in BOOLEAN /\ prepared' \in BOOLEAN /\ repair' \in BOOLEAN
    BY <1>1, <1>3, <1>4
  <2>3. done' \in Seq(Mutation)
    BY <1>1
  <2>2. UNCHANGED <<usable, phys>> /\ applyPc' = "idle"
    BY <1>1
  <2>. QED
    BY <1>2, <1>5, <1>6, <2>1, <2>2, <2>3 DEF TopoTyped
<1>8. \A i \in 1..Len(done') : done'[i] = want'.muts[i]
  BY <1>1
<1>9. ApplyPhases' /\ BackendsHeld'
  BY <1>1, <1>8 DEF ApplyPhases, BackendsHeld
<1>10. AccountsKept'
  BY <1>1, <1>3 DEF TopoInv, ApplyPhases, AccountsKept, AccountsAgree
<1>11. Reversible'
  BY <1>1 DEF Reversible
<1>. QED
  BY <1>7, <1>9, <1>10, <1>11 DEF TopoInv

LEMMA Refusals == ASSUME TopoInv, CommitRefused PROVE TopoInv'
<1>1. /\ applyPc = "mutating" /\ prepared' = FALSE
      /\ UNCHANGED <<usable, eps, maps, defs, snapIds, phys, want, staged, done, repair,
                     before, torn>>
  BY DEF CommitRefused, ApplyFrame
<1>2. TopoTyped /\ PMTypeOK /\ ~repair
  BY <1>1 DEF TopoInv, TopoTyped, ApplyPhases
<1>3. CASE staged
  <2>1. ReplaceAll(present, {}, before.providers) /\ applyPc' = "restoring then undo"
    BY <1>3 DEF CommitRefused
  <2>2. /\ present \in SUBSET Providers /\ {} \in SUBSET Providers
        /\ before.providers \in SUBSET Providers
    BY <1>2 DEF TopoTyped, PMTypeOK, Recalled
  <2>3. PMTypeOK' /\ present' = (present \ present) \union before.providers
    BY <1>2, <2>1, <2>2, Replaces
  <2>4. PMTypeOK' /\ present' = before.providers
    BY <2>3
  <2>5. TopoTyped'
    BY <1>1, <1>2, <2>1, <2>4 DEF TopoTyped
  <2>6. ApplyPhases' /\ BackendsHeld'
    BY <1>1, <1>2, <1>3, <2>1 DEF TopoInv, ApplyPhases, BackendsHeld
  <2>7. AccountsKept'
    BY <1>1, <2>1, <2>4 DEF TopoInv, AccountsKept, AccountsAgree
  <2>8. UNCHANGED <<phys, done, before, torn, repair>> /\ Reversible
    BY <1>1 DEF TopoInv
  <2>9. Reversible'
    BY <1>1, <2>8 DEF Reversible, UndoableAt, Lasting
  <2>. QED
    BY <2>5, <2>6, <2>7, <2>9 DEF TopoInv
<1>4. CASE ~staged
  <2>1. applyPc' = "undoing" /\ UNCHANGED pmVars
    BY <1>4 DEF CommitRefused
  <2>2. TopoTyped'
    BY <1>1, <1>2, <2>1 DEF TopoTyped, PMTypeOK
  <2>3. ApplyPhases'
    BY <1>1, <1>2, <2>1 DEF TopoInv, ApplyPhases
  <2>4. BackendsHeld'
    <3>1. \A i \in 1..Len(done) : i \in 1..Len(want.muts)
      <4>1. /\ done \in Seq(Mutation) /\ want.muts \in Seq(Mutation)
            /\ Len(done) <= Len(want.muts)
        BY <1>2 DEF TopoTyped, Topology
      <4>. QED
        BY <4>1
    <3>2. \A i \in 1..Len(done) : done[i].at \in held \union {Hub}
      BY <1>1, <3>1 DEF TopoInv, BackendsHeld, ApplyPhases
    <3>. QED
      BY <1>1, <2>1, <3>2 DEF BackendsHeld
  <2>5. AccountsKept'
    BY <1>1, <1>4, <2>1 DEF TopoInv, AccountsKept, AccountsAgree
  <2>6. UNCHANGED <<phys, done, before, torn, repair>> /\ Reversible
    BY <1>1 DEF TopoInv
  <2>7. Reversible'
    BY <1>1, <2>6 DEF Reversible, UndoableAt, Lasting
  <2>. QED
    BY <2>2, <2>3, <2>4, <2>5, <2>7 DEF TopoInv
<1>. QED
  BY <1>3, <1>4, <1>2 DEF TopoTyped

(***************************************************************************)
(* Every step.                                                             *)
(***************************************************************************)
LEMMA RunStepsFrozen ==
    ASSUME TopoInv,
           \/ \E s \in Selections : Run(s)
           \/ Cancel
           \/ \E r \in Resources : Lose(r)
           \/ Destroy \/ RunStep \/ Torn
    PROVE  TopoInv'
<1>1. UNCHANGED <<pmVars, usable, defs, topoVars, phys, applyVars>>
  BY DEF Run, Cancel, Lose, Destroy, Torn, RunStep, Prepare, Launch, LaunchRefused,
         EngineAnswers, EngineResult, EngineFinished, RunFrame
<1>. QED
  BY <1>1, TopoFrozen

LEMMA ApplyStepKeeps == ASSUME IInv, ApplyStep PROVE IInv'
<1>0. TopoInv /\ RunInv
  BY DEF IInv
<1>1. TopoInv'
  <2>1. CASE Joined \/ Restored
    BY <1>0, <2>1, Waits
  <2>2. CASE ApplyRefused \/ ApplyPrepared
    BY <1>0, <2>2, Checks
  <2>3. CASE ApplyMutation
    BY <1>0, <2>3, Mutates
  <2>4. CASE Compensate
    BY <1>0, <2>4, Compensates
  <2>5. CASE Compensated
    BY <1>0, <2>5, Compensations
  <2>6. CASE ApplyCommitted
    BY <1>0, <2>6, Commits
  <2>7. CASE CommitRefused
    BY <1>0, <2>7, Refusals
  <2>. QED
    BY <2>1, <2>2, <2>3, <2>4, <2>5, <2>6, <2>7 DEF ApplyStep, WaitEnds, GiveUpWaiting
<1>2. UNCHANGED <<runVars, life>>
  BY DEF ApplyStep, WaitEnds, GiveUpWaiting, Joined, Restored, ApplyRefused, ApplyPrepared,
         ApplyMutation, Compensate, Compensated, ApplyCommitted, CommitRefused, ApplyFrame
<1>. QED
  BY <1>0, <1>1, <1>2, RunFrozen DEF IInv

LEMMA HostKeeps == ASSUME IInv, Host PROVE IInv'
<1>0. TopoInv /\ RunInv /\ TopoTyped
  BY DEF IInv, TopoInv
<1>1. ASSUME NEW p \in Providers,
             AddProvider(p) \/ RemoveProvider(p) \/ \E dropped \in SUBSET {p} : UpdateProvider(p, dropped)
      PROVE  IInv'
  <2>1. RunIsHistory /\ runPc = "idle" /\ UNCHANGED life
    BY <1>1 DEF AddProvider, RemoveProvider, UpdateProvider
  <2>. QED
    BY <1>0, <1>1, <2>1, AccountCalls, RunForgotten DEF IInv
<1>2. CASE ConnectProviders
  BY <1>0, <1>2, ProvidersMove, RunFrozen DEF IInv, ConnectProviders
<1>3. ASSUME NEW d \in Topologies,
             RejectTopology(d) \/ \E s \in SUBSET d.provs : ApplyTopology(d, s)
      PROVE  IInv'
  <2>1. RunIsHistory /\ runPc = "idle" /\ UNCHANGED life
    BY <1>3 DEF RejectTopology, ApplyTopology
  <2>. QED
    BY <1>0, <1>3, <2>1, Begins, RunForgotten DEF IInv
<1>4. CASE \E s \in Selections : Run(s)
  BY <1>0, <1>4, RunStarts, RunStepsFrozen DEF IInv
<1>5. CASE Cancel \/ (\E r \in Resources : Lose(r)) \/ Destroy
  BY <1>0, <1>5, RunInterrupted, RunStepsFrozen DEF IInv
<1>6. CASE \E opened \in BOOLEAN : Reset(opened)
  BY <1>0, <1>6, RunInterrupted, ProvidersMove DEF IInv
<1>. QED
  BY <1>1, <1>2, <1>3, <1>4, <1>5, <1>6 DEF Host

LEMMA Starts == Init => IInv
<1>. SUFFICES ASSUME Init PROVE IInv
  OBVIOUS
<1>0. /\ present \in SUBSET Providers
      /\ pstate = [p \in Providers |-> "Disconnected"]
      /\ dialing = {} /\ orphans = {} /\ owned = {} /\ bound = {} /\ held = {}
      /\ usable = TRUE /\ defs = present /\ snapIds = present /\ eps = {} /\ maps = {}
      /\ phys = [e \in Endpoints |-> {"old"}]
      /\ applyPc = "idle" /\ want = NoTopology /\ staged = FALSE
      /\ done = <<>> /\ prepared = FALSE /\ repair = FALSE /\ before = NothingBefore
      /\ torn = {}
  BY DEF Init
<1>1. TopoTyped
  <2>1. PMTypeOK
    BY <1>0 DEF PMTypeOK
  <2>2. NoTopology \in Topology /\ NothingBefore \in Recalled /\ NoTopology.muts = <<>>
    BY DEF NoTopology, NothingBefore, Topology, Recalled
  <2>3. phys \in [Endpoints -> SUBSET Names]
    BY <1>0 DEF Names
  <2>4. done \in Seq(Mutation) /\ Len(done) <= Len(want.muts)
    BY <1>0, <2>2
  <2>. QED
    BY <1>0, <2>1, <2>2, <2>3, <2>4 DEF TopoTyped
<1>2. ApplyPhases /\ BackendsHeld
  <2>1. \A i \in 1..Len(done) : done[i] = want.muts[i]
    BY <1>0
  <2>. QED
    BY <1>0, <2>1 DEF ApplyPhases, BackendsHeld
<1>3. AccountsKept /\ Reversible
  BY <1>0 DEF AccountsKept, AccountsAgree, Reversible
<1>4. RunTyped
  <2>1. /\ FreshLease \in [prepared : BOOLEAN, flushed : BOOLEAN, finished : 0..2]
        /\ NoAnswer \in [ok : BOOLEAN, cancelled : BOOLEAN]
    BY DEF FreshLease, NoAnswer
  <2>. QED
    BY <2>1 DEF Init, RunTyped, NoResults
<1>5. RunKnows /\ LeaseProtocol
  BY DEF Init, RunKnows, LeaseProtocol, FreshLease
<1>. QED
  BY <1>1, <1>2, <1>3, <1>4, <1>5 DEF IInv, TopoInv

LEMMA Keeps == IInv /\ [Next]_vars => IInv'
<1>. SUFFICES ASSUME IInv, [Next]_vars PROVE IInv'
  OBVIOUS
<1>0. TopoInv /\ RunInv
  BY DEF IInv
<1>1. CASE Host
  BY <1>1, HostKeeps
<1>2. CASE ProvidersReport
  BY <1>0, <1>2, ProvidersMove, RunFrozen DEF IInv, ProvidersReport
<1>3. CASE ApplyStep
  BY <1>3, ApplyStepKeeps
<1>4. CASE RunStep
  BY <1>0, <1>4, RunPrepares, RunLaunches, RunAnswered, RunEnds, RunStepsFrozen DEF IInv, RunStep
<1>5. CASE Torn
  BY <1>0, <1>5, RunTorn, RunStepsFrozen DEF IInv
<1>6. CASE UNCHANGED vars
  BY <1>0, <1>6, TopoFrozen, RunFrozen DEF IInv
<1>. QED
  BY <1>1, <1>2, <1>3, <1>4, <1>5, <1>6 DEF Next

(***************************************************************************)
(* The theorems.                                                           *)
(***************************************************************************)
(* The inductive invariant: how far a transaction of the topology can be   *)
(* undone at each of its points (applyTopology()), and what a run knows of *)
(* its leases (run()), whatever hosts, accounts and devices do.            *)
THEOREM Invariance == Spec => []IInv
BY Starts, Keeps, PTL DEF Spec

(* Every variable of the runtime keeps its type: backends belong to        *)
(* accounts, and pointers to backends are to backends that exist.          *)
THEOREM TypeCorrect == Spec => []TypeOK
<1>1. IInv => TypeOK
  BY DEF IInv, TopoInv, TopoTyped, RunTyped, TypeOK, Recalled
<1>. QED
  BY <1>1, Invariance, PTL

(* A lease is finished once before its run is answered, flushed only if    *)
(* prepared, and not finished while the run goes on (finishResourcesOnce() *)
(* and every path that ends a run).                                        *)
THEOREM LeasesFinished == Spec => []LeaseProtocol
<1>1. IInv => LeaseProtocol
  BY DEF IInv
<1>. QED
  BY <1>1, Invariance, PTL

(* Accounts, manager and topology agree outside a transaction, if hosts do *)
(* not add accounts inside one: docs/CONSUMING.md promises them a boundary *)
(* of commit and rollback, and addProvider() does not look whether it is   *)
(* inside, as updateProvider() and removeProvider() do.                    *)
THEOREM Accounts == ~HostsAddWhileApplying => (Spec => []AccountsAgree)
<1>. SUFFICES ASSUME ~HostsAddWhileApplying PROVE Spec => []AccountsAgree
  OBVIOUS
<1>1. IInv => AccountsAgree
  BY DEF IInv, TopoInv, AccountsKept
<1>. QED
  BY <1>1, Invariance, PTL

(* A run that is answered with success was not cancelled, synced every     *)
(* mapping it was asked for, and prepared and flushed every lease.         *)
THEOREM Earned == Spec => SuccessIsEarned
<1>. DEFINE Step == runPc # "idle" /\ runPc' = "idle" /\ answer'.ok =>
               /\ runPc = "syncing" /\ ~cancelled
               /\ \A m \in picked : results[m] = "ok" /\ ~LostTo(m)
               /\ \A r \in active : lease'[r].prepared /\ lease'[r].flushed
<1>1. IInv /\ [Next]_vars => [Step]_vars
  <2>. SUFFICES ASSUME IInv, Next, runPc # "idle", runPc' = "idle", answer'.ok
       PROVE  /\ runPc = "syncing" /\ ~cancelled
              /\ \A m \in picked : results[m] = "ok" /\ ~LostTo(m)
              /\ \A r \in active : lease'[r].prepared /\ lease'[r].flushed
    OBVIOUS
  <2>0. RunInv
    BY DEF IInv
  <2>1. ~ProvidersReport /\ ~ApplyStep
    BY DEF ProvidersReport, ApplyStep, WaitEnds, GiveUpWaiting, Joined, Restored, ApplyRefused,
           ApplyPrepared, ApplyMutation, Compensate, Compensated, ApplyCommitted,
           CommitRefused, ApplyFrame
  <2>2. ~Host
    BY DEF Host, AddProvider, RemoveProvider, UpdateProvider, ConnectProviders, RejectTopology,
           ApplyTopology, Run, Cancel, Lose, Reset, Destroy
  <2>3. ~Torn
    BY DEF Torn, EndRun
  <2>4. ~(\E r \in Resources : Prepare(r)) /\ ~Launch /\ ~LaunchRefused /\ ~EngineAnswers
    BY DEF Prepare, Launch, LaunchRefused, EngineAnswers, EngineResult, EndRun
  <2>5. PICK rs \in SUBSET Resources : EngineFinished(rs)
    BY <2>1, <2>2, <2>3, <2>4 DEF Next, RunStep
  <2>6. /\ runPc = "syncing" /\ Well /\ rs = active /\ lease' = Finish(Flush(rs))
    BY <2>5 DEF EngineFinished, EndRun
  <2>7. ~cancelled /\ \A m \in picked : results[m] = "ok" /\ ~LostTo(m)
    BY <2>0, <2>6 DEF Well, RunKnows
  <2>8. ASSUME NEW r \in active
        PROVE  lease'[r].prepared /\ lease'[r].flushed
    <3>1. r \in Resources /\ lease[r].prepared
          /\ lease \in [Resources -> [prepared : BOOLEAN, flushed : BOOLEAN, finished : 0..2]]
      BY <2>0, <2>6 DEF RunTyped, RunKnows
    <3>2. Flush(rs)[r].prepared /\ Flush(rs)[r].flushed
          /\ Flush(rs)[r] \in [prepared : BOOLEAN, flushed : BOOLEAN, finished : 0..2]
      BY <2>6, <3>1 DEF Flush
    <3>. QED
      BY <2>6, <3>1, <3>2 DEF Finish
  <2>. QED
    BY <2>6, <2>7, <2>8
<1>. QED
  BY <1>1, Invariance, PTL DEF Spec, SuccessIsEarned

(* A topology that fails and asks for no repair leaves accounts and        *)
(* mappings as they were, and every collection but those that were created *)
(* though they were there, changed by a mutation that failed, or left to a *)
(* backend that was gone (compensateCollections()): if hosts do not add    *)
(* accounts inside the transaction.                                        *)
THEOREM Undone == ~HostsAddWhileApplying => (Spec => FailedApplyIsUndone)
<1>. SUFFICES ASSUME ~HostsAddWhileApplying PROVE Spec => FailedApplyIsUndone
  OBVIOUS
<1>. DEFINE Back == \A e \in Endpoints, n \in Names : <<e, n>> \notin torn =>
                        (n \in phys'[e] <=> n \in before.phys[e])
            Step == applyPc # "idle" /\ applyPc' = "idle" =>
               /\ ~prepared'
               /\ applyPc # "mutating" /\ ~repair => /\ maps' = before.maps
                                                    /\ defs' = before.providers
                                                    /\ present' = before.providers
                                                    /\ Back
<1>1. IInv /\ [Next]_vars => [Step]_vars
  <2>. SUFFICES ASSUME IInv, Next, applyPc # "idle", applyPc' = "idle"
       PROVE  Step
    OBVIOUS
  <2>0. TopoInv /\ ApplyPhases /\ AccountsKept /\ Reversible
        /\ phys \in [Endpoints -> SUBSET Names] /\ before.phys \in [Endpoints -> SUBSET Names]
    BY DEF IInv, TopoInv, TopoTyped, Recalled
  <2>1. ApplyStep
    BY DEF Next, Host, ProvidersReport, AddProvider, RemoveProvider, UpdateProvider,
           ConnectProviders, RejectTopology, ApplyTopology, Run, Cancel, Lose, Reset, Destroy,
           RunStep, Prepare, Launch, LaunchRefused, EngineAnswers, EngineResult, EngineFinished,
           RunFrame, Torn
  <2>2. CASE ApplyCommitted
    BY <2>2 DEF ApplyCommitted
  <2>3. CASE done = <<>> /\ UNCHANGED <<phys, maps>> /\ ~prepared' /\ defs' = before.providers
             /\ present' = before.providers
    <3>1. ASSUME ~repair PROVE Back
      <4>1. \A i \in 1..Len(done) : FALSE
        BY <2>3
      <4>2. \A e \in Endpoints, n \in Names : <<e, n>> \notin torn => UndoableAt(e, n)
        BY <2>0, <3>1, <4>1 DEF Reversible, Lasting
      <4>. QED
        BY <2>3, <4>1, <4>2 DEF UndoableAt
    <3>2. maps = before.maps
      BY <2>0 DEF AccountsKept
    <3>. QED
      BY <2>3, <3>1, <3>2
  <2>4. CASE Leave /\ ~staged /\ done = <<>> /\ UNCHANGED <<phys, maps, defs>> /\ ~prepared'
    <3>1. UNCHANGED present
      BY <2>4 DEF Leave, EndApply
    <3>2. defs = before.providers /\ present = before.providers
      BY <2>0, <2>4 DEF AccountsKept
    <3>. QED
      BY <2>3, <2>4, <3>1, <3>2
  <2>5. Leave => ~staged
    BY DEF Leave
  <2>6. CASE Joined \/ ApplyRefused
    <3>1. /\ applyPc \in {"joining", "checking"} /\ Leave
          /\ UNCHANGED <<phys, maps, defs, prepared>>
      BY <2>6 DEF Joined, ApplyRefused, ApplyFrame
    <3>. QED
      BY <2>0, <2>4, <2>5, <3>1 DEF ApplyPhases
  <2>7. CASE Compensated
    <3>1. /\ applyPc = "undoing" /\ Leave /\ done = <<>> /\ ~prepared'
          /\ UNCHANGED <<phys, maps, defs>>
      BY <2>7 DEF Compensated, ApplyFrame
    <3>. QED
      BY <2>4, <2>5, <3>1
  <2>8. CASE Restored
    <3>1. /\ applyPc = "restoring" /\ defs' = before.providers
          /\ UNCHANGED <<present, phys, maps, prepared>>
      BY <2>8 DEF Restored, ApplyFrame
    <3>2. present = before.providers /\ done = <<>> /\ ~prepared
      BY <2>0, <3>1 DEF AccountsKept, ApplyPhases
    <3>. QED
      BY <2>3, <3>1, <3>2
  <2>. QED
    BY <2>1, <2>2, <2>6, <2>7, <2>8 DEF ApplyStep, WaitEnds, GiveUpWaiting, ApplyPrepared,
       ApplyMutation, Compensate, CommitRefused
<1>. QED
  BY <1>1, Invariance, PTL DEF Spec, FailedApplyIsUndone
=============================================================================
