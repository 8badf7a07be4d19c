---------------------------- MODULE SyncRunProofs ----------------------------
(***************************************************************************)
(* Proofs about SyncRun: that the engine's tables, its queues and the      *)
(* workers agree, and what follows; then, resting on that agreement, how   *)
(* it dispatches: no lease fails and no cap is passed, a pause reaches the *)
(* worker that asked, a skip verdict in force is fresh, and no mapping is  *)
(* dropped.                                                                *)
(***************************************************************************)
EXTENDS SyncRunInv, FiniteSetTheorems, TLAPS

(* What the queues hold after an event was posted to or taken from them.   *)
LEMMA HasAppend ==
    ASSUME NEW S, NEW q \in Seq(S), NEW x \in S, NEW E
    PROVE  /\ Append(q, x) \in Seq(S)
           /\ Has(Append(q, x), E) <=> Has(q, E) \/ x \in E
BY DEF Has

LEMMA HasTail ==
    ASSUME NEW S, NEW q \in Seq(S), q # <<>>, NEW E
    PROVE  /\ Tail(q) \in Seq(S)
           /\ Has(Tail(q), E) => Has(q, E)
           /\ Head(q) \notin E => (Has(q, E) => Has(Tail(q), E))
           /\ Head(q) \in E => Has(q, E)
           /\ Head(q) \in E /\ AtMostOnce(q, E) => ~Has(Tail(q), E)
           /\ AtMostOnce(q, E) => AtMostOnce(Tail(q), E)
BY DEF Has, AtMostOnce

LEMMA OnceAppend ==
    ASSUME NEW S, NEW q \in Seq(S), NEW x \in S, NEW E,
           AtMostOnce(q, E), x \in E => ~Has(q, E)
    PROVE  AtMostOnce(Append(q, x), E)
BY DEF Has, AtMostOnce

USE DEF vars, runVars, queueVars, passVars, conflictVars, poolVars, workVars, engineVars

LEMMA Numbers ==
    /\ ControlSlot \in Slots /\ 1 \in Slots
    /\ None \notin Slots /\ None \notin Mappings
    /\ Slots \subseteq Nat
BY SizesAssumption DEF Slots, Mappings, None, ControlSlot

LEMMA Kinds ==
    /\ "process" \in MailKinds /\ "observe" \in MailKinds /\ "resume" \in MailKinds
    /\ "controllers" \in MailKinds /\ "fastPath" \in MailKinds
    /\ "completed" \in SignalKinds /\ "conflict" \in SignalKinds /\ "pause" \in SignalKinds
    /\ "controllersReady" \in SignalKinds /\ "fastPathReady" \in SignalKinds
    /\ "none" \in Outcomes /\ "ok" \in Outcomes /\ "cancelled" \in Outcomes
    /\ NoResult \in Results /\ [outcome |-> "cancelled", wrote |-> {}] \in Results
    /\ [outcome |-> "failed", wrote |-> {}] \in Results
    /\ \A r \in Results : r.outcome \in Outcomes
BY DEF MailKinds, SignalKinds, Outcomes, Results, NoResult

LEMMA InitTyped == Init => TypeOK
<1>. SUFFICES ASSUME Init PROVE TypeOK
  OBVIOUS
<1>1. RunTyped
  BY Numbers DEF Init, RunTyped
<1>2. QueueTyped
  BY Kinds DEF Init, QueueTyped
<1>3. PoolTyped
  BY Numbers DEF Init, PoolTyped
<1>4. WorkTyped
  BY Kinds DEF Init, WorkTyped
<1>. QED
  BY <1>1, <1>2, <1>3, <1>4 DEF TypeOK


LEMMA ReportsOrder ==
    ASSUME NEW S, NEW q \in Seq(S)
    PROVE  /\ \A x \in S : x \notin Reports \/ ~Has(q, {"completed"})
                             => (ReportsFirst(q) => ReportsFirst(Append(q, x)))
           /\ q # <<>> /\ ReportsFirst(q) =>
                 /\ ReportsFirst(Tail(q))
                 /\ Head(q) = "completed" => ~Has(Tail(q), Reports)
<1>1. ASSUME NEW x \in S, x \notin Reports \/ ~Has(q, {"completed"}), ReportsFirst(q)
      PROVE  ReportsFirst(Append(q, x))
  BY <1>1 DEF ReportsFirst, Has, Reports
<1>2. ASSUME q # <<>>, ReportsFirst(q) PROVE ReportsFirst(Tail(q))
  BY <1>2 DEF ReportsFirst
<1>3. ASSUME q # <<>>, ReportsFirst(q), Head(q) = "completed" PROVE ~Has(Tail(q), Reports)
  BY <1>3 DEF ReportsFirst, Has
<1>. QED
  BY <1>1, <1>2, <1>3

LEMMA PostTyped ==
    ASSUME NEW q \in Seq(MailKinds)
    PROVE  /\ Post(q, "observe") \in Seq(MailKinds)
           /\ \A E : "observe" \notin E =>
                 /\ Has(Post(q, "observe"), E) <=> Has(q, E)
                 /\ AtMostOnce(q, E) => AtMostOnce(Post(q, "observe"), E)
<1>1. Append(q, "observe") \in Seq(MailKinds)
  BY Kinds
<1>2. ASSUME NEW E, "observe" \notin E
      PROVE  /\ Has(Append(q, "observe"), E) <=> Has(q, E)
             /\ AtMostOnce(q, E) => AtMostOnce(Append(q, "observe"), E)
  BY <1>2, Kinds, HasAppend, OnceAppend
<1>. QED
  BY <1>1, <1>2 DEF Post

(* Appending to and taking from one of the queues keeps them well typed.   *)
LEMMA MailUpdates ==
    ASSUME WorkTyped, NEW s \in Slots
    PROVE  /\ mail \in [Slots -> Seq(MailKinds)]
           /\ \A e \in MailKinds :
                 [mail EXCEPT ![s] = Append(@, e)] \in [Slots -> Seq(MailKinds)]
           /\ mail[s] # <<>> => [mail EXCEPT ![s] = Tail(@)] \in [Slots -> Seq(MailKinds)]
BY DEF WorkTyped

LEMMA OutUpdates ==
    ASSUME WorkTyped, NEW s \in Slots
    PROVE  /\ out \in [Slots -> Seq(SignalKinds)]
           /\ \A e \in SignalKinds :
                 [out EXCEPT ![s] = Append(@, e)] \in [Slots -> Seq(SignalKinds)]
           /\ out[s] # <<>> => [out EXCEPT ![s] = Tail(@)] \in [Slots -> Seq(SignalKinds)]
BY DEF WorkTyped

(* What the engine reads of a sync comes from a slot that is leased.       *)
LEMMA SignalFromLease ==
    ASSUME TypeOK, OneAnswerPerLease, ReportsBeforeAnswer, NEW s \in Slots,
           out[s] # <<>>, Head(out[s]) \in {"completed", "conflict", "pause"}
    PROVE  busy[s] \in Mappings
<1>1. out[s] \in Seq(SignalKinds)
  BY DEF TypeOK, WorkTyped
<1>2. Has(out[s], {Head(out[s])})
  BY <1>1 DEF Has
<1>3. busy[s] # None
  BY <1>2 DEF OneAnswerPerLease, AnswerOwed, ReportsBeforeAnswer, Reports, Finished, Has
<1>. QED
  BY <1>3 DEF TypeOK, PoolTyped

LEMMA EndsTyped == \A m \in Mappings : Ends(m) \subseteq Endpoints
BY TopologyAssumption DEF Ends

LEMMA PoolSlots == TypeOK => FreeSlots \subseteq Slots /\ 1..poolSize \subseteq Slots
BY SizesAssumption DEF TypeOK, PoolTyped, FreeSlots, Slots

(* Every step keeps the types; a reported conflict names a leased mapping. *)
LEMMA TypedStep ==
    ASSUME TypeOK, OneAnswerPerLease, ReportsBeforeAnswer, Next
    PROVE  TypeOK'
<1>. USE DEF TypeOK
<1>1. CASE OnActiveControllersReady
  <2>1. RunTyped'
    BY <1>1, Kinds, Numbers DEF OnActiveControllersReady, TakeSignal, FinishSetup,
       FinishRun, RunTyped
  <2>2. QueueTyped'
    BY <1>1, Kinds, Numbers DEF OnActiveControllersReady, TakeSignal, FinishSetup,
       FinishRun, QueueTyped
  <2>3. PoolTyped'
    BY <1>1, Kinds, Numbers DEF OnActiveControllersReady, TakeSignal, FinishSetup,
       FinishRun, PoolTyped
  <2>4. WorkTyped'
    <3>1. out' \in [Slots -> Seq(SignalKinds)]
      BY <1>1, Numbers, OutUpdates DEF OnActiveControllersReady, TakeSignal
    <3>2. mail' \in [Slots -> Seq(MailKinds)]
      <4>1. CASE ~cancelled /\ ~override
        <5>1. mail' = [mail EXCEPT ![ControlSlot] = Append(@, "fastPath")]
          BY <1>1, <4>1 DEF OnActiveControllersReady
        <5>. QED
          BY <5>1, Kinds, Numbers, MailUpdates
      <4>2. CASE ~(~cancelled /\ ~override)
        BY <1>1, <4>2, Kinds, Numbers, MailUpdates DEF OnActiveControllersReady
      <4>. QED
        BY <4>1, <4>2
    <3>. QED
      BY <1>1, <3>1, <3>2 DEF OnActiveControllersReady, WorkTyped
  <2>. QED
    BY <2>1, <2>2, <2>3, <2>4 DEF TypeOK
<1>2. ASSUME NEW unchanged \in SUBSET pending, OnFastPathReady(unchanged) PROVE
             TypeOK'
  <2>1. RunTyped'
    BY <1>2, Kinds DEF OnFastPathReady, TakeSignal, FinishSetup, FinishRun, RunTyped
  <2>2. QueueTyped'
    BY <1>2, Kinds DEF OnFastPathReady, TakeSignal, FinishSetup, FinishRun, QueueTyped
  <2>3. PoolTyped'
    BY <1>2, Kinds DEF OnFastPathReady, TakeSignal, FinishSetup, FinishRun, PoolTyped
  <2>4. WorkTyped'
    BY <1>2, OutUpdates DEF OnFastPathReady, TakeSignal, WorkTyped
  <2>. QED
    BY <2>1, <2>2, <2>3, <2>4 DEF TypeOK
<1>3. ASSUME NEW m \in Mappings, PumpLost(m) PROVE TypeOK'
  BY <1>3, Kinds DEF PumpLost, Take, RunTyped, QueueTyped, PoolTyped, WorkTyped
<1>4. ASSUME NEW m \in Mappings, PumpSkip(m) PROVE TypeOK'
  BY <1>4, Kinds DEF PumpSkip, Take, RunTyped, QueueTyped, PoolTyped, WorkTyped
<1>5. ASSUME NEW m \in Mappings, NEW s \in Slots, PumpDispatch(m, s) PROVE TypeOK'
  <2>1. RunTyped'
    BY <1>5, Kinds, TopologyAssumption DEF PumpDispatch, Take, Dispatch, Ends, RunTyped
  <2>2. QueueTyped'
    BY <1>5, Kinds, TopologyAssumption DEF PumpDispatch, Take, Dispatch, Ends,
       QueueTyped
  <2>3. PoolTyped'
    BY <1>5, Kinds, TopologyAssumption DEF PumpDispatch, Take, Dispatch, Ends,
       PoolTyped
  <2>4. WorkTyped'
    BY <1>5, Kinds, MailUpdates DEF PumpDispatch, Dispatch, RunTyped, WorkTyped
  <2>. QED
    BY <2>1, <2>2, <2>3, <2>4 DEF TypeOK
<1>6. CASE PumpWait
  BY <1>6 DEF PumpWait, RunTyped, QueueTyped, PoolTyped, WorkTyped
<1>7. CASE PumpResolutionPass
  <2>1. RunTyped'
    BY <1>7, Kinds DEF PumpResolutionPass, RePass, Prime, CarryOver, Reported,
       ResolutionIds, RunTyped
  <2>2. QueueTyped'
    BY <1>7, Kinds DEF PumpResolutionPass, RePass, Prime, CarryOver, Reported,
       ResolutionIds, QueueTyped
  <2>3. PoolTyped'
    BY <1>7, Kinds DEF PumpResolutionPass, RePass, Prime, CarryOver, Reported,
       ResolutionIds, PoolTyped
  <2>4. WorkTyped'
    BY <1>7, Kinds DEF PumpResolutionPass, RePass, Prime, CarryOver, Reported,
       ResolutionIds, WorkTyped
  <2>. QED
    BY <2>1, <2>2, <2>3, <2>4 DEF TypeOK
<1>8. CASE PumpFixpointPass
  <2>1. RunTyped'
    BY <1>8, Kinds DEF PumpFixpointPass, RePass, Prime, CarryOver, Reported,
       FixpointIds, RunTyped
  <2>2. QueueTyped'
    BY <1>8, Kinds DEF PumpFixpointPass, RePass, Prime, CarryOver, Reported, RunTyped,
       QueueTyped
  <2>3. PoolTyped'
    BY <1>8, Kinds DEF PumpFixpointPass, RePass, Prime, CarryOver, Reported,
       FixpointIds, PoolTyped
  <2>4. WorkTyped'
    BY <1>8, Kinds DEF PumpFixpointPass, RePass, Prime, CarryOver, Reported,
       FixpointIds, WorkTyped
  <2>. QED
    BY <2>1, <2>2, <2>3, <2>4 DEF TypeOK
<1>9. CASE PumpFinish
  <2>1. RunTyped'
    BY <1>9, Kinds DEF PumpFinish, FinishRun, RunTyped
  <2>2. QueueTyped'
    BY <1>9, Kinds DEF PumpFinish, FinishRun, QueueTyped
  <2>3. PoolTyped'
    BY <1>9, Kinds DEF PumpFinish, FinishRun, PoolTyped
  <2>4. WorkTyped'
    BY <1>9, Kinds DEF PumpFinish, FinishRun, WorkTyped
  <2>. QED
    BY <2>1, <2>2, <2>3, <2>4 DEF TypeOK
<1>10. CASE PumpCancelled
  <2>1. RunTyped'
    BY <1>10, Kinds DEF PumpCancelled, FinishRun, RunTyped
  <2>2. QueueTyped'
    BY <1>10, Kinds DEF PumpCancelled, FinishRun, QueueTyped
  <2>3. PoolTyped'
    BY <1>10, Kinds DEF PumpCancelled, FinishRun, PoolTyped
  <2>4. WorkTyped'
    BY <1>10, Kinds DEF PumpCancelled, FinishRun, WorkTyped
  <2>. QED
    BY <2>1, <2>2, <2>3, <2>4 DEF TypeOK
<1>11. ASSUME NEW s \in Slots, CompleteQueued(s) PROVE TypeOK'
  <2>1. RunTyped'
    BY <1>11, Kinds DEF CompleteQueued, TakeSignal, Released, ClaimsWithout,
       SchedulePresentation, SkipsAfter, RunTyped
  <2>2. QueueTyped'
    BY <1>11, Kinds, SignalFromLease DEF CompleteQueued, TakeSignal,
       SchedulePresentation, SkipsAfter, WorkTyped, QueueTyped
  <2>3. PoolTyped'
    BY <1>11, Kinds DEF CompleteQueued, TakeSignal, Released, ClaimsWithout,
       SchedulePresentation, SkipsAfter, PoolTyped
  <2>4. WorkTyped'
    BY <1>11, Kinds DEF CompleteQueued, TakeSignal, Released, ClaimsWithout,
       SchedulePresentation, SkipsAfter, WorkTyped
  <2>. QED
    BY <2>1, <2>2, <2>3, <2>4 DEF TypeOK
<1>12. ASSUME NEW s \in Slots, CompleteAndRedispatch(s) PROVE TypeOK'
  <2>1. RunTyped'
    BY <1>12, Kinds, TopologyAssumption DEF CompleteAndRedispatch, TakeSignal, Released,
       ClaimsWithout, SchedulePresentation, FreeSlots, Ends, Redispatchable,
       RunTyped
  <2>2. QueueTyped'
    BY <1>12, Kinds, TopologyAssumption DEF CompleteAndRedispatch, TakeSignal, Released,
       ClaimsWithout, SchedulePresentation, FreeSlots, Ends, Redispatchable,
       QueueTyped
  <2>3. PoolTyped'
    <3>1. busy[s] \in Mappings
      BY <1>12, SignalFromLease DEF CompleteAndRedispatch, TakeSignal
    <3>2. PICK t \in Slots :
             /\ busy' = [busy EXCEPT ![s] = None, ![t] = busy[s]]
             /\ inFlight' = [inFlight EXCEPT ![busy[s]] = t]
      BY <1>12, PoolSlots DEF CompleteAndRedispatch
    <3>3. claims' \subseteq Endpoints
      BY <1>12, <3>1, EndsTyped DEF CompleteAndRedispatch, ClaimsWithout, PoolTyped
    <3>. QED
      BY <1>12, <3>1, <3>2, <3>3 DEF CompleteAndRedispatch, PoolTyped
  <2>4. WorkTyped'
    BY <1>12, Kinds, PoolSlots, MailUpdates, OutUpdates DEF CompleteAndRedispatch,
       TakeSignal, RunTyped, WorkTyped
  <2>. QED
    BY <2>1, <2>2, <2>3, <2>4 DEF TypeOK
<1>13. ASSUME NEW s \in Slots, CompleteSingle(s) PROVE TypeOK'
  <2>1. RunTyped'
    BY <1>13, Kinds DEF CompleteSingle, TakeSignal, SchedulePresentation, FinishRun,
       RunTyped
  <2>2. QueueTyped'
    BY <1>13, Kinds DEF CompleteSingle, TakeSignal, SchedulePresentation, FinishRun,
       QueueTyped
  <2>3. PoolTyped'
    BY <1>13, Kinds DEF CompleteSingle, TakeSignal, SchedulePresentation, FinishRun,
       PoolTyped
  <2>4. WorkTyped'
    BY <1>13, Kinds DEF CompleteSingle, TakeSignal, SchedulePresentation, FinishRun,
       WorkTyped
  <2>. QED
    BY <2>1, <2>2, <2>3, <2>4 DEF TypeOK
<1>14. ASSUME NEW s \in Slots, OnConflictDetected(s) PROVE TypeOK'
  <2>1. RunTyped'
    BY <1>14, Kinds DEF OnConflictDetected, TakeSignal, ReportsBeforeAnswer, Has,
       RunTyped
  <2>2. QueueTyped'
    BY <1>14, SignalFromLease DEF OnConflictDetected, TakeSignal, QueueTyped
  <2>3. PoolTyped'
    BY <1>14, Kinds DEF OnConflictDetected, TakeSignal, ReportsBeforeAnswer, Has,
       PoolTyped
  <2>4. WorkTyped'
    BY <1>14, Kinds DEF OnConflictDetected, TakeSignal, ReportsBeforeAnswer, Has,
       WorkTyped
  <2>. QED
    BY <2>1, <2>2, <2>3, <2>4 DEF TypeOK
<1>15. ASSUME NEW s \in Slots, OnConflictPauseRequested(s) PROVE TypeOK'
  <2>1. RunTyped'
    BY <1>15, Kinds, Numbers DEF OnConflictPauseRequested, TakeSignal, RunTyped
  <2>2. QueueTyped'
    BY <1>15, Kinds, Numbers DEF OnConflictPauseRequested, TakeSignal, QueueTyped
  <2>3. PoolTyped'
    BY <1>15, Kinds, Numbers DEF OnConflictPauseRequested, TakeSignal, PoolTyped
  <2>4. WorkTyped'
    <3>1. mail' \in [Slots -> Seq(MailKinds)]
      BY <1>15, Kinds, Numbers, MailUpdates DEF OnConflictPauseRequested
    <3>2. out' \in [Slots -> Seq(SignalKinds)]
      BY <1>15, OutUpdates DEF OnConflictPauseRequested, TakeSignal
    <3>. QED
      BY <1>15, <3>1, <3>2 DEF OnConflictPauseRequested, WorkTyped
  <2>. QED
    BY <2>1, <2>2, <2>3, <2>4 DEF TypeOK
<1>16. ASSUME NEW answered \in SUBSET toPresent, PresentPendingConflicts(answered)
             PROVE TypeOK'
  BY <1>16 DEF PresentPendingConflicts, RunTyped, QueueTyped, PoolTyped, WorkTyped
<1>17. CASE OnCancelObserved
  <2>1. RunTyped'
    BY <1>17, Kinds, PostTyped DEF OnCancelObserved, CancelEverything, PostAll, RunTyped
  <2>2. QueueTyped'
    BY <1>17, Kinds, PostTyped DEF OnCancelObserved, CancelEverything, PostAll,
       QueueTyped
  <2>3. PoolTyped'
    BY <1>17, Kinds, PostTyped DEF OnCancelObserved, CancelEverything, PostAll,
       PoolTyped
  <2>4. WorkTyped'
    BY <1>17, Kinds, PostTyped DEF OnCancelObserved, CancelEverything, PostAll,
       WorkTyped
  <2>. QED
    BY <2>1, <2>2, <2>3, <2>4 DEF TypeOK
<1>18. ASSUME NEW s \in Slots, WorkerProcess(s) PROVE TypeOK'
  <2>1. RunTyped'
    BY <1>18, Kinds DEF WorkerProcess, TakeMail, Complete, Emit, RunTyped
  <2>2. QueueTyped'
    BY <1>18, Kinds DEF WorkerProcess, TakeMail, Complete, Emit, QueueTyped
  <2>3. PoolTyped'
    BY <1>18, Kinds DEF WorkerProcess, TakeMail, Complete, Emit, PoolTyped
  <2>4. WorkTyped'
    <3>1. mail' \in [Slots -> Seq(MailKinds)]
      BY <1>18, MailUpdates DEF WorkerProcess, TakeMail
    <3>2. out' \in [Slots -> Seq(SignalKinds)]
      <4>1. CASE wcancel[s]
        <5>1. out' = [out EXCEPT ![s] = Append(@, "completed")]
          BY <1>18, <4>1 DEF WorkerProcess, Complete, Emit
        <5>. QED
          BY <5>1, Kinds, OutUpdates
      <4>2. CASE ~(wcancel[s])
        <5>1. out' = out
          BY <1>18, <4>2 DEF WorkerProcess, workVars
        <5>. QED
          BY <5>1, OutUpdates
      <4>. QED
        BY <4>1, <4>2
    <3>. QED
      BY <1>18, Kinds, <3>1, <3>2 DEF WorkerProcess, Complete, WorkTyped
  <2>. QED
    BY <2>1, <2>2, <2>3, <2>4 DEF TypeOK
<1>19. ASSUME NEW s \in Slots, WorkerObserve(s) PROVE TypeOK'
  <2>1. RunTyped'
    BY <1>19, Kinds DEF WorkerObserve, TakeMail, Complete, Emit, RunTyped
  <2>2. QueueTyped'
    BY <1>19, Kinds DEF WorkerObserve, TakeMail, Complete, Emit, QueueTyped
  <2>3. PoolTyped'
    BY <1>19, Kinds DEF WorkerObserve, TakeMail, Complete, Emit, PoolTyped
  <2>4. WorkTyped'
    <3>1. mail' \in [Slots -> Seq(MailKinds)]
      BY <1>19, MailUpdates DEF WorkerObserve, TakeMail
    <3>2. out' \in [Slots -> Seq(SignalKinds)]
      <4>1. CASE st[s] = "paused"
        <5>1. out' = [out EXCEPT ![s] = Append(@, "completed")]
          BY <1>19, <4>1 DEF WorkerObserve, Complete, Emit
        <5>. QED
          BY <5>1, Kinds, OutUpdates
      <4>2. CASE ~(st[s] = "paused")
        <5>1. out' = out
          BY <1>19, <4>2 DEF WorkerObserve, workVars
        <5>. QED
          BY <5>1, OutUpdates
      <4>. QED
        BY <4>1, <4>2
    <3>. QED
      BY <1>19, Kinds, <3>1, <3>2 DEF WorkerObserve, Complete, WorkTyped
  <2>. QED
    BY <2>1, <2>2, <2>3, <2>4 DEF TypeOK
<1>20. ASSUME NEW s \in Slots, WorkerResume(s) PROVE TypeOK'
  BY <1>20, Kinds DEF WorkerResume, TakeMail, RunTyped, QueueTyped, PoolTyped,
     WorkTyped
<1>21. ASSUME NEW s \in Slots, WorkerPause(s) PROVE TypeOK'
  BY <1>21, Kinds DEF WorkerPause, Emit, RunTyped, QueueTyped, PoolTyped, WorkTyped
<1>22. ASSUME NEW s \in Slots, WorkerDefer(s) PROVE TypeOK'
  BY <1>22, Kinds DEF WorkerDefer, Emit, RunTyped, QueueTyped, PoolTyped, WorkTyped
<1>23. ASSUME NEW s \in Slots, WorkerAbandon(s) PROVE TypeOK'
  BY <1>23 DEF WorkerAbandon, RunTyped, QueueTyped, PoolTyped, WorkTyped
<1>24. ASSUME NEW s \in Slots, NEW r \in Results, WorkerComplete(s, r) PROVE TypeOK'
  <2>1. RunTyped'
    BY <1>24, Kinds DEF WorkerComplete, Complete, Emit, RunTyped
  <2>2. QueueTyped'
    BY <1>24, Kinds DEF WorkerComplete, Complete, Emit, QueueTyped
  <2>3. PoolTyped'
    BY <1>24, Kinds DEF WorkerComplete, Complete, Emit, PoolTyped
  <2>4. WorkTyped'
    BY <1>24, Kinds DEF WorkerComplete, Complete, Emit, WorkTyped
  <2>. QED
    BY <2>1, <2>2, <2>3, <2>4 DEF TypeOK
<1>25. ASSUME NEW kind \in SetupKinds, WorkerSetup(kind) PROVE TypeOK'
  <2>1. RunTyped'
    BY <1>25, Kinds, Numbers DEF WorkerSetup, TakeMail, Emit, SetupKinds, RunTyped
  <2>2. QueueTyped'
    BY <1>25, Kinds, Numbers DEF WorkerSetup, TakeMail, Emit, SetupKinds, QueueTyped
  <2>3. PoolTyped'
    BY <1>25, Kinds, Numbers DEF WorkerSetup, TakeMail, Emit, SetupKinds, PoolTyped
  <2>4. WorkTyped'
    BY <1>25, Kinds, Numbers DEF WorkerSetup, TakeMail, Emit, SetupKinds, WorkTyped
  <2>. QED
    BY <2>1, <2>2, <2>3, <2>4 DEF TypeOK
<1>26. ASSUME NEW r \in Requests, StartQueueRun(r) PROVE TypeOK'
  <2>1. RunTyped'
    BY <1>26, Kinds, Numbers, RequestsAssumption DEF StartQueueRun, BeginRun, Prime,
       EffectiveCap, GrowPool, Request, RunTyped
  <2>2. QueueTyped'
    BY <1>26, Kinds, Numbers, RequestsAssumption DEF StartQueueRun, BeginRun, Prime,
       EffectiveCap, GrowPool, Request, QueueTyped
  <2>3. PoolTyped'
    BY <1>26, Kinds, Numbers, RequestsAssumption DEF StartQueueRun, BeginRun, Prime,
       EffectiveCap, GrowPool, Request, PoolTyped
  <2>4. WorkTyped'
    <3>1. mail' \in [Slots -> Seq(MailKinds)]
      <4>1. CASE HasControllers \/ ~r.clobber
        <5>1. \E e \in MailKinds : mail' = [mail EXCEPT ![ControlSlot] = Append(@, e)]
          BY <1>26, <4>1, Kinds DEF StartQueueRun
        <5>. QED
          BY <5>1, Numbers, MailUpdates
      <4>2. CASE ~(HasControllers \/ ~r.clobber)
        BY <1>26, <4>2, Kinds, Numbers, MailUpdates DEF StartQueueRun
      <4>. QED
        BY <4>1, <4>2
    <3>. QED
      BY <1>26, <3>1 DEF StartQueueRun, WorkTyped
  <2>. QED
    BY <2>1, <2>2, <2>3, <2>4 DEF TypeOK
<1>27. ASSUME NEW r \in Requests, NEW m \in Mappings, StartSingleRun(r, m) PROVE
             TypeOK'
  <2>1. RunTyped'
    BY <1>27, Kinds, Numbers, RequestsAssumption DEF StartSingleRun, SinglePreamble,
       BeginRun, GrowPool, Dispatch, Request, RunTyped
  <2>2. QueueTyped'
    BY <1>27, Kinds, Numbers, RequestsAssumption DEF StartSingleRun, SinglePreamble,
       BeginRun, GrowPool, Dispatch, Request, QueueTyped
  <2>3. PoolTyped'
    BY <1>27, RequestsAssumption, SizesAssumption DEF StartSingleRun, GrowPool,
       Dispatch, Request, Slots, PoolTyped
  <2>4. WorkTyped'
    BY <1>27, Kinds, Numbers, RequestsAssumption, SizesAssumption, MailUpdates DEF
       StartSingleRun, GrowPool, Dispatch, Request, Slots, PoolTyped, WorkTyped
  <2>. QED
    BY <2>1, <2>2, <2>3, <2>4 DEF TypeOK
<1>28. ASSUME NEW r \in Requests, NEW m \in Mappings, RefuseSingleRun(r, m) PROVE
             TypeOK'
  <2>1. RunTyped'
    BY <1>28, Kinds DEF RefuseSingleRun, SinglePreamble, RunTyped
  <2>2. QueueTyped'
    BY <1>28, Kinds DEF RefuseSingleRun, SinglePreamble, QueueTyped
  <2>3. PoolTyped'
    BY <1>28, Kinds DEF RefuseSingleRun, SinglePreamble, PoolTyped
  <2>4. WorkTyped'
    BY <1>28, Kinds DEF RefuseSingleRun, SinglePreamble, WorkTyped
  <2>. QED
    BY <2>1, <2>2, <2>3, <2>4 DEF TypeOK
<1>29. ASSUME NEW m \in Togglable, SetMappingEnabled(m) PROVE TypeOK'
  BY <1>29, HostAssumption DEF SetMappingEnabled, RunTyped, QueueTyped, PoolTyped,
     WorkTyped
<1>30. CASE CancelFuture
  BY <1>30 DEF CancelFuture, RunTyped, QueueTyped, PoolTyped, WorkTyped
<1>31. CASE CancelWithReason
  <2>1. RunTyped'
    BY <1>31, Kinds, PostTyped DEF CancelWithReason, CancelEverything, PostAll, RunTyped
  <2>2. QueueTyped'
    BY <1>31, Kinds, PostTyped DEF CancelWithReason, CancelEverything, PostAll,
       QueueTyped
  <2>3. PoolTyped'
    BY <1>31, Kinds, PostTyped DEF CancelWithReason, CancelEverything, PostAll,
       PoolTyped
  <2>4. WorkTyped'
    BY <1>31, Kinds, PostTyped DEF CancelWithReason, CancelEverything, PostAll,
       WorkTyped
  <2>. QED
    BY <2>1, <2>2, <2>3, <2>4 DEF TypeOK
<1>32. ASSUME NEW r \in Losable, LoseResource(r) PROVE TypeOK'
  <2>1. RunTyped'
    BY <1>32, Kinds, PostTyped, HostAssumption DEF LoseResource, RunTyped
  <2>2. QueueTyped'
    BY <1>32, Kinds, PostTyped, HostAssumption DEF LoseResource, QueueTyped
  <2>3. PoolTyped'
    BY <1>32, Kinds, PostTyped, HostAssumption DEF LoseResource, PoolTyped
  <2>4. WorkTyped'
    BY <1>32, Kinds, PostTyped, HostAssumption DEF LoseResource, WorkTyped
  <2>. QED
    BY <2>1, <2>2, <2>3, <2>4 DEF TypeOK
<1>. QED
  BY <1>1, <1>2, <1>3, <1>4, <1>5, <1>6, <1>7, <1>8, <1>9, <1>10, <1>11, <1>12,
     <1>13, <1>14, <1>15, <1>16, <1>17, <1>18, <1>19, <1>20, <1>21, <1>22, <1>23,
     <1>24, <1>25, <1>26, <1>27, <1>28, <1>29, <1>30, <1>31, <1>32 DEF Next, Engine,
     Worker, Host, SetupKinds

(* The dispatch tables: who is in flight where, and which endpoints it has. *)
Tables == LeaseTable /\ Phases /\ ClaimsExact /\ EndpointExclusion

(* While the control worker prepares a run nothing is in flight.           *)
LEMMA SetupFirst ==
    ASSUME TypeOK, LeaseTable, SetupAlone, NEW s \in Slots,
           out[s] # <<>>, Head(out[s]) \in ReadyKinds
    PROVE  /\ s = ControlSlot /\ mode = "Queue" /\ pc = "events" /\ InFlight = {}
           /\ \A t \in Slots : busy[t] = None
<1>1. out[s] \in Seq(SignalKinds)
  BY DEF TypeOK, WorkTyped
<1>2. Has(out[s], ReadyKinds)
  BY <1>1 DEF Has
<1>3. s = ControlSlot /\ mode = "Queue" /\ pc = "events" /\ InFlight = {}
  BY <1>2 DEF SetupAlone
<1>4. ASSUME NEW t \in Slots, busy[t] # None PROVE FALSE
  BY <1>3, <1>4, Numbers DEF LeaseTable, InFlight, TypeOK, PoolTyped
<1>. QED
  BY <1>3, <1>4

LEMMA NothingBusy ==
    ASSUME TypeOK, LeaseTable, InFlight = {}
    PROVE  \A t \in Slots : busy[t] = None
BY Numbers DEF LeaseTable, InFlight, TypeOK, PoolTyped

LEMMA PhasesInPump == Phases /\ pc = "pump" => mode = "Queue" /\ iface
BY DEF Phases

(* Every step keeps the dispatch tables in agreement.                     *)
LEMMA TablesStep ==
    ASSUME TypeOK, OneAnswerPerLease, ReportsBeforeAnswer, SetupAlone, Tables, Next
    PROVE  Tables'
<1>. USE DEF Tables
<1>1. CASE OnActiveControllersReady
  <2>1. /\ InFlight = {} /\ \A t \in Slots : busy[t] = None
        /\ mode = "Queue" /\ pc = "events"
    BY <1>1, SetupFirst, Numbers DEF OnActiveControllersReady, TakeSignal, ReadyKinds
  <2>2. UNCHANGED <<busy, poolSize>>
    BY <1>1 DEF OnActiveControllersReady
  <2>3. \/ FinishRun(TRUE)
        \/ pc' = "pump" /\ UNCHANGED <<claims, iface, mode, inFlight>>
        \/ UNCHANGED <<claims, iface, mode, pc, inFlight>>
    BY <1>1 DEF OnActiveControllersReady, FinishSetup
  <2>4. CASE FinishRun(TRUE)
    BY <2>1, <2>2, <2>4 DEF FinishRun, LeaseTable, Phases, ClaimsExact, EndpointExclusion,
       InFlight
  <2>5. CASE ~FinishRun(TRUE)
    BY <2>1, <2>2, <2>3, <2>5 DEF LeaseTable, Phases, ClaimsExact, EndpointExclusion,
       InFlight
  <2>. QED
    BY <2>4, <2>5
<1>2. ASSUME NEW unchanged \in SUBSET pending, OnFastPathReady(unchanged) PROVE
             Tables'
  <2>1. /\ InFlight = {} /\ \A t \in Slots : busy[t] = None
        /\ mode = "Queue" /\ pc = "events"
    BY <1>2, SetupFirst, Numbers DEF OnFastPathReady, TakeSignal, ReadyKinds
  <2>2. UNCHANGED <<busy, poolSize>>
    BY <1>2 DEF OnFastPathReady
  <2>3. \/ FinishRun(TRUE)
        \/ pc' = "pump" /\ UNCHANGED <<claims, iface, mode, inFlight>>
    BY <1>2 DEF OnFastPathReady, FinishSetup
  <2>4. CASE FinishRun(TRUE)
    BY <2>1, <2>2, <2>4 DEF FinishRun, LeaseTable, Phases, ClaimsExact, EndpointExclusion,
       InFlight
  <2>5. CASE ~FinishRun(TRUE)
    BY <2>1, <2>2, <2>3, <2>5 DEF LeaseTable, Phases, ClaimsExact, EndpointExclusion,
       InFlight
  <2>. QED
    BY <2>4, <2>5
<1>3. ASSUME NEW m \in Mappings, PumpLost(m) PROVE Tables'
  BY <1>3 DEF PumpLost, LeaseTable, Phases, ClaimsExact, EndpointExclusion, InFlight
<1>4. ASSUME NEW m \in Mappings, PumpSkip(m) PROVE Tables'
  BY <1>4 DEF PumpSkip, LeaseTable, Phases, ClaimsExact, EndpointExclusion, InFlight
<1>5. ASSUME NEW m \in Mappings, NEW s \in Slots, PumpDispatch(m, s) PROVE Tables'
  <2>1. /\ busy[s] = None /\ s \in 1..poolSize
        /\ Ends(m) \cap claims = {} /\ pc = "pump" /\ mode = "Queue"
    BY <1>5, PhasesInPump DEF PumpDispatch, FreeSlots, Taking, Dispatchable, NextEligible, IsEligible
  <2>2. m \notin InFlight
    BY <2>1 DEF ClaimsExact, Ends
  <2>3. /\ busy' = [busy EXCEPT ![s] = m] /\ inFlight' = [inFlight EXCEPT ![m] = s]
        /\ claims' = claims \union Ends(m)
        /\ UNCHANGED <<iface, mode, pc, poolSize>>
    BY <1>5 DEF PumpDispatch, Dispatch
  <2>4. InFlight' = InFlight \union {m}
    BY <2>3, Numbers DEF InFlight, TypeOK, PoolTyped
  <2>5. LeaseTable'
    BY <2>1, <2>2, <2>3, Numbers DEF LeaseTable, InFlight, TypeOK, PoolTyped, Slots
  <2>6. Phases'
    BY <2>1, <2>3 DEF Phases
  <2>7. ClaimsExact'
    BY <2>1, <2>3, <2>4 DEF ClaimsExact, Ends
  <2>8. EndpointExclusion'
    BY <2>1, <2>4 DEF ClaimsExact, EndpointExclusion, Ends
  <2>. QED
    BY <2>5, <2>6, <2>7, <2>8
<1>6. CASE PumpWait
  BY <1>6, PhasesInPump DEF PumpWait, LoopDone, LeaseTable, Phases, ClaimsExact,
     EndpointExclusion, InFlight
<1>7. CASE PumpResolutionPass
  BY <1>7, PhasesInPump DEF PumpResolutionPass, RePass, Prime, Drained, LoopDone,
     LeaseTable, Phases, ClaimsExact, EndpointExclusion, InFlight
<1>8. CASE PumpFixpointPass
  BY <1>8, PhasesInPump DEF PumpFixpointPass, RePass, Prime, Drained, LoopDone,
     LeaseTable, Phases, ClaimsExact, EndpointExclusion, InFlight
<1>9. CASE PumpFinish
  <2>1. InFlight = {} /\ \A t \in Slots : busy[t] = None
    BY <1>9, NothingBusy DEF PumpFinish, Drained
  <2>. QED
    BY <1>9, <2>1 DEF PumpFinish, FinishRun, LeaseTable, Phases, ClaimsExact,
       EndpointExclusion, InFlight
<1>10. CASE PumpCancelled
  <2>1. CASE MustDrain
    BY <1>10, <2>1, PhasesInPump DEF PumpCancelled, LeaseTable, Phases, ClaimsExact,
       EndpointExclusion, InFlight
  <2>2. CASE ~MustDrain
    <3>1. InFlight = {} /\ \A t \in Slots : busy[t] = None
      BY <2>2, NothingBusy DEF MustDrain
    <3>. QED
      BY <1>10, <2>2, <3>1 DEF PumpCancelled, FinishRun, LeaseTable, Phases, ClaimsExact,
         EndpointExclusion, InFlight
  <2>. QED
    BY <2>1, <2>2
<1>11. ASSUME NEW s \in Slots, CompleteQueued(s) PROVE Tables'
  <2>. DEFINE m == busy[s]
  <2>1. m \in Mappings /\ inFlight[m] = s /\ m \in InFlight
    BY <1>11, SignalFromLease, Numbers DEF CompleteQueued, TakeSignal, LeaseTable, InFlight
  <2>2. /\ busy' = [busy EXCEPT ![s] = None] /\ inFlight' = [inFlight EXCEPT ![m] = None]
        /\ claims' = claims \ Ends(m) /\ mode = "Queue" /\ pc' = "pump"
        /\ UNCHANGED <<iface, mode, poolSize>>
    BY <1>11 DEF CompleteQueued, Released, ClaimsWithout
  <2>3. InFlight' = InFlight \ {m}
    BY <2>1, <2>2 DEF InFlight, TypeOK, PoolTyped
  <2>4. LeaseTable'
    BY <2>1, <2>2 DEF LeaseTable, InFlight, TypeOK, PoolTyped
  <2>5. Phases'
    BY <2>2 DEF Phases
  <2>6. ClaimsExact'
    <3>1. claims = UNION {Ends(k) : k \in InFlight}
      BY <2>2 DEF ClaimsExact
    <3>2. \A k \in InFlight \ {m} : Ends(k) \cap Ends(m) = {}
      BY <2>1 DEF EndpointExclusion
    <3>3. ASSUME NEW e
          PROVE  e \in claims \ Ends(m) <=> \E k \in InFlight \ {m} : e \in Ends(k)
      BY <2>1, <3>1, <3>2
    <3>4. claims \ Ends(m) = UNION {Ends(k) : k \in InFlight \ {m}}
      BY <3>3
    <3>. QED
      BY <2>2, <2>3, <3>4 DEF ClaimsExact, Ends
  <2>7. EndpointExclusion'
    BY <2>3 DEF EndpointExclusion, Ends
  <2>. QED
    BY <2>4, <2>5, <2>6, <2>7
<1>12. ASSUME NEW s \in Slots, CompleteAndRedispatch(s) PROVE Tables'
  <2>. DEFINE m == busy[s]
  <2>1. m \in Mappings /\ inFlight[m] = s /\ m \in InFlight /\ s \in 1..poolSize
    BY <1>12, SignalFromLease, Numbers
       DEF CompleteAndRedispatch, TakeSignal, LeaseTable, InFlight, Slots
  <2>2. PICK t \in FreeSlots \union {s} :
           /\ busy' = [busy EXCEPT ![s] = None, ![t] = m]
           /\ inFlight' = [inFlight EXCEPT ![m] = t]
    BY <1>12 DEF CompleteAndRedispatch
  <2>3. mode = "Single" /\ UNCHANGED <<iface, mode, pc, poolSize>>
    BY <1>12 DEF CompleteAndRedispatch
  <2>4. t \in Slots /\ t \in 1..poolSize /\ (t = s \/ busy[t] = None)
    BY <2>1, <2>2, PoolSlots DEF FreeSlots
  <2>5. InFlight' = InFlight
    BY <2>1, <2>2, <2>4, Numbers DEF InFlight, TypeOK, PoolTyped
  <2>6. InFlight = {m}
    BY <2>1, <2>3 DEF Phases
  <2>7. LeaseTable'
    BY <2>1, <2>2, <2>3, <2>4, <2>5, <2>6, Numbers DEF LeaseTable, InFlight, TypeOK, PoolTyped
  <2>8. Phases' /\ ClaimsExact' /\ EndpointExclusion'
    BY <2>3, <2>5, <2>6 DEF Phases, ClaimsExact, EndpointExclusion
  <2>. QED
    BY <2>7, <2>8
<1>13. ASSUME NEW s \in Slots, CompleteSingle(s) PROVE Tables'
  <2>. DEFINE m == busy[s]
  <2>1. m \in Mappings /\ inFlight[m] = s /\ m \in InFlight
    BY <1>13, SignalFromLease, Numbers DEF CompleteSingle, TakeSignal, LeaseTable, InFlight
  <2>2. ASSUME NEW t \in Slots, t # s PROVE busy[t] = None
    BY <1>13, <2>1, <2>2, Numbers DEF CompleteSingle, Phases, LeaseTable, InFlight, TypeOK, PoolTyped
  <2>3. /\ busy' = [busy EXCEPT ![s] = None] /\ inFlight' = [k \in Mappings |-> None]
        /\ claims' = {} /\ iface' = FALSE /\ mode' = "None" /\ pc' = "events"
    BY <1>13 DEF CompleteSingle, FinishRun
  <2>4. InFlight' = {} /\ \A t \in Slots : busy'[t] = None
    BY <2>2, <2>3 DEF InFlight, TypeOK, PoolTyped
  <2>. QED
    BY <2>3, <2>4 DEF LeaseTable, Phases, ClaimsExact, EndpointExclusion
<1>14. ASSUME NEW s \in Slots, OnConflictDetected(s) PROVE Tables'
  BY <1>14 DEF OnConflictDetected, TakeSignal, LeaseTable, Phases, ClaimsExact,
     EndpointExclusion, InFlight
<1>15. ASSUME NEW s \in Slots, OnConflictPauseRequested(s) PROVE Tables'
  BY <1>15 DEF OnConflictPauseRequested, TakeSignal, LeaseTable, Phases,
     ClaimsExact, EndpointExclusion, InFlight
<1>16. ASSUME NEW answered \in SUBSET toPresent, PresentPendingConflicts(answered)
             PROVE Tables'
  BY <1>16 DEF PresentPendingConflicts, LeaseTable, Phases, ClaimsExact,
     EndpointExclusion, InFlight
<1>17. CASE OnCancelObserved
  BY <1>17 DEF OnCancelObserved, CancelEverything, LeaseTable, Phases, ClaimsExact,
     EndpointExclusion, InFlight
<1>18. ASSUME NEW s \in Slots, WorkerProcess(s) PROVE Tables'
  BY <1>18 DEF WorkerProcess, LeaseTable, Phases, ClaimsExact, EndpointExclusion,
     InFlight
<1>19. ASSUME NEW s \in Slots, WorkerObserve(s) PROVE Tables'
  BY <1>19 DEF WorkerObserve, LeaseTable, Phases, ClaimsExact, EndpointExclusion,
     InFlight
<1>20. ASSUME NEW s \in Slots, WorkerResume(s) PROVE Tables'
  BY <1>20 DEF WorkerResume, LeaseTable, Phases, ClaimsExact, EndpointExclusion,
     InFlight
<1>21. ASSUME NEW s \in Slots, WorkerPause(s) PROVE Tables'
  BY <1>21 DEF WorkerPause, LeaseTable, Phases, ClaimsExact, EndpointExclusion,
     InFlight
<1>22. ASSUME NEW s \in Slots, WorkerDefer(s) PROVE Tables'
  BY <1>22 DEF WorkerDefer, LeaseTable, Phases, ClaimsExact, EndpointExclusion,
     InFlight
<1>23. ASSUME NEW s \in Slots, WorkerAbandon(s) PROVE Tables'
  BY <1>23 DEF WorkerAbandon, LeaseTable, Phases, ClaimsExact, EndpointExclusion,
     InFlight
<1>24. ASSUME NEW s \in Slots, NEW r \in Results, WorkerComplete(s, r) PROVE Tables'
  BY <1>24 DEF WorkerComplete, LeaseTable, Phases, ClaimsExact, EndpointExclusion,
     InFlight
<1>25. ASSUME NEW kind \in SetupKinds, WorkerSetup(kind) PROVE Tables'
  BY <1>25 DEF WorkerSetup, LeaseTable, Phases, ClaimsExact, EndpointExclusion,
     InFlight
<1>26. ASSUME NEW r \in Requests, StartQueueRun(r) PROVE Tables'
  <2>1. InFlight = {} /\ claims = {} /\ \A t \in Slots : busy[t] = None
    BY <1>26, NothingBusy DEF StartQueueRun, Phases
  <2>2. iface' = TRUE /\ mode' = "Queue" /\ UNCHANGED <<busy, inFlight, claims>>
    BY <1>26 DEF StartQueueRun, BeginRun, Prime
  <2>. QED
    BY <2>1, <2>2 DEF LeaseTable, Phases, ClaimsExact, EndpointExclusion, InFlight
<1>27. ASSUME NEW r \in Requests, NEW m \in Mappings, StartSingleRun(r, m) PROVE
             Tables'
  <2>1. InFlight = {} /\ claims = {} /\ \A t \in Slots : busy[t] = None
    BY <1>27, NothingBusy DEF StartSingleRun, SinglePreamble, Phases
  <2>2. PICK s \in 1..poolSize' :
           busy' = [busy EXCEPT ![s] = m] /\ inFlight' = [inFlight EXCEPT ![m] = s]
    BY <1>27 DEF StartSingleRun, Dispatch
  <2>3. s \in Slots
    <3>1. poolSize' \in Slots
      BY <1>27, Numbers, SizesAssumption DEF StartSingleRun, GrowPool, TypeOK, PoolTyped, Slots
    <3>. QED
      BY <3>1, SizesAssumption DEF Slots
  <2>4. iface' = TRUE /\ mode' = "Single" /\ pc' = "events"
    BY <1>27 DEF StartSingleRun, SinglePreamble, BeginRun
  <2>5. InFlight' = {m}
    BY <2>1, <2>2, <2>3, Numbers DEF InFlight, TypeOK, PoolTyped
  <2>6. LeaseTable'
    BY <2>1, <2>2, <2>3, <2>5, Numbers DEF LeaseTable, TypeOK, PoolTyped
  <2>. QED
    BY <2>4, <2>5, <2>6 DEF Phases, ClaimsExact, EndpointExclusion
<1>28. ASSUME NEW r \in Requests, NEW m \in Mappings, RefuseSingleRun(r, m) PROVE
             Tables'
  <2>1. InFlight = {} /\ claims = {} /\ \A t \in Slots : busy[t] = None
    BY <1>28, NothingBusy DEF RefuseSingleRun, SinglePreamble, Phases
  <2>. QED
    BY <1>28, <2>1 DEF RefuseSingleRun, SinglePreamble, LeaseTable, Phases, ClaimsExact,
       EndpointExclusion, InFlight
<1>29. ASSUME NEW m \in Togglable, SetMappingEnabled(m) PROVE Tables'
  BY <1>29 DEF SetMappingEnabled, LeaseTable, Phases, ClaimsExact,
     EndpointExclusion, InFlight
<1>30. CASE CancelFuture
  BY <1>30 DEF CancelFuture, LeaseTable, Phases, ClaimsExact, EndpointExclusion,
     InFlight
<1>31. CASE CancelWithReason
  BY <1>31 DEF CancelWithReason, CancelEverything, LeaseTable, Phases, ClaimsExact,
     EndpointExclusion, InFlight
<1>32. ASSUME NEW r \in Losable, LoseResource(r) PROVE Tables'
  BY <1>32 DEF LoseResource, LeaseTable, Phases, ClaimsExact, EndpointExclusion,
     InFlight
<1>. QED
  BY <1>1, <1>2, <1>3, <1>4, <1>5, <1>6, <1>7, <1>8, <1>9, <1>10, <1>11, <1>12,
     <1>13, <1>14, <1>15, <1>16, <1>17, <1>18, <1>19, <1>20, <1>21, <1>22, <1>23,
     <1>24, <1>25, <1>26, <1>27, <1>28, <1>29, <1>30, <1>31, <1>32 DEF Next, Engine,
     Worker, Host, SetupKinds

(* What a queue holds of the kinds E after event e was posted, or taken.    *)
Posted(q, r, e, E) ==
    /\ Has(r, E) <=> Has(q, E) \/ e \in E
    /\ AtMostOnce(q, E) /\ (e \in E => ~Has(q, E)) => AtMostOnce(r, E)
Taken(q, r, e, E) ==
    /\ e \notin E => (Has(r, E) <=> Has(q, E))
    /\ e \in E => Has(q, E) /\ (AtMostOnce(q, E) => ~Has(r, E))
    /\ AtMostOnce(q, E) => AtMostOnce(r, E)

LEMMA MailPosted ==
    ASSUME WorkTyped, NEW s \in Slots, NEW e \in MailKinds,
           mail' = [mail EXCEPT ![s] = Append(@, e)]
    PROVE  /\ \A t \in Slots : t # s => mail'[t] = mail[t]
           /\ Posted(mail[s], mail'[s], e, {"process"})
           /\ Posted(mail[s], mail'[s], e, SetupKinds)
<1>1. mail[s] \in Seq(MailKinds) /\ mail'[s] = Append(mail[s], e)
  BY DEF WorkTyped
<1>2. ASSUME NEW E PROVE Posted(mail[s], mail'[s], e, E)
  BY <1>1, HasAppend, OnceAppend DEF Posted
<1>. QED
  BY <1>2 DEF WorkTyped

LEMMA MailTaken ==
    ASSUME WorkTyped, NEW s \in Slots, NEW e, TakeMail(s, e)
    PROVE  /\ \A t \in Slots : t # s => mail'[t] = mail[t]
           /\ Taken(mail[s], mail'[s], e, {"process"})
           /\ Taken(mail[s], mail'[s], e, SetupKinds)
<1>1. /\ mail[s] \in Seq(MailKinds) /\ mail[s] # <<>>
      /\ Head(mail[s]) = e /\ mail'[s] = Tail(mail[s])
  BY DEF WorkTyped, TakeMail
<1>2. ASSUME NEW E PROVE Taken(mail[s], mail'[s], e, E)
  BY <1>1, HasTail DEF Taken
<1>. QED
  BY <1>2 DEF WorkTyped, TakeMail

LEMMA OutEmitted ==
    ASSUME WorkTyped, NEW s \in Slots, NEW e \in SignalKinds, Emit(s, e)
    PROVE  /\ \A t \in Slots : t # s => out'[t] = out[t]
           /\ Posted(out[s], out'[s], e, {"completed"})
           /\ Posted(out[s], out'[s], e, Reports)
           /\ Posted(out[s], out'[s], e, ReadyKinds)
           /\ (e \notin Reports \/ ~Has(out[s], {"completed"})) /\ ReportsFirst(out[s])
                 => ReportsFirst(out'[s])
<1>1. out[s] \in Seq(SignalKinds) /\ out'[s] = Append(out[s], e)
  BY DEF WorkTyped, Emit
<1>2. ASSUME NEW E PROVE Posted(out[s], out'[s], e, E)
  BY <1>1, HasAppend, OnceAppend DEF Posted
<1>. QED
  BY <1>1, <1>2, ReportsOrder DEF WorkTyped, Emit

LEMMA OutTaken ==
    ASSUME WorkTyped, NEW s \in Slots, NEW e, TakeSignal(s, e)
    PROVE  /\ \A t \in Slots : t # s => out'[t] = out[t]
           /\ Taken(out[s], out'[s], e, {"completed"})
           /\ Taken(out[s], out'[s], e, Reports)
           /\ Taken(out[s], out'[s], e, ReadyKinds)
           /\ Has(out'[s], Reports) => Has(out[s], Reports)
           /\ ReportsFirst(out[s]) => /\ ReportsFirst(out'[s])
                                      /\ e = "completed" => ~Has(out'[s], Reports)
<1>1. /\ out[s] \in Seq(SignalKinds) /\ out[s] # <<>>
      /\ Head(out[s]) = e /\ out'[s] = Tail(out[s])
  BY DEF WorkTyped, TakeSignal
<1>2. ASSUME NEW E PROVE Taken(out[s], out'[s], e, E) /\ (Has(out'[s], E) => Has(out[s], E))
  BY <1>1, HasTail DEF Taken
<1>. QED
  BY <1>1, <1>2, ReportsOrder DEF WorkTyped, TakeSignal

LEMMA MailObserved ==
    ASSUME WorkTyped, NEW s \in Slots, mail'[s] \in {mail[s], Post(mail[s], "observe")}
    PROVE  /\ Has(mail'[s], {"process"}) <=> Has(mail[s], {"process"})
           /\ Has(mail'[s], SetupKinds) <=> Has(mail[s], SetupKinds)
           /\ AtMostOnce(mail[s], {"process"}) => AtMostOnce(mail'[s], {"process"})
           /\ AtMostOnce(mail[s], SetupKinds) => AtMostOnce(mail'[s], SetupKinds)
<1>1. mail[s] \in Seq(MailKinds)
  BY DEF WorkTyped
<1>2. "observe" \notin {"process"} /\ "observe" \notin SetupKinds
  BY DEF SetupKinds
<1>. QED
  BY <1>1, <1>2, PostTyped

LEMMA Apart ==
    /\ \A e \in {"observe", "resume"} : e \notin {"process"} /\ e \notin SetupKinds
    /\ "process" \in {"process"} /\ "process" \notin SetupKinds
    /\ \A e \in SetupKinds : e \notin {"process"}
    /\ \A e \in {"conflict", "pause"} :
          e \in Reports /\ e \notin {"completed"} /\ e \notin ReadyKinds
    /\ "completed" \in {"completed"} /\ "completed" \notin Reports
    /\ "completed" \notin ReadyKinds
    /\ \A e \in ReadyKinds : e \notin {"completed"} /\ e \notin Reports
BY DEF SetupKinds, ReadyKinds, Reports

(* What the queues between engine and workers hold.                        *)
Queues == (\A t \in Slots : AnswerOwed(t)) /\ ReportsBeforeAnswer /\ SetupAlone

(* Every step keeps what the queues hold in agreement with the leases.      *)
LEMMA QueuesStep ==
    ASSUME TypeOK, Tables, Queues, OneAnswerPerLease, Next
    PROVE  Queues'
<1>. USE DEF Queues, Tables, TypeOK
<1>1. CASE OnActiveControllersReady
  <2>1. /\ InFlight = {} /\ \A t \in Slots : busy[t] = None
        /\ mode = "Queue" /\ pc = "events"
    BY <1>1, SetupFirst, Numbers DEF OnActiveControllersReady, TakeSignal, ReadyKinds
  <2>2. \A t \in Slots : AnswerOwed(t)'
    BY <1>1, Kinds, Numbers, OutTaken, MailPosted, <2>1 DEF OnActiveControllersReady,
       FinishSetup, FinishRun, Posted, Taken, AnswerOwed, Asked, Working, Finished,
       SetupKinds, ReadyKinds, Reports
  <2>3. ReportsBeforeAnswer'
    BY <1>1, Kinds, Numbers, OutTaken, MailPosted, <2>1 DEF OnActiveControllersReady,
       FinishSetup, FinishRun, Posted, Taken, ReportsBeforeAnswer, Reports,
       SetupKinds, ReadyKinds
  <2>4. SetupAlone'
    BY <1>1, Kinds, Numbers, OutTaken, MailPosted, <2>1 DEF OnActiveControllersReady,
       FinishSetup, FinishRun, Posted, Taken, SetupAlone, SetupKinds, ReadyKinds,
       InFlight, Reports
  <2>. QED
    BY <2>2, <2>3, <2>4
<1>2. ASSUME NEW unchanged \in SUBSET pending, OnFastPathReady(unchanged) PROVE
             Queues'
  <2>1. /\ InFlight = {} /\ \A t \in Slots : busy[t] = None
        /\ mode = "Queue" /\ pc = "events"
    BY <1>2, SetupFirst, Numbers DEF OnFastPathReady, TakeSignal, ReadyKinds
  <2>2. \A t \in Slots : AnswerOwed(t)'
    BY <1>2, Kinds, Numbers, OutTaken, MailPosted, <2>1 DEF OnFastPathReady,
       FinishSetup, FinishRun, Posted, Taken, AnswerOwed, Asked, Working, Finished,
       SetupKinds, ReadyKinds, Reports
  <2>3. ReportsBeforeAnswer'
    BY <1>2, Kinds, Numbers, OutTaken, MailPosted, <2>1 DEF OnFastPathReady,
       FinishSetup, FinishRun, Posted, Taken, ReportsBeforeAnswer, Reports,
       SetupKinds, ReadyKinds
  <2>4. SetupAlone'
    BY <1>2, Kinds, Numbers, OutTaken, MailPosted, <2>1 DEF OnFastPathReady,
       FinishSetup, FinishRun, Posted, Taken, SetupAlone, SetupKinds, ReadyKinds,
       InFlight, Reports
  <2>. QED
    BY <2>2, <2>3, <2>4
<1>3. ASSUME NEW m \in Mappings, PumpLost(m) PROVE Queues'
  BY <1>3 DEF PumpLost, AnswerOwed, Asked, Working, Finished, ReportsBeforeAnswer,
     SetupAlone, InFlight
<1>4. ASSUME NEW m \in Mappings, PumpSkip(m) PROVE Queues'
  BY <1>4 DEF PumpSkip, AnswerOwed, Asked, Working, Finished, ReportsBeforeAnswer,
     SetupAlone, InFlight
<1>5. ASSUME NEW m \in Mappings, NEW s \in Slots, PumpDispatch(m, s) PROVE Queues'
  <2>1. \A t \in Slots : ~Has(mail[t], SetupKinds) /\ ~Has(out[t], ReadyKinds)
    BY <1>5 DEF PumpDispatch, Taking, SetupAlone
  <2>2. /\ mail' = [mail EXCEPT ![s] = Append(mail[s], "process")]
        /\ busy[s] = None /\ busy'[s] # None
        /\ \A t \in Slots : t # s => busy'[t] = busy[t]
        /\ UNCHANGED <<st, out>>
    BY <1>5, Numbers, <2>1 DEF PumpDispatch, Dispatch, FreeSlots, PoolTyped
  <2>3. \A t \in Slots : AnswerOwed(t)'
    BY <2>1, <2>2, Apart, Kinds, Numbers, MailPosted DEF Posted, AnswerOwed, Asked,
       Working, Finished
  <2>4. ReportsBeforeAnswer'
    BY <2>1, <2>2, Apart, Kinds, Numbers, MailPosted DEF Posted,
       ReportsBeforeAnswer, AnswerOwed, Working, Finished
  <2>5. SetupAlone'
    BY <2>1, <2>2, Apart, Kinds, Numbers, MailPosted DEF Posted, SetupAlone,
       InFlight
  <2>. QED
    BY <2>3, <2>4, <2>5
<1>6. CASE PumpWait
  <2>1. \A t \in Slots : ~Has(mail[t], SetupKinds) /\ ~Has(out[t], ReadyKinds)
    BY <1>6 DEF PumpWait, LoopDone, SetupAlone
  <2>2. \A t \in Slots : AnswerOwed(t)'
    BY <1>6, <2>1 DEF PumpWait, LoopDone, AnswerOwed, Asked, Working, Finished
  <2>3. ReportsBeforeAnswer'
    BY <1>6, <2>1 DEF PumpWait, LoopDone, ReportsBeforeAnswer, Reports
  <2>4. SetupAlone'
    BY <1>6, <2>1 DEF PumpWait, LoopDone, SetupAlone, SetupKinds, ReadyKinds, InFlight
  <2>. QED
    BY <2>2, <2>3, <2>4
<1>7. CASE PumpResolutionPass
  <2>1. \A t \in Slots : ~Has(mail[t], SetupKinds) /\ ~Has(out[t], ReadyKinds)
    BY <1>7 DEF PumpResolutionPass, Drained, LoopDone, SetupAlone
  <2>2. \A t \in Slots : AnswerOwed(t)'
    BY <1>7, <2>1 DEF PumpResolutionPass, RePass, AnswerOwed, Asked, Working, Finished
  <2>3. ReportsBeforeAnswer'
    BY <1>7, <2>1 DEF PumpResolutionPass, RePass, ReportsBeforeAnswer, Reports
  <2>4. SetupAlone'
    BY <1>7, <2>1 DEF PumpResolutionPass, RePass, SetupAlone, SetupKinds, ReadyKinds,
       InFlight
  <2>. QED
    BY <2>2, <2>3, <2>4
<1>8. CASE PumpFixpointPass
  <2>1. \A t \in Slots : ~Has(mail[t], SetupKinds) /\ ~Has(out[t], ReadyKinds)
    BY <1>8 DEF PumpFixpointPass, Drained, LoopDone, SetupAlone
  <2>2. \A t \in Slots : AnswerOwed(t)'
    BY <1>8, <2>1 DEF PumpFixpointPass, RePass, AnswerOwed, Asked, Working, Finished
  <2>3. ReportsBeforeAnswer'
    BY <1>8, <2>1 DEF PumpFixpointPass, RePass, ReportsBeforeAnswer, Reports
  <2>4. SetupAlone'
    BY <1>8, <2>1 DEF PumpFixpointPass, RePass, SetupAlone, SetupKinds, ReadyKinds,
       InFlight
  <2>. QED
    BY <2>2, <2>3, <2>4
<1>9. CASE PumpFinish
  <2>1. \A t \in Slots : ~Has(mail[t], SetupKinds) /\ ~Has(out[t], ReadyKinds)
    BY <1>9 DEF PumpFinish, Drained, LoopDone, SetupAlone
  <2>2. \A t \in Slots : AnswerOwed(t)'
    BY <1>9, <2>1 DEF PumpFinish, AnswerOwed, Asked, Working, Finished
  <2>3. ReportsBeforeAnswer'
    BY <1>9, <2>1 DEF PumpFinish, ReportsBeforeAnswer, Reports
  <2>4. SetupAlone'
    BY <1>9, <2>1 DEF PumpFinish, SetupAlone, SetupKinds, ReadyKinds, InFlight
  <2>. QED
    BY <2>2, <2>3, <2>4
<1>10. CASE PumpCancelled
  <2>1. \A t \in Slots : ~Has(mail[t], SetupKinds) /\ ~Has(out[t], ReadyKinds)
    BY <1>10 DEF PumpCancelled,  SetupAlone
  <2>2. \A t \in Slots : AnswerOwed(t)'
    BY <1>10, <2>1 DEF PumpCancelled, AnswerOwed, Asked, Working, Finished
  <2>3. ReportsBeforeAnswer'
    BY <1>10, <2>1 DEF PumpCancelled, ReportsBeforeAnswer, Reports
  <2>4. SetupAlone'
    BY <1>10, <2>1 DEF PumpCancelled, SetupAlone, SetupKinds, ReadyKinds, InFlight
  <2>. QED
    BY <2>2, <2>3, <2>4
<1>11. ASSUME NEW s \in Slots, CompleteQueued(s) PROVE Queues'
  <2>1. busy[s] \in Mappings /\ inFlight[busy[s]] = s /\ InFlight # {}
    BY <1>11, SignalFromLease, Numbers DEF CompleteQueued, TakeSignal, LeaseTable, InFlight
  <2>2. \A t \in Slots : ~Has(mail[t], SetupKinds) /\ ~Has(out[t], ReadyKinds)
    BY <2>1 DEF SetupAlone
  <2>3. /\ TakeSignal(s, "completed")
        /\ busy'[s] = None
        /\ \A t \in Slots : t # s => busy'[t] = busy[t]
        /\ UNCHANGED <<st, mail>>
    BY <1>11, <2>1, <2>2 DEF CompleteQueued, Released, PoolTyped
  <2>4. \A t \in Slots : AnswerOwed(t)'
    BY <2>1, <2>2, <2>3, Apart, Kinds, Numbers, OutTaken DEF Taken, AnswerOwed,
       Asked, Working, Finished
  <2>5. ReportsBeforeAnswer'
    BY <2>1, <2>2, <2>3, Apart, Kinds, Numbers, OutTaken DEF Taken,
       ReportsBeforeAnswer, AnswerOwed, Working, Finished
  <2>6. SetupAlone'
    BY <2>1, <2>2, <2>3, Apart, Kinds, Numbers, OutTaken DEF Taken, SetupAlone,
       InFlight
  <2>. QED
    BY <2>4, <2>5, <2>6
<1>12. ASSUME NEW s \in Slots, CompleteAndRedispatch(s) PROVE Queues'
  <2>1. busy[s] \in Mappings /\ inFlight[busy[s]] = s /\ InFlight # {}
    BY <1>12, SignalFromLease, Numbers DEF CompleteAndRedispatch, TakeSignal, LeaseTable, InFlight
  <2>2. \A t \in Slots : ~Has(mail[t], SetupKinds) /\ ~Has(out[t], ReadyKinds)
    BY <2>1 DEF SetupAlone
  <2>3. PICK u \in FreeSlots \union {s} :
           /\ busy' = [busy EXCEPT ![s] = None, ![u] = busy[s]]
           /\ mail' = [mail EXCEPT ![u] = Append(mail[u], "process")]
    BY <1>12 DEF CompleteAndRedispatch
  <2>4. u \in Slots /\ (u = s \/ busy[u] = None)
    BY <2>3, PoolSlots DEF FreeSlots
  <2>5. /\ TakeSignal(s, "completed")
        /\ busy'[u] # None /\ (s # u => busy'[s] = None)
        /\ \A t \in Slots : t # s /\ t # u => busy'[t] = busy[t]
        /\ UNCHANGED st
    BY <1>12, Numbers, <2>1, <2>2, <2>3, <2>4 DEF CompleteAndRedispatch, PoolTyped
  <2>6. /\ \A t \in Slots : t # s => out'[t] = out[t]
        /\ Has(out[s], {"completed"}) /\ ~Has(out'[s], {"completed"})
        /\ AtMostOnce(out'[s], {"completed"}) /\ ~Has(out'[s], Reports)
        /\ ReportsFirst(out'[s])
        /\ Has(out'[s], ReadyKinds) <=> Has(out[s], ReadyKinds)
        /\ AtMostOnce(out[s], ReadyKinds) => AtMostOnce(out'[s], ReadyKinds)
    BY <2>5, Apart, OutTaken DEF Taken, AnswerOwed, ReportsBeforeAnswer
  <2>7. /\ \A t \in Slots : t # u => mail'[t] = mail[t]
        /\ Has(mail'[u], {"process"})
        /\ AtMostOnce(mail[u], {"process"}) /\ ~Has(mail[u], {"process"})
              => AtMostOnce(mail'[u], {"process"})
        /\ Has(mail'[u], SetupKinds) <=> Has(mail[u], SetupKinds)
        /\ AtMostOnce(mail[u], SetupKinds) => AtMostOnce(mail'[u], SetupKinds)
    BY <2>3, <2>4, Apart, Kinds, MailPosted DEF Posted
  <2>8. \A t \in Slots : AnswerOwed(t)'
    <3>1. ~Has(mail[s], {"process"}) /\ st[s] = "idle"
      BY <2>6 DEF AnswerOwed, Asked, Working, Finished
    <3>2. /\ ~Has(mail[u], {"process"}) /\ st[u] = "idle"
          /\ AtMostOnce(mail[u], {"process"}) /\ ~Has(out'[u], {"completed"})
          /\ AtMostOnce(out'[u], {"completed"})
      BY <2>4, <2>6, <3>1 DEF AnswerOwed, Asked, Working, Finished
    <3>3. AnswerOwed(u)'
      BY <2>4, <2>5, <2>7, <3>2 DEF AnswerOwed, Asked, Working, Finished
    <3>4. s # u => AnswerOwed(s)'
      BY <2>5, <2>6, <2>7, <3>1 DEF AnswerOwed, Asked, Working, Finished
    <3>5. ASSUME NEW t \in Slots, t # s, t # u PROVE AnswerOwed(t)'
      BY <2>5, <2>6, <2>7, <3>5 DEF AnswerOwed, Asked, Working, Finished
    <3>. QED
      BY <3>3, <3>4, <3>5
  <2>9. ReportsBeforeAnswer'
    BY <2>4, <2>5, <2>6 DEF ReportsBeforeAnswer
  <2>10. SetupAlone'
    BY <2>2, <2>4, <2>6, <2>7, Numbers DEF SetupAlone, InFlight
  <2>. QED
    BY <2>8, <2>9, <2>10
<1>13. ASSUME NEW s \in Slots, CompleteSingle(s) PROVE Queues'
  <2>1. busy[s] \in Mappings /\ inFlight[busy[s]] = s /\ InFlight # {}
    BY <1>13, SignalFromLease, Numbers DEF CompleteSingle, TakeSignal, LeaseTable, InFlight
  <2>2. \A t \in Slots : ~Has(mail[t], SetupKinds) /\ ~Has(out[t], ReadyKinds)
    BY <2>1 DEF SetupAlone
  <2>3. /\ TakeSignal(s, "completed")
        /\ busy'[s] = None
        /\ \A t \in Slots : t # s => busy'[t] = busy[t]
        /\ UNCHANGED <<st, mail>>
    BY <1>13, <2>1, <2>2 DEF CompleteSingle, PoolTyped
  <2>4. \A t \in Slots : AnswerOwed(t)'
    BY <2>1, <2>2, <2>3, Apart, Kinds, Numbers, OutTaken DEF Taken, AnswerOwed,
       Asked, Working, Finished
  <2>5. ReportsBeforeAnswer'
    BY <2>1, <2>2, <2>3, Apart, Kinds, Numbers, OutTaken DEF Taken,
       ReportsBeforeAnswer, AnswerOwed, Working, Finished
  <2>6. SetupAlone'
    BY <2>1, <2>2, <2>3, Apart, Kinds, Numbers, OutTaken DEF Taken, SetupAlone,
       InFlight
  <2>. QED
    BY <2>4, <2>5, <2>6
<1>14. ASSUME NEW s \in Slots, OnConflictDetected(s) PROVE Queues'
  <2>1. /\ TakeSignal(s, "conflict")
        /\ UNCHANGED <<mail, st, busy, mode, pc, inFlight>>
    BY <1>14 DEF OnConflictDetected
  <2>2. \A t \in Slots : AnswerOwed(t)'
    BY <2>1, Apart, Kinds, Numbers, OutTaken DEF Taken, AnswerOwed, Asked, Working,
       Finished
  <2>3. ReportsBeforeAnswer'
    BY <2>1, Apart, Kinds, Numbers, OutTaken DEF Taken, ReportsBeforeAnswer,
       AnswerOwed, Working, Finished
  <2>4. SetupAlone'
    BY <2>1, Apart, Kinds, Numbers, OutTaken DEF Taken, SetupAlone, InFlight
  <2>. QED
    BY <2>2, <2>3, <2>4
<1>15. ASSUME NEW s \in Slots, OnConflictPauseRequested(s) PROVE Queues'
  <2>1. /\ TakeSignal(s, "pause")
        /\ mail' = [mail EXCEPT ![ControlSlot] = Append(mail[ControlSlot], "resume")]
        /\ UNCHANGED <<st, busy, mode, pc, inFlight>>
    BY <1>15 DEF OnConflictPauseRequested
  <2>2. /\ \A t \in Slots : Has(mail'[t], {"process"}) <=> Has(mail[t], {"process"})
        /\ \A t \in Slots : Has(mail'[t], SetupKinds) <=> Has(mail[t], SetupKinds)
        /\ \A t \in Slots : AtMostOnce(mail[t], {"process"})
              => AtMostOnce(mail'[t], {"process"})
        /\ \A t \in Slots : AtMostOnce(mail[t], SetupKinds)
              => AtMostOnce(mail'[t], SetupKinds)
    BY <2>1, Apart, Kinds, Numbers, MailPosted DEF Posted
  <2>3. /\ \A t \in Slots : Has(out'[t], {"completed"}) <=> Has(out[t], {"completed"})
        /\ \A t \in Slots : Has(out'[t], ReadyKinds) <=> Has(out[t], ReadyKinds)
        /\ \A t \in Slots : AtMostOnce(out[t], {"completed"})
              => AtMostOnce(out'[t], {"completed"})
        /\ \A t \in Slots : AtMostOnce(out[t], ReadyKinds)
              => AtMostOnce(out'[t], ReadyKinds)
        /\ \A t \in Slots : Has(out'[t], Reports) => Has(out[t], Reports)
        /\ \A t \in Slots : ReportsFirst(out[t]) => ReportsFirst(out'[t])
    BY <2>1, Apart, OutTaken DEF Taken
  <2>4. \A t \in Slots : AnswerOwed(t)'
    BY <2>1, <2>2, <2>3 DEF AnswerOwed, Asked, Working, Finished
  <2>5. ReportsBeforeAnswer'
    BY <2>1, <2>3 DEF ReportsBeforeAnswer
  <2>6. SetupAlone'
    BY <2>1, <2>2, <2>3, Numbers DEF SetupAlone, InFlight
  <2>. QED
    BY <2>4, <2>5, <2>6
<1>16. ASSUME NEW answered \in SUBSET toPresent, PresentPendingConflicts(answered)
             PROVE Queues'
  BY <1>16 DEF PresentPendingConflicts, AnswerOwed, Asked, Working, Finished,
     ReportsBeforeAnswer, SetupAlone, InFlight
<1>17. CASE OnCancelObserved
  <2>1. \A t \in Slots : mail'[t] \in {mail[t], Post(mail[t], "observe")}
    BY <1>17 DEF OnCancelObserved, CancelEverything, PostAll, WorkTyped
  <2>2. UNCHANGED <<out, st, busy, mode, pc, inFlight>>
    BY <1>17 DEF OnCancelObserved, CancelEverything
  <2>3. \A t \in Slots : AnswerOwed(t)'
    BY <2>1, <2>2, MailObserved DEF AnswerOwed, Asked, Working, Finished
  <2>4. ReportsBeforeAnswer'
    BY <2>2 DEF ReportsBeforeAnswer
  <2>5. SetupAlone'
    BY <2>1, <2>2, Numbers, MailObserved DEF SetupAlone, SetupKinds, InFlight
  <2>. QED
    BY <2>3, <2>4, <2>5
<1>18. ASSUME NEW s \in Slots, WorkerProcess(s) PROVE Queues'
  <2>1. /\ TakeMail(s, "process") /\ st[s] = "idle"
        /\ \A t \in Slots : t # s => st'[t] = st[t]
        /\ \/ Emit(s, "completed") /\ st'[s] = "idle"
           \/ out' = out /\ st'[s] = "running"
        /\ UNCHANGED <<busy, mode, pc, inFlight>>
    BY <1>18 DEF WorkerProcess, Complete, WorkTyped
  <2>2. \A t \in Slots : AnswerOwed(t)'
    BY <2>1, Apart, Kinds, Numbers, MailTaken, OutEmitted DEF Posted, Taken,
       AnswerOwed, Asked, Working, Finished
  <2>3. ReportsBeforeAnswer'
    BY <2>1, Apart, Kinds, Numbers, MailTaken, OutEmitted DEF Posted, Taken,
       ReportsBeforeAnswer, AnswerOwed, Working, Finished
  <2>4. SetupAlone'
    BY <2>1, Apart, Kinds, Numbers, MailTaken, OutEmitted DEF Posted, Taken,
       SetupAlone, InFlight
  <2>. QED
    BY <2>2, <2>3, <2>4
<1>19. ASSUME NEW s \in Slots, WorkerObserve(s) PROVE Queues'
  <2>1. /\ TakeMail(s, "observe")
        /\ \A t \in Slots : t # s => st'[t] = st[t]
        /\ \/ Emit(s, "completed") /\ st[s] = "paused" /\ st'[s] = "idle"
           \/ out' = out /\ st' = st
        /\ UNCHANGED <<busy, mode, pc, inFlight>>
    BY <1>19 DEF WorkerObserve, Complete, WorkTyped
  <2>2. \A t \in Slots : AnswerOwed(t)'
    BY <2>1, Apart, Kinds, Numbers, MailTaken, OutEmitted DEF Posted, Taken,
       AnswerOwed, Asked, Working, Finished
  <2>3. ReportsBeforeAnswer'
    BY <2>1, Apart, Kinds, Numbers, MailTaken, OutEmitted DEF Posted, Taken,
       ReportsBeforeAnswer, AnswerOwed, Working, Finished
  <2>4. SetupAlone'
    BY <2>1, Apart, Kinds, Numbers, MailTaken, OutEmitted DEF Posted, Taken,
       SetupAlone, InFlight
  <2>. QED
    BY <2>2, <2>3, <2>4
<1>20. ASSUME NEW s \in Slots, WorkerResume(s) PROVE Queues'
  <2>1. /\ TakeMail(s, "resume") /\ out' = out
        /\ \A t \in Slots : t # s => st'[t] = st[t]
        /\ st'[s] = "idle" <=> st[s] = "idle"
        /\ UNCHANGED <<busy, mode, pc, inFlight>>
    BY <1>20 DEF WorkerResume, WorkTyped
  <2>2. \A t \in Slots : AnswerOwed(t)'
    BY <2>1, Apart, Kinds, Numbers, MailTaken DEF Taken, AnswerOwed, Asked, Working,
       Finished
  <2>3. ReportsBeforeAnswer'
    BY <2>1, Apart, Kinds, Numbers, MailTaken DEF Taken, ReportsBeforeAnswer,
       AnswerOwed, Working, Finished
  <2>4. SetupAlone'
    BY <2>1, Apart, Kinds, Numbers, MailTaken DEF Taken, SetupAlone, InFlight
  <2>. QED
    BY <2>2, <2>3, <2>4
<1>21. ASSUME NEW s \in Slots, WorkerPause(s) PROVE Queues'
  <2>1. /\ Emit(s, "pause") /\ mail' = mail
        /\ \A t \in Slots : t # s => st'[t] = st[t]
        /\ st[s] = "running" /\ st'[s] = "paused"
        /\ UNCHANGED <<busy, mode, pc, inFlight>>
    BY <1>21 DEF WorkerPause, InWalk, WorkTyped
  <2>2. \A t \in Slots : AnswerOwed(t)'
    BY <2>1, Apart, Kinds, Numbers, OutEmitted DEF Posted, AnswerOwed, Asked,
       Working, Finished
  <2>3. ReportsBeforeAnswer'
    BY <2>1, Apart, Kinds, Numbers, OutEmitted DEF Posted, ReportsBeforeAnswer,
       AnswerOwed, Working, Finished
  <2>4. SetupAlone'
    BY <2>1, Apart, Kinds, Numbers, OutEmitted DEF Posted, SetupAlone, InFlight
  <2>. QED
    BY <2>2, <2>3, <2>4
<1>22. ASSUME NEW s \in Slots, WorkerDefer(s) PROVE Queues'
  <2>1. /\ Emit(s, "conflict") /\ mail' = mail
        /\ st' = st /\ st[s] = "running"
        /\ UNCHANGED <<busy, mode, pc, inFlight>>
    BY <1>22 DEF WorkerDefer, InWalk
  <2>2. \A t \in Slots : AnswerOwed(t)'
    BY <2>1, Apart, Kinds, Numbers, OutEmitted DEF Posted, AnswerOwed, Asked,
       Working, Finished
  <2>3. ReportsBeforeAnswer'
    BY <2>1, Apart, Kinds, Numbers, OutEmitted DEF Posted, ReportsBeforeAnswer,
       AnswerOwed, Working, Finished
  <2>4. SetupAlone'
    BY <2>1, Apart, Kinds, Numbers, OutEmitted DEF Posted, SetupAlone, InFlight
  <2>. QED
    BY <2>2, <2>3, <2>4
<1>23. ASSUME NEW s \in Slots, WorkerAbandon(s) PROVE Queues'
  BY <1>23 DEF WorkerAbandon, AnswerOwed, Asked, Working, Finished,
     ReportsBeforeAnswer, SetupAlone, InFlight
<1>24. ASSUME NEW s \in Slots, NEW r \in Results, WorkerComplete(s, r) PROVE Queues'
  <2>1. /\ Emit(s, "completed") /\ mail' = mail
        /\ \A t \in Slots : t # s => st'[t] = st[t]
        /\ st[s] = "running" /\ st'[s] = "idle"
        /\ UNCHANGED <<busy, mode, pc, inFlight>>
    BY <1>24 DEF WorkerComplete, Complete, WorkTyped
  <2>2. \A t \in Slots : AnswerOwed(t)'
    BY <2>1, Apart, Kinds, Numbers, OutEmitted DEF Posted, AnswerOwed, Asked,
       Working, Finished
  <2>3. ReportsBeforeAnswer'
    BY <2>1, Apart, Kinds, Numbers, OutEmitted DEF Posted, ReportsBeforeAnswer,
       AnswerOwed, Working, Finished
  <2>4. SetupAlone'
    BY <2>1, Apart, Kinds, Numbers, OutEmitted DEF Posted, SetupAlone, InFlight
  <2>. QED
    BY <2>2, <2>3, <2>4
<1>25. ASSUME NEW kind \in SetupKinds, WorkerSetup(kind) PROVE Queues'
  <2>1. /\ TakeMail(ControlSlot, kind)
        /\ \E e \in ReadyKinds : Emit(ControlSlot, e)
        /\ UNCHANGED <<st, busy, mode, pc, inFlight>>
    BY <1>25 DEF WorkerSetup, ReadyKinds
  <2>2. /\ \A t \in Slots : Has(mail'[t], {"process"}) <=> Has(mail[t], {"process"})
        /\ \A t \in Slots : AtMostOnce(mail[t], {"process"})
              => AtMostOnce(mail'[t], {"process"})
        /\ \A t \in Slots : t # ControlSlot => mail'[t] = mail[t]
        /\ Has(mail[ControlSlot], SetupKinds)
        /\ AtMostOnce(mail[ControlSlot], SetupKinds)
              => ~Has(mail'[ControlSlot], SetupKinds)
        /\ AtMostOnce(mail[ControlSlot], SetupKinds)
              => AtMostOnce(mail'[ControlSlot], SetupKinds)
    BY <2>1, <1>25, Apart, Numbers, MailTaken DEF Taken
  <2>3. /\ \A t \in Slots : Has(out'[t], {"completed"}) <=> Has(out[t], {"completed"})
        /\ \A t \in Slots : AtMostOnce(out[t], {"completed"})
              => AtMostOnce(out'[t], {"completed"})
        /\ \A t \in Slots : t # ControlSlot => out'[t] = out[t]
        /\ \A t \in Slots : Has(out'[t], Reports) <=> Has(out[t], Reports)
        /\ \A t \in Slots : ReportsFirst(out[t]) => ReportsFirst(out'[t])
        /\ AtMostOnce(out[ControlSlot], ReadyKinds) /\ ~Has(out[ControlSlot], ReadyKinds)
              => AtMostOnce(out'[ControlSlot], ReadyKinds)
    BY <2>1, Apart, Kinds, Numbers, OutEmitted DEF Posted, ReadyKinds
  <2>4. \A t \in Slots : AnswerOwed(t)'
    BY <2>1, <2>2, <2>3 DEF AnswerOwed, Asked, Working, Finished
  <2>5. ReportsBeforeAnswer'
    BY <2>1, <2>3 DEF ReportsBeforeAnswer
  <2>6. SetupAlone'
    BY <2>1, <2>2, <2>3, Numbers DEF SetupAlone, InFlight
  <2>. QED
    BY <2>4, <2>5, <2>6
<1>26. ASSUME NEW r \in Requests, StartQueueRun(r) PROVE Queues'
  <2>1. /\ InFlight = {} /\ \A t \in Slots : busy[t] = None
        /\ \A t \in Slots : ~Has(mail[t], SetupKinds) /\ ~Has(out[t], ReadyKinds)
    BY <1>26, NothingBusy DEF StartQueueRun, Phases, SetupAlone
  <2>2. \A t \in Slots : AnswerOwed(t)'
    BY <1>26, Kinds, Numbers, MailPosted, <2>1 DEF StartQueueRun, Prime, Posted,
       AnswerOwed, Asked, Working, Finished, SetupKinds, ReadyKinds, Reports
  <2>3. ReportsBeforeAnswer'
    BY <1>26, Kinds, Numbers, MailPosted, <2>1 DEF StartQueueRun, Prime, Posted,
       ReportsBeforeAnswer, Reports, SetupKinds, ReadyKinds
  <2>4. SetupAlone'
    BY <1>26, Kinds, Numbers, MailPosted, <2>1 DEF StartQueueRun, Prime, Posted,
       SetupAlone, SetupKinds, ReadyKinds, InFlight, Reports
  <2>. QED
    BY <2>2, <2>3, <2>4
<1>27. ASSUME NEW r \in Requests, NEW m \in Mappings, StartSingleRun(r, m) PROVE
             Queues'
  <2>1. /\ InFlight = {} /\ \A t \in Slots : busy[t] = None
        /\ \A t \in Slots : ~Has(mail[t], SetupKinds) /\ ~Has(out[t], ReadyKinds)
    BY <1>27, NothingBusy DEF StartSingleRun, SinglePreamble, Phases, SetupAlone
  <2>2. PICK s \in 1..poolSize' :
           /\ busy' = [busy EXCEPT ![s] = m]
           /\ mail' = [mail EXCEPT ![s] = Append(mail[s], "process")]
    BY <1>27 DEF StartSingleRun, Dispatch
  <2>3. s \in Slots
    <3>1. poolSize' \in Slots
      BY <1>27, Numbers, SizesAssumption DEF StartSingleRun, GrowPool, PoolTyped, Slots
    <3>. QED
      BY <3>1, SizesAssumption DEF Slots
  <2>4. /\ busy'[s] # None
        /\ \A t \in Slots : t # s => busy'[t] = busy[t]
        /\ UNCHANGED <<st, out>>
    BY <1>27, Numbers, <2>1, <2>2, <2>3 DEF StartSingleRun, PoolTyped
  <2>5. \A t \in Slots : AnswerOwed(t)'
    BY <2>1, <2>2, <2>3, <2>4, Apart, Kinds, Numbers, MailPosted DEF Posted,
       AnswerOwed, Asked, Working, Finished
  <2>6. ReportsBeforeAnswer'
    BY <2>1, <2>2, <2>3, <2>4, Apart, Kinds, Numbers, MailPosted DEF Posted,
       ReportsBeforeAnswer, AnswerOwed, Working, Finished
  <2>7. SetupAlone'
    BY <2>1, <2>2, <2>3, <2>4, Apart, Kinds, Numbers, MailPosted DEF Posted,
       SetupAlone, InFlight
  <2>. QED
    BY <2>5, <2>6, <2>7
<1>28. ASSUME NEW r \in Requests, NEW m \in Mappings, RefuseSingleRun(r, m) PROVE
             Queues'
  <2>1. /\ InFlight = {} /\ \A t \in Slots : busy[t] = None
        /\ \A t \in Slots : ~Has(mail[t], SetupKinds) /\ ~Has(out[t], ReadyKinds)
    BY <1>28, NothingBusy DEF RefuseSingleRun, SinglePreamble, Phases, SetupAlone
  <2>2. \A t \in Slots : AnswerOwed(t)'
    BY <1>28, <2>1 DEF RefuseSingleRun, SinglePreamble, AnswerOwed, Asked, Working,
       Finished
  <2>3. ReportsBeforeAnswer'
    BY <1>28, <2>1 DEF RefuseSingleRun, SinglePreamble, ReportsBeforeAnswer, Reports
  <2>4. SetupAlone'
    BY <1>28, <2>1 DEF RefuseSingleRun, SinglePreamble, SetupAlone, SetupKinds,
       ReadyKinds, InFlight
  <2>. QED
    BY <2>2, <2>3, <2>4
<1>29. ASSUME NEW m \in Togglable, SetMappingEnabled(m) PROVE Queues'
  BY <1>29 DEF SetMappingEnabled, AnswerOwed, Asked, Working, Finished,
     ReportsBeforeAnswer, SetupAlone, InFlight
<1>30. CASE CancelFuture
  BY <1>30 DEF CancelFuture, AnswerOwed, Asked, Working, Finished,
     ReportsBeforeAnswer, SetupAlone, InFlight
<1>31. CASE CancelWithReason
  <2>1. \A t \in Slots : mail'[t] \in {mail[t], Post(mail[t], "observe")}
    BY <1>31 DEF CancelWithReason, CancelEverything, PostAll, WorkTyped
  <2>2. UNCHANGED <<out, st, busy, mode, pc, inFlight>>
    BY <1>31 DEF CancelWithReason, CancelEverything
  <2>3. \A t \in Slots : AnswerOwed(t)'
    BY <2>1, <2>2, MailObserved DEF AnswerOwed, Asked, Working, Finished
  <2>4. ReportsBeforeAnswer'
    BY <2>2 DEF ReportsBeforeAnswer
  <2>5. SetupAlone'
    BY <2>1, <2>2, Numbers, MailObserved DEF SetupAlone, SetupKinds, InFlight
  <2>. QED
    BY <2>3, <2>4, <2>5
<1>32. ASSUME NEW r \in Losable, LoseResource(r) PROVE Queues'
  <2>1. \A t \in Slots : mail'[t] \in {mail[t], Post(mail[t], "observe")}
    BY <1>32 DEF LoseResource, WorkTyped
  <2>2. UNCHANGED <<out, st, busy, mode, pc, inFlight>>
    BY <1>32 DEF LoseResource
  <2>3. \A t \in Slots : AnswerOwed(t)'
    BY <2>1, <2>2, MailObserved DEF AnswerOwed, Asked, Working, Finished
  <2>4. ReportsBeforeAnswer'
    BY <2>2 DEF ReportsBeforeAnswer
  <2>5. SetupAlone'
    BY <2>1, <2>2, Numbers, MailObserved DEF SetupAlone, SetupKinds, InFlight
  <2>. QED
    BY <2>3, <2>4, <2>5
<1>. QED
  BY <1>1, <1>2, <1>3, <1>4, <1>5, <1>6, <1>7, <1>8, <1>9, <1>10, <1>11, <1>12,
     <1>13, <1>14, <1>15, <1>16, <1>17, <1>18, <1>19, <1>20, <1>21, <1>22, <1>23,
     <1>24, <1>25, <1>26, <1>27, <1>28, <1>29, <1>30, <1>31, <1>32 DEF Next, Engine,
     Worker, Host, SetupKinds

(* The initial state satisfies the inductive invariant: nothing is queued,  *)
(* leased or claimed.                                                      *)
LEMMA InitAgrees == Init => TablesAgree
<1>. SUFFICES ASSUME Init PROVE TablesAgree
  OBVIOUS
<1>1. TypeOK
  BY InitTyped
<1>2. \A s \in Slots : \A E : ~Has(out[s], E) /\ ~Has(mail[s], E)
  BY DEF Init, Has
<1>3. \A s \in Slots : \A E : AtMostOnce(out[s], E) /\ AtMostOnce(mail[s], E)
  BY DEF Init, AtMostOnce
<1>4. InFlight = {} /\ \A s \in Slots : busy[s] = None /\ st[s] = "idle"
  BY Numbers DEF Init, InFlight
<1>5. OneAnswerPerLease
  BY <1>2, <1>3, <1>4 DEF OneAnswerPerLease, AnswerOwed, Asked, Working, Finished
<1>6. ReportsBeforeAnswer
  <2>1. \A s \in Slots : ReportsFirst(out[s])
    BY DEF Init, ReportsFirst
  <2>. QED
    BY <1>2, <2>1 DEF ReportsBeforeAnswer
<1>7. SetupAlone
  BY <1>2, <1>3, Numbers DEF SetupAlone
<1>. QED
  BY <1>1, <1>4, <1>5, <1>6, <1>7 DEF TablesAgree, LeaseTable, Phases, ClaimsExact,
     EndpointExclusion, Init

(* Every step of the engine, of a worker and of the host keeps it.         *)
LEMMA StepAgrees == TablesAgree /\ [Next]_vars => TablesAgree'
<1>. SUFFICES ASSUME TablesAgree, [Next]_vars PROVE TablesAgree'
  OBVIOUS
<1>. /\ TypeOK /\ LeaseTable /\ OneAnswerPerLease /\ ReportsBeforeAnswer /\ Phases
     /\ SetupAlone /\ ClaimsExact /\ EndpointExclusion
  BY DEF TablesAgree
<1>1. CASE Next
  <2>1. TypeOK'
    BY <1>1, TypedStep
  <2>2. Tables'
    BY <1>1, TablesStep DEF Tables
  <2>3. Queues'
    BY <1>1, QueuesStep DEF Tables, Queues, OneAnswerPerLease
  <2>4. /\ LeaseTable' /\ Phases' /\ ClaimsExact' /\ EndpointExclusion'
        /\ ReportsBeforeAnswer' /\ SetupAlone' /\ \A t \in Slots : AnswerOwed(t)'
    BY <2>2, <2>3 DEF Tables, Queues
  <2>5. (~iface => InFlight = {} /\ \A s \in Slots : busy[s] = None)'
    BY <2>1, <2>4, Numbers DEF Phases, LeaseTable, InFlight, TypeOK, PoolTyped
  <2>6. OneAnswerPerLease'
    BY <2>4, <2>5 DEF OneAnswerPerLease
  <2>. QED
    BY <2>1, <2>4, <2>6 DEF TablesAgree
<1>2. CASE UNCHANGED vars
  <2>1. TypeOK'
    BY <1>2 DEF TypeOK, RunTyped, QueueTyped, PoolTyped, WorkTyped, vars, runVars,
       queueVars, passVars, conflictVars, poolVars, workVars
  <2>2. OneAnswerPerLease' /\ ReportsBeforeAnswer' /\ SetupAlone'
    BY <1>2 DEF OneAnswerPerLease, AnswerOwed, Asked, Working, Finished, InFlight,
       ReportsBeforeAnswer, SetupAlone, vars, runVars, poolVars, workVars
  <2>3. LeaseTable' /\ Phases' /\ ClaimsExact' /\ EndpointExclusion'
    BY <1>2 DEF LeaseTable, Phases, ClaimsExact, EndpointExclusion, InFlight, vars,
       runVars, poolVars
  <2>. QED
    BY <2>1, <2>2, <2>3 DEF TablesAgree
<1>. QED
  BY <1>1, <1>2

(* Whatever the mappings, backends, caps and requests, and however hosts   *)
(* cancel or resources disappear, the engine's tables, its queues and the  *)
(* workers stay in agreement.                                              *)
THEOREM Agreement == Spec => []TablesAgree
<1>. QED
  BY InitAgrees, StepAgrees, PTL DEF Spec

(* Every variable keeps the type of its C++ counterpart.                   *)
THEOREM TypeCorrect == Spec => []TypeOK
<1>1. TablesAgree => TypeOK
  BY DEF TablesAgree
<1>. QED
  BY <1>1, Agreement, PTL

(* pumpQueue() never lets two syncs touch one collection at the same time, *)
(* for every topology of mappings, not only the ones model-checked.        *)
THEOREM Exclusion == Spec => []EndpointExclusion
<1>1. TablesAgree => EndpointExclusion
  BY DEF TablesAgree
<1>. QED
  BY <1>1, Agreement, PTL

(* onWorkerSyncCompleted() releases exactly the endpoints dispatch claimed.*)
THEOREM ClaimsReleased == Spec => []ClaimsExact
<1>1. TablesAgree => ClaimsExact
  BY DEF TablesAgree
<1>. QED
  BY <1>1, Agreement, PTL

(* A leased slot owes exactly one syncCompleted, a free one none, and the  *)
(* future of a run is only finished once no worker works for it.           *)
THEOREM DrainBeforeFinish == Spec => []OneAnswerPerLease
<1>1. TablesAgree => OneAnswerPerLease
  BY DEF TablesAgree
<1>. QED
  BY <1>1, Agreement, PTL

(***************************************************************************)
(* The caps.                                                               *)
(***************************************************************************)
LEMMA MappingsFinite ==
    /\ \A S \in SUBSET Mappings : IsFiniteSet(S) /\ Cardinality(S) \in Nat
    /\ \A S, T \in SUBSET Mappings : S \subseteq T => Cardinality(S) <= Cardinality(T)
    /\ Cardinality({}) = 0
<1>1. IsFiniteSet(Mappings)
  BY SizesAssumption, FS_Interval DEF Mappings
<1>2. \A S \in SUBSET Mappings : IsFiniteSet(S) /\ Cardinality(S) \in Nat
  BY <1>1, FS_Subset, FS_CardinalityType
<1>. QED
  BY <1>2, FS_Subset, FS_EmptySet

LEMMA OneMapping == \A m : Cardinality({m}) = 1
BY FS_Singleton

(* What gives up leases, and takes no new ones, keeps to the caps.         *)
LEMMA FewerLeases ==
    ASSUME TypeOK, CapsKept, effCap' = effCap, poolSize' = poolSize, iface' => iface,
           InFlight' \subseteq InFlight
    PROVE  CapsKept'
<1>. USE DEF CapsKept
<1>1. InFlight \in SUBSET Mappings /\ InFlight' \in SUBSET Mappings
  BY DEF InFlight
<1>2. effCap \in Nat /\ \A b \in Backends : BackendCap[b] \in Nat
  BY TopologyAssumption, Numbers DEF TypeOK, RunTyped
<1>3. Cardinality(InFlight') <= effCap
  BY <1>1, <1>2, MappingsFinite
<1>4. ASSUME NEW b \in Backends, BackendCap[b] > 0 PROVE Cardinality(Using(b)') <= BackendCap[b]
  <2>1. Using(b)' \subseteq Using(b) /\ Using(b) \in SUBSET Mappings
    BY <1>1 DEF Using, BackendsOf, Ends
  <2>. QED
    BY <1>2, <1>4, <2>1, MappingsFinite
<1>. QED
  BY <1>3, <1>4

(* A run that starts has room for its only lease, if it takes one.         *)
LEMMA FirstLease ==
    ASSUME TypeOK, NEW m \in Mappings, InFlight' \subseteq {m}, effCap' \in Slots,
           effCap' <= poolSize'
    PROVE  CapsKept'
<1>1. InFlight' \in SUBSET Mappings /\ {m} \in SUBSET Mappings /\ Cardinality(InFlight') <= 1
  BY MappingsFinite, OneMapping
<1>2. effCap' \in Nat /\ effCap' >= 1
  BY SizesAssumption DEF Slots
<1>3. Cardinality(InFlight') <= effCap'
  BY <1>1, <1>2, MappingsFinite
<1>4. ASSUME NEW b \in Backends, BackendCap[b] > 0 PROVE Cardinality(Using(b)') <= BackendCap[b]
  <2>1. Using(b)' \subseteq InFlight'
    BY DEF Using
  <2>2. BackendCap[b] \in Nat
    BY TopologyAssumption
  <2>. QED
    BY <1>1, <1>4, <2>1, <2>2, MappingsFinite
<1>. QED
  BY <1>3, <1>4 DEF CapsKept

(* pumpQueue() looks at the caps before it dispatches.                     *)
LEMMA OneMoreLease ==
    ASSUME TypeOK, CapsKept, NEW m \in Mappings, BelowCap(m), Cardinality(InFlight) < effCap,
           UNCHANGED <<effCap, poolSize, iface>>, InFlight' = InFlight \union {m}
    PROVE  CapsKept'
<1>. USE DEF CapsKept
<1>1. InFlight \in SUBSET Mappings /\ InFlight' \in SUBSET Mappings
  BY DEF InFlight
<1>2. effCap \in Nat /\ \A b \in Backends : BackendCap[b] \in Nat
  BY TopologyAssumption, Numbers DEF TypeOK, RunTyped
<1>3. \A S \in SUBSET Mappings : Cardinality(S \union {m}) <= Cardinality(S) + 1
  BY MappingsFinite, FS_AddElement
<1>4. Cardinality(InFlight') <= effCap
  BY <1>1, <1>2, <1>3, MappingsFinite
<1>5. ASSUME NEW b \in Backends, BackendCap[b] > 0 PROVE Cardinality(Using(b)') <= BackendCap[b]
  <2>1. Using(b) \in SUBSET Mappings /\ Using(b)' \in SUBSET Mappings
    BY <1>1 DEF Using
  <2>2. CASE b \notin BackendsOf(m)
    <3>1. Using(b)' \subseteq Using(b)
      BY <2>2 DEF Using, BackendsOf, Ends
    <3>. QED
      BY <1>2, <1>5, <2>1, <3>1, MappingsFinite
  <2>3. CASE b \in BackendsOf(m)
    <3>1. Using(b) \subseteq InFlightSharing(m) /\ InFlightSharing(m) \in SUBSET Mappings
      BY <1>1, <2>3 DEF Using, InFlightSharing, ResourcesOf
    <3>2. Cardinality(InFlightSharing(m)) < BackendCap[b]
      BY <1>5, <2>3 DEF BelowCap
    <3>3. Using(b)' \subseteq Using(b) \union {m} /\ Using(b) \union {m} \in SUBSET Mappings
      BY <2>1 DEF Using, BackendsOf, Ends
    <3>4. /\ Cardinality(Using(b)') <= Cardinality(Using(b) \union {m})
          /\ Cardinality(Using(b) \union {m}) <= Cardinality(Using(b)) + 1
          /\ Cardinality(Using(b)) <= Cardinality(InFlightSharing(m))
      BY <1>3, <2>1, <3>1, <3>3, MappingsFinite
    <3>5. /\ Cardinality(Using(b)') \in Nat /\ Cardinality(Using(b)) \in Nat
          /\ Cardinality(Using(b) \union {m}) \in Nat
          /\ Cardinality(InFlightSharing(m)) \in Nat
      BY <2>1, <3>1, <3>3, MappingsFinite
    <3>. QED
      BY <1>2, <3>2, <3>4, <3>5
  <2>. QED
    BY <2>2, <2>3
<1>. QED
  BY <1>4, <1>5

LEMMA CapsStep ==
    ASSUME TablesAgree, CapsKept, [Next]_vars PROVE CapsKept'
<1>. USE DEF TablesAgree
<1>1. ASSUME UNCHANGED <<effCap, poolSize, iface, inFlight>> PROVE CapsKept'
  BY <1>1, FewerLeases DEF InFlight
<1>2. ASSUME UNCHANGED <<effCap, poolSize>>, \E asCancelled \in BOOLEAN : FinishRun(asCancelled)
      PROVE CapsKept'
  BY <1>2, FewerLeases DEF FinishRun, InFlight
<1>3. ASSUME NEW m \in Mappings, NEW s \in Slots, PumpDispatch(m, s) PROVE CapsKept'
  <2>1. /\ Cardinality(InFlight) < effCap /\ BelowCap(m)
        /\ UNCHANGED <<effCap, poolSize, iface>> /\ inFlight' = [inFlight EXCEPT ![m] = s]
    BY <1>3 DEF PumpDispatch, Taking, Dispatchable, NextEligible, IsEligible, Dispatch
  <2>2. InFlight' = InFlight \union {m}
    BY <2>1, Numbers DEF InFlight, TypeOK, PoolTyped
  <2>. QED
    BY <2>1, <2>2, OneMoreLease
<1>4. ASSUME NEW s \in Slots, CompleteQueued(s) PROVE CapsKept'
  <2>1. InFlight' \subseteq InFlight
    BY <1>4 DEF CompleteQueued, Released, InFlight, TypeOK, PoolTyped
  <2>. QED
    BY <1>4, <2>1, FewerLeases DEF CompleteQueued
<1>5. ASSUME NEW s \in Slots, CompleteAndRedispatch(s) PROVE CapsKept'
  <2>1. busy[s] \in Mappings /\ inFlight[busy[s]] = s
    BY <1>5, SignalFromLease, Numbers
       DEF CompleteAndRedispatch, TakeSignal, LeaseTable
  <2>2. InFlight' \subseteq InFlight
    BY <1>5, <2>1, Numbers DEF CompleteAndRedispatch, InFlight, TypeOK, PoolTyped
  <2>. QED
    BY <1>5, <2>2, FewerLeases DEF CompleteAndRedispatch
<1>6. ASSUME NEW r \in Requests, StartQueueRun(r) PROVE CapsKept'
  <2>1. effCap' \in Slots /\ effCap' <= poolSize'
    BY <1>6, RequestsAssumption, SizesAssumption
       DEF StartQueueRun, EffectiveCap, GrowPool, Request, TypeOK, PoolTyped, Slots
  <2>2. InFlight' = {}
    BY <1>6 DEF StartQueueRun, OneAnswerPerLease, InFlight
  <2>3. 1 \in Mappings
    BY SizesAssumption DEF Mappings
  <2>. QED
    BY <2>1, <2>2, <2>3, FirstLease
<1>7. ASSUME NEW r \in Requests, NEW m \in Mappings, StartSingleRun(r, m) PROVE CapsKept'
  <2>1. effCap' \in Slots /\ effCap' <= poolSize'
    BY <1>7, Numbers DEF StartSingleRun, GrowPool, TypeOK, PoolTyped
  <2>2. InFlight' \subseteq {m}
    BY <1>7 DEF StartSingleRun, SinglePreamble, OneAnswerPerLease, Dispatch, InFlight, TypeOK, PoolTyped
  <2>. QED
    BY <2>1, <2>2, FirstLease
<1>8. ASSUME NEW r \in Requests, NEW m \in Mappings, RefuseSingleRun(r, m) PROVE CapsKept'
  BY <1>8, FewerLeases DEF RefuseSingleRun, InFlight
<1>9. CASE Engine
  <2>1. CASE OnActiveControllersReady \/ \E unchanged \in SUBSET pending : OnFastPathReady(unchanged)
    BY <1>1, <1>2, <2>1 DEF OnActiveControllersReady, OnFastPathReady, FinishSetup
  <2>2. CASE PumpFinish \/ PumpCancelled \/ \E s \in Slots : CompleteSingle(s)
    BY <1>1, <1>2, <2>2 DEF PumpFinish, PumpCancelled, CompleteSingle
  <2>3. CASE \/ \E m \in Mappings : PumpLost(m) \/ PumpSkip(m)
             \/ PumpWait \/ PumpResolutionPass \/ PumpFixpointPass
             \/ \E s \in Slots : OnConflictDetected(s) \/ OnConflictPauseRequested(s)
             \/ \E answered \in SUBSET toPresent : PresentPendingConflicts(answered)
             \/ OnCancelObserved
    BY <1>1, <2>3 DEF PumpLost, PumpSkip, PumpWait, PumpResolutionPass, PumpFixpointPass, RePass,
       OnConflictDetected, OnConflictPauseRequested, PresentPendingConflicts, OnCancelObserved
  <2>. QED
    BY <1>3, <1>4, <1>5, <1>9, <2>1, <2>2, <2>3 DEF Engine
<1>10. ASSUME NEW s \in Slots, Worker(s) PROVE CapsKept'
  BY <1>1, <1>10 DEF Worker, WorkerProcess, WorkerObserve, WorkerResume, WorkerPause, WorkerDefer,
     WorkerAbandon, WorkerComplete
<1>11. ASSUME NEW kind \in {"controllers", "fastPath"}, WorkerSetup(kind) PROVE CapsKept'
  BY <1>1, <1>11 DEF WorkerSetup
<1>12. CASE Host
  BY <1>1, <1>6, <1>7, <1>8, <1>12
     DEF Host, SetMappingEnabled, CancelFuture, CancelWithReason, LoseResource
<1>. QED
  BY <1>1, <1>9, <1>10, <1>11, <1>12 DEF Next

(* Below the cap a slot is free: each of the busy ones has a mapping of its*)
(* own.                                                                    *)
LEMMA SlotForLease ==
    ASSUME TypeOK, LeaseTable, CapsKept, iface, Cardinality(InFlight) < effCap
    PROVE  FreeSlots # {}
<1>. SUFFICES ASSUME FreeSlots = {} PROVE FALSE
  OBVIOUS
<1>1. 1..poolSize \subseteq Slots /\ poolSize \in Nat
  BY PoolSlots, Numbers DEF TypeOK, PoolTyped
<1>2. \A s \in 1..poolSize : busy[s] \in Mappings /\ busy[s] # None /\ inFlight[busy[s]] = s
  BY <1>1 DEF FreeSlots, TypeOK, PoolTyped, LeaseTable
<1>3. \A s \in 1..poolSize : busy[s] \in InFlight
  BY <1>1, <1>2, Numbers DEF InFlight
<1>. DEFINE f == [s \in 1..poolSize |-> busy[s]]
<1>4. f \in Injection(1..poolSize, InFlight)
  BY <1>2, <1>3 DEF Injection, IsInjective
<1>5. IsFiniteSet(InFlight) /\ Cardinality(InFlight) \in Nat
  BY MappingsFinite DEF InFlight
<1>6. Cardinality(1..poolSize) <= Cardinality(InFlight)
  BY <1>4, <1>5, FS_Injection
<1>7. Cardinality(1..poolSize) = poolSize
  BY <1>1, FS_Interval
<1>. QED
  BY <1>1, <1>5, <1>6, <1>7, Numbers DEF CapsKept, TypeOK, RunTyped

(***************************************************************************)
(* The slot of a run that may be paused.                                   *)
(***************************************************************************)
LEMMA SlotLess ==
    ASSUME TypeOK, OneSlot, effCap' = effCap, iface' => iface,
           iface' /\ monitored' => monitored, iface' /\ mode' = "Single" => mode = "Single",
           iface' => \A s \in Slots : busy'[s] # None => busy[s] # None
    PROVE  OneSlot'
BY DEF OneSlot

LEMMA SlotStep ==
    ASSUME TablesAgree, CapsKept, OneSlot, [Next]_vars PROVE OneSlot'
<1>. USE DEF TablesAgree
<1>1. ASSUME UNCHANGED <<effCap, iface, monitored, mode, busy>> PROVE OneSlot'
  BY <1>1, SlotLess
<1>2. ASSUME UNCHANGED effCap, \E asCancelled \in BOOLEAN : FinishRun(asCancelled)
      PROVE OneSlot'
  BY <1>2, SlotLess DEF FinishRun
<1>3. ASSUME NEW m \in Mappings, NEW s \in Slots, PumpDispatch(m, s) PROVE OneSlot'
  <2>1. /\ Cardinality(InFlight) < effCap /\ s \in FreeSlots /\ \A t \in FreeSlots : s <= t
        /\ UNCHANGED <<effCap, iface, monitored, mode, poolSize>>
        /\ busy' = [busy EXCEPT ![s] = m] /\ iface
    BY <1>3, PhasesInPump DEF PumpDispatch, Taking, Dispatchable, NextEligible, IsEligible, Dispatch
  <2>2. ASSUME effCap = 1 PROVE s = ControlSlot /\ \A t \in Slots : busy[t] = None
    <3>1. InFlight = {}
      BY <2>1, <2>2, MappingsFinite, FS_EmptySet DEF InFlight
    <3>2. \A t \in Slots : busy[t] = None
      BY <3>1, NothingBusy
    <3>3. ControlSlot \in FreeSlots
      BY <2>1, <2>2, <3>2, Numbers DEF FreeSlots, CapsKept, ControlSlot, TypeOK, PoolTyped
    <3>4. s \in Nat /\ s >= 1
      BY <2>1, PoolSlots DEF FreeSlots
    <3>. QED
      BY <2>1, <3>2, <3>3, <3>4 DEF ControlSlot
  <2>. QED
    BY <2>1, <2>2 DEF OneSlot, TypeOK, PoolTyped
<1>4. ASSUME NEW s \in Slots, CompleteQueued(s) PROVE OneSlot'
  BY <1>4, SlotLess DEF CompleteQueued, Released, TypeOK, PoolTyped
<1>5. ASSUME NEW s \in Slots, CompleteAndRedispatch(s) PROVE OneSlot'
  <2>1. /\ mode = "Single" /\ UNCHANGED <<effCap, iface, monitored, mode>>
        /\ busy[s] \in Mappings
    BY <1>5, SignalFromLease DEF CompleteAndRedispatch, TakeSignal
  <2>2. iface /\ effCap = 1 /\ s = ControlSlot
    BY <2>1, Numbers DEF Phases, OneSlot
  <2>3. PICK t \in FreeSlots \union {s} :
           /\ \A u \in FreeSlots \union {s} : t <= u
           /\ busy' = [busy EXCEPT ![s] = None, ![t] = busy[s]]
    BY <1>5 DEF CompleteAndRedispatch
  <2>4. t = ControlSlot
    BY <2>2, <2>3, PoolSlots DEF FreeSlots, ControlSlot, Slots
  <2>. QED
    BY <2>1, <2>2, <2>3, <2>4 DEF OneSlot, TypeOK, PoolTyped
<1>6. ASSUME NEW r \in Requests, StartQueueRun(r) PROVE OneSlot'
  <2>1. /\ \A s \in Slots : busy'[s] = None
        /\ mode' = "Queue" /\ monitored' = r.monitored /\ effCap' = EffectiveCap(r)
    BY <1>6 DEF StartQueueRun, OneAnswerPerLease, Prime
  <2>. QED
    BY <2>1 DEF OneSlot, EffectiveCap
<1>7. ASSUME NEW r \in Requests, NEW m \in Mappings, StartSingleRun(r, m) PROVE OneSlot'
  <2>1. \A s \in Slots : busy[s] = None
    BY <1>7 DEF StartSingleRun, SinglePreamble, OneAnswerPerLease
  <2>2. /\ effCap' = 1 /\ poolSize' \in Nat /\ poolSize' >= 1 /\ 1..poolSize' \subseteq Slots
    <3>1. effCap' = 1 /\ poolSize' = IF poolSize < 1 THEN 1 ELSE poolSize
      BY <1>7 DEF StartSingleRun, GrowPool
    <3>2. poolSize' \in Slots
      BY <3>1, SizesAssumption DEF TypeOK, PoolTyped, Slots
    <3>. QED
      BY <3>1, <3>2, SizesAssumption DEF Slots
  <2>3. PICK s \in 1..poolSize' :
           /\ \A t \in 1..poolSize' : busy[t] = None => s <= t
           /\ busy' = [busy EXCEPT ![s] = m]
    BY <1>7 DEF StartSingleRun, Dispatch
  <2>4. s = ControlSlot
    BY <2>1, <2>2, <2>3 DEF ControlSlot
  <2>. QED
    BY <2>1, <2>2, <2>3, <2>4 DEF OneSlot, TypeOK, PoolTyped
<1>8. ASSUME NEW r \in Requests, NEW m \in Mappings, RefuseSingleRun(r, m) PROVE OneSlot'
  BY <1>8 DEF RefuseSingleRun, SinglePreamble, OneSlot
<1>9. CASE Engine
  <2>1. CASE OnActiveControllersReady \/ \E unchanged \in SUBSET pending : OnFastPathReady(unchanged)
    BY <1>1, <1>2, <2>1 DEF OnActiveControllersReady, OnFastPathReady, FinishSetup
  <2>2. CASE PumpFinish \/ PumpCancelled \/ \E s \in Slots : CompleteSingle(s)
    BY <1>1, <1>2, <2>2 DEF PumpFinish, PumpCancelled, CompleteSingle
  <2>3. CASE \/ \E m \in Mappings : PumpLost(m) \/ PumpSkip(m)
             \/ PumpWait
             \/ \E s \in Slots : OnConflictDetected(s) \/ OnConflictPauseRequested(s)
             \/ \E answered \in SUBSET toPresent : PresentPendingConflicts(answered)
             \/ OnCancelObserved
    BY <1>1, <2>3 DEF PumpLost, PumpSkip, PumpWait,
       OnConflictDetected, OnConflictPauseRequested, PresentPendingConflicts, OnCancelObserved
  <2>4. CASE PumpResolutionPass \/ PumpFixpointPass
    BY <2>4, SlotLess DEF PumpResolutionPass, PumpFixpointPass, RePass, Prime
  <2>. QED
    BY <1>3, <1>4, <1>5, <1>9, <2>1, <2>2, <2>3, <2>4 DEF Engine
<1>10. ASSUME NEW s \in Slots, Worker(s) PROVE OneSlot'
  BY <1>1, <1>10 DEF Worker, WorkerProcess, WorkerObserve, WorkerResume, WorkerPause, WorkerDefer,
     WorkerAbandon, WorkerComplete
<1>11. ASSUME NEW kind \in {"controllers", "fastPath"}, WorkerSetup(kind) PROVE OneSlot'
  BY <1>1, <1>11 DEF WorkerSetup
<1>12. CASE Host
  BY <1>1, <1>6, <1>7, <1>8, <1>12
     DEF Host, SetMappingEnabled, CancelFuture, CancelWithReason, LoseResource
<1>. QED
  BY <1>1, <1>9, <1>10, <1>11, <1>12 DEF Next

(***************************************************************************)
(* Pauses.                                                                 *)
(***************************************************************************)
ResumeFirst(q) ==
    \A i, j \in 1..Len(q) : q[i] = "process" /\ q[j] = "resume" => j < i

LEMMA ResumeOrder ==
    ASSUME NEW S, NEW q \in Seq(S), ResumeFirst(q)
    PROVE  /\ \A x \in S : x # "resume" \/ ~Has(q, {"process"}) => ResumeFirst(Append(q, x))
           /\ q # <<>> => ResumeFirst(Tail(q))
BY DEF ResumeFirst, Has

(* What a slot's queues and state say of its pauses.                       *)
PausesTold(s) ==
    /\ Has(out[s], {"pause"}) => s = ControlSlot /\ ~Asked(s)
    /\ st[s] = "paused" => s = ControlSlot
    /\ s = ControlSlot => ResumeFirst(mail[s])

LEMMA PausePosted ==
    ASSUME WorkTyped, NEW s \in Slots, NEW e \in MailKinds,
           mail' = [mail EXCEPT ![s] = Append(@, e)]
    PROVE  /\ \A t \in Slots : t # s => mail'[t] = mail[t]
           /\ Asked(s)' <=> Asked(s) \/ e = "process"
           /\ ResumeFirst(mail[s]) /\ (e = "resume" => ~Asked(s)) => ResumeFirst(mail'[s])
<1>1. mail[s] \in Seq(MailKinds) /\ mail'[s] = Append(mail[s], e)
  BY DEF WorkTyped
<1>. QED
  BY <1>1, HasAppend, ResumeOrder DEF WorkTyped, Asked

LEMMA PauseMailTaken ==
    ASSUME WorkTyped, NEW s \in Slots, NEW e, TakeMail(s, e)
    PROVE  /\ \A t \in Slots : t # s => mail'[t] = mail[t]
           /\ Asked(s)' => Asked(s)
           /\ ResumeFirst(mail[s]) => ResumeFirst(mail'[s])
<1>1. mail[s] \in Seq(MailKinds) /\ mail[s] # <<>> /\ mail'[s] = Tail(mail[s])
  BY DEF WorkTyped, TakeMail
<1>. QED
  BY <1>1, HasTail, ResumeOrder DEF WorkTyped, Asked, TakeMail

LEMMA PauseMailObserved ==
    ASSUME WorkTyped, NEW s \in Slots, mail'[s] \in {mail[s], Post(mail[s], "observe")}
    PROVE  /\ Asked(s)' => Asked(s)
           /\ ResumeFirst(mail[s]) => ResumeFirst(mail'[s])
<1>1. mail[s] \in Seq(MailKinds)
  BY DEF WorkTyped
<1>2. Asked(s)' => Asked(s)
  BY MailObserved DEF Asked
<1>. QED
  BY <1>1, <1>2, Kinds, ResumeOrder DEF Post

LEMMA PauseEmitted ==
    ASSUME WorkTyped, NEW s \in Slots, NEW e \in SignalKinds, Emit(s, e)
    PROVE  /\ \A t \in Slots : t # s => out'[t] = out[t]
           /\ Has(out'[s], {"pause"}) <=> Has(out[s], {"pause"}) \/ e = "pause"
<1>1. out[s] \in Seq(SignalKinds) /\ out'[s] = Append(out[s], e)
  BY DEF WorkTyped, Emit
<1>. QED
  BY <1>1, HasAppend DEF WorkTyped, Emit

LEMMA PauseOutTaken ==
    ASSUME WorkTyped, NEW s \in Slots, NEW e, TakeSignal(s, e)
    PROVE  /\ \A t \in Slots : t # s => out'[t] = out[t]
           /\ \A t \in Slots : Has(out'[t], {"pause"}) => Has(out[t], {"pause"})
           /\ e = "pause" => Has(out[s], {"pause"})
<1>1. out[s] \in Seq(SignalKinds) /\ out[s] # <<>> /\ Head(out[s]) = e /\ out'[s] = Tail(out[s])
  BY DEF WorkTyped, TakeSignal
<1>. QED
  BY <1>1, HasTail DEF WorkTyped, TakeSignal

LEMMA PausesStep ==
    ASSUME TablesAgree, OneSlot, \A t \in Slots : PausesTold(t), [Next]_vars
    PROVE  \A t \in Slots : PausesTold(t)'
<1>. USE DEF TablesAgree, PausesTold, TypeOK
<1>1. ASSUME UNCHANGED <<mail, out, st>> PROVE \A t \in Slots : PausesTold(t)'
  BY <1>1 DEF Asked
<1>2. ASSUME NEW s \in Slots, NEW e, TakeSignal(s, e), UNCHANGED <<mail, st>>
      PROVE \A t \in Slots : PausesTold(t)'
  BY <1>2, PauseOutTaken DEF Asked
<1>3. ASSUME NEW s \in Slots, NEW e \in {"controllers", "fastPath", "process"},
             mail' = [mail EXCEPT ![s] = Append(@, e)], UNCHANGED st,
             \A t \in Slots : Has(out'[t], {"pause"}) => Has(out[t], {"pause"}),
             e = "process" => ~Has(out'[s], {"pause"})
      PROVE \A t \in Slots : PausesTold(t)'
  <2>1. /\ e \in MailKinds /\ e # "resume"
        /\ Asked(s)' <=> Asked(s) \/ e = "process"
        /\ ResumeFirst(mail[s]) => ResumeFirst(mail'[s])
    BY <1>3, Kinds, PausePosted
  <2>2. PausesTold(s)'
    BY <1>3, <2>1
  <2>3. ASSUME NEW t \in Slots, t # s PROVE PausesTold(t)'
    <3>1. mail'[t] = mail[t]
      BY <1>3, <2>1, <2>3, PausePosted
    <3>. QED
      BY <1>3, <2>3, <3>1 DEF Asked
  <2>. QED
    BY <2>2, <2>3
<1>4. ASSUME NEW s \in Slots, busy[s] = None PROVE ~Has(out[s], {"pause"})
  BY <1>4 DEF ReportsBeforeAnswer, Reports, Has
<1>5. ASSUME \A t \in Slots : mail'[t] \in {mail[t], Post(mail[t], "observe")}, UNCHANGED <<out, st>>
      PROVE \A t \in Slots : PausesTold(t)'
  BY <1>5, PauseMailObserved
<1>6. ASSUME NEW m \in Mappings, NEW s \in Slots, PumpDispatch(m, s)
      PROVE \A t \in Slots : PausesTold(t)'
  BY <1>3, <1>4, <1>6 DEF PumpDispatch, Dispatch, FreeSlots
<1>7. ASSUME NEW s \in Slots, CompleteAndRedispatch(s) PROVE \A t \in Slots : PausesTold(t)'
  <2>1. TakeSignal(s, "completed") /\ UNCHANGED st
    BY <1>7 DEF CompleteAndRedispatch
  <2>2. PICK t \in FreeSlots \union {s} : mail' = [mail EXCEPT ![t] = Append(@, "process")]
    BY <1>7 DEF CompleteAndRedispatch
  <2>3. t \in Slots
    BY <2>2, PoolSlots
  <2>4. ~Has(out'[t], {"pause"})
    <3>1. CASE t = s
      <4>1. ~Has(out'[s], Reports)
        BY <2>1, OutTaken DEF ReportsBeforeAnswer
      <4>. QED
        BY <3>1, <4>1 DEF Has, Reports
    <3>2. CASE t # s
      BY <1>4, <2>1, <2>2, <2>3, <3>2, PauseOutTaken DEF FreeSlots
    <3>. QED
      BY <3>1, <3>2
  <2>. QED
    BY <1>3, <2>1, <2>2, <2>3, <2>4, PauseOutTaken
<1>8. ASSUME NEW s \in Slots, OnConflictPauseRequested(s) PROVE \A t \in Slots : PausesTold(t)'
  <2>1. /\ TakeSignal(s, "pause") /\ UNCHANGED st
        /\ mail' = [mail EXCEPT ![ControlSlot] = Append(@, "resume")]
    BY <1>8 DEF OnConflictPauseRequested
  <2>2. s = ControlSlot /\ ~Asked(ControlSlot)
    BY <2>1, PauseOutTaken
  <2>. QED
    BY <2>1, <2>2, Kinds, PauseOutTaken, PausePosted DEF Asked
<1>9. CASE OnActiveControllersReady
  <2>1. TakeSignal(ControlSlot, "controllersReady") /\ UNCHANGED st
    BY <1>9 DEF OnActiveControllersReady
  <2>2. CASE UNCHANGED mail
    BY <1>2, <2>1, <2>2, Numbers
  <2>3. CASE mail' = [mail EXCEPT ![ControlSlot] = Append(@, "fastPath")]
    BY <1>3, <2>1, <2>3, Numbers, PauseOutTaken
  <2>. QED
    BY <1>9, <2>2, <2>3 DEF OnActiveControllersReady
<1>10. ASSUME NEW r \in Requests, StartQueueRun(r) PROVE \A t \in Slots : PausesTold(t)'
  <2>1. UNCHANGED <<out, st>>
    BY <1>10 DEF StartQueueRun
  <2>2. CASE UNCHANGED mail
    BY <1>1, <2>1, <2>2
  <2>3. CASE ~UNCHANGED mail
    <3>1. PICK e \in {"controllers", "fastPath"} : mail' = [mail EXCEPT ![ControlSlot] = Append(@, e)]
      BY <1>10, <2>3 DEF StartQueueRun
    <3>. QED
      BY <1>3, <2>1, <3>1, Numbers
  <2>. QED
    BY <2>2, <2>3
<1>11. ASSUME NEW r \in Requests, NEW m \in Mappings, StartSingleRun(r, m)
       PROVE \A t \in Slots : PausesTold(t)'
  <2>1. PICK s \in 1..poolSize' : busy[s] = None /\ mail' = [mail EXCEPT ![s] = Append(@, "process")]
    BY <1>11 DEF StartSingleRun, Dispatch
  <2>2. s \in Slots
    <3>1. poolSize' = IF poolSize < 1 THEN 1 ELSE poolSize
      BY <1>11 DEF StartSingleRun, GrowPool
    <3>2. poolSize' \in Slots
      BY <3>1, SizesAssumption DEF PoolTyped, Slots
    <3>. QED
      BY <2>1, <3>2, SizesAssumption DEF Slots
  <2>3. UNCHANGED <<out, st>>
    BY <1>11 DEF StartSingleRun
  <2>. QED
    BY <1>3, <1>4, <2>1, <2>2, <2>3
<1>12. ASSUME NEW s \in Slots, Worker(s) PROVE \A t \in Slots : PausesTold(t)'
  <2>1. ASSUME NEW e, TakeMail(s, e), NEW o \in SignalKinds \ {"pause"},
               Emit(s, o) \/ UNCHANGED out,
               \A t \in Slots : st'[t] = "paused" => st[t] = "paused"
        PROVE \A t \in Slots : PausesTold(t)'
    BY <2>1, PauseMailTaken, PauseEmitted DEF Asked
  <2>2. CASE WorkerProcess(s)
    <3>1. /\ TakeMail(s, "process") /\ (Emit(s, "completed") \/ UNCHANGED out)
          /\ \A t \in Slots : st'[t] = "paused" => st[t] = "paused"
      BY <2>2 DEF WorkerProcess, Complete, WorkTyped
    <3>. QED
      BY <2>1, <2>2, <3>1, Kinds DEF WorkerProcess
  <2>3. CASE WorkerObserve(s)
    <3>1. /\ TakeMail(s, "observe") /\ (Emit(s, "completed") \/ UNCHANGED out)
          /\ \A t \in Slots : st'[t] = "paused" => st[t] = "paused"
      BY <2>3 DEF WorkerObserve, Complete, WorkTyped
    <3>. QED
      BY <2>1, <3>1, Kinds
  <2>4. CASE WorkerResume(s)
    <3>1. /\ TakeMail(s, "resume") /\ UNCHANGED out
          /\ \A t \in Slots : st'[t] = "paused" => st[t] = "paused"
      BY <2>4 DEF WorkerResume, WorkTyped
    <3>. QED
      BY <2>1, <3>1, Kinds
  <2>5. CASE WorkerPause(s)
    <3>1. busy[s] # None /\ ~Asked(s)
      BY <2>5 DEF WorkerPause, InWalk, OneAnswerPerLease, AnswerOwed, Working
    <3>2. s = ControlSlot
      BY <2>5, <3>1 DEF WorkerPause, OneAnswerPerLease, OneSlot
    <3>3. /\ Emit(s, "pause") /\ UNCHANGED mail
          /\ \A t \in Slots : t # s => st'[t] = st[t]
      BY <2>5 DEF WorkerPause, WorkTyped
    <3>. QED
      BY <3>1, <3>2, <3>3, Kinds, PauseEmitted DEF Asked
  <2>6. ASSUME NEW o \in SignalKinds \ {"pause"}, Emit(s, o) \/ UNCHANGED out, UNCHANGED mail,
               \A t \in Slots : st'[t] = "paused" => st[t] = "paused"
        PROVE \A t \in Slots : PausesTold(t)'
    BY <2>6, PauseEmitted DEF Asked
  <2>7. CASE WorkerDefer(s)
    BY <2>6, <2>7, Kinds DEF WorkerDefer
  <2>8. CASE WorkerAbandon(s)
    <3>1. /\ UNCHANGED <<mail, out>>
          /\ \A t \in Slots : st'[t] = "paused" => st[t] = "paused"
      BY <2>8 DEF WorkerAbandon, WorkTyped
    <3>2. "completed" \in SignalKinds \ {"pause"}
      BY Kinds
    <3>. QED
      BY <2>6, <3>1, <3>2
  <2>9. CASE \E r \in Results : WorkerComplete(s, r)
    BY <2>6, <2>9, Kinds DEF WorkerComplete, Complete, WorkTyped
  <2>. QED
    BY <1>12, <2>2, <2>3, <2>4, <2>5, <2>7, <2>8, <2>9 DEF Worker
<1>13. ASSUME NEW kind \in {"controllers", "fastPath"}, WorkerSetup(kind)
       PROVE \A t \in Slots : PausesTold(t)'
  <2>1. PICK o \in {"controllersReady", "fastPathReady"} : Emit(ControlSlot, o)
    BY <1>13 DEF WorkerSetup
  <2>2. TakeMail(ControlSlot, kind) /\ UNCHANGED st
    BY <1>13 DEF WorkerSetup
  <2>. QED
    BY <2>1, <2>2, Kinds, Numbers, PauseMailTaken, PauseEmitted DEF Asked
<1>14. CASE Engine
  <2>1. CASE \E unchanged \in SUBSET pending : OnFastPathReady(unchanged)
    BY <1>2, <2>1, Numbers DEF OnFastPathReady
  <2>2. CASE \E s \in Slots : CompleteQueued(s) \/ CompleteSingle(s) \/ OnConflictDetected(s)
    BY <1>2, <2>2 DEF CompleteQueued, CompleteSingle, OnConflictDetected
  <2>3. CASE \/ \E m \in Mappings : PumpLost(m) \/ PumpSkip(m)
             \/ PumpWait \/ PumpResolutionPass \/ PumpFixpointPass \/ PumpFinish \/ PumpCancelled
             \/ \E answered \in SUBSET toPresent : PresentPendingConflicts(answered)
    BY <1>1, <2>3 DEF PumpLost, PumpSkip, PumpWait, PumpResolutionPass, PumpFixpointPass, RePass,
       PumpFinish, PumpCancelled, PresentPendingConflicts
  <2>4. CASE OnCancelObserved
    BY <1>5, <2>4 DEF OnCancelObserved, CancelEverything, PostAll
  <2>. QED
    BY <1>6, <1>7, <1>8, <1>9, <1>14, <2>1, <2>2, <2>3, <2>4 DEF Engine
<1>15. CASE Host
  <2>1. CASE CancelWithReason \/ \E r \in Losable : LoseResource(r)
    BY <1>5, <2>1 DEF CancelWithReason, CancelEverything, PostAll, LoseResource
  <2>2. CASE \/ \E r \in Requests, m \in Mappings : RefuseSingleRun(r, m)
             \/ \E m \in Togglable : SetMappingEnabled(m)
             \/ CancelFuture
    BY <1>1, <2>2 DEF RefuseSingleRun, SetMappingEnabled, CancelFuture
  <2>. QED
    BY <1>10, <1>11, <1>15, <2>1, <2>2 DEF Host
<1>. QED
  BY <1>1, <1>12, <1>13, <1>14, <1>15 DEF Next

(***************************************************************************)
(* Skip verdicts.                                                          *)
(***************************************************************************)
SetupOpen == Has(mail[ControlSlot], SetupKinds) \/ Has(out[ControlSlot], ReadyKinds)

LEMMA VerdictsKept ==
    ASSUME SetupClean, SkipVerdictFresh,
           SetupOpen' => SetupOpen, UNCHANGED dirty, pending' \subseteq pending,
           skipped' \subseteq skipped, mode' = "Queue" => mode = "Queue"
    PROVE  SetupClean' /\ SkipVerdictFresh'
<1>1. SetupClean'
  BY DEF SetupClean, SetupOpen
<1>2. SkipVerdictFresh'
  BY DEF SkipVerdictFresh, Ends
<1>. QED
  BY <1>1, <1>2

LEMMA VerdictsClean ==
    ASSUME \A e \in Endpoints : dirty'[e] = {}, pending' \subseteq Mappings
    PROVE  SetupClean' /\ SkipVerdictFresh'
<1>1. \A m \in Mappings : Ends(m) \subseteq Endpoints
  BY EndsTyped
<1>2. SkipVerdictFresh'
  BY <1>1 DEF SkipVerdictFresh, Ends
<1>. QED
  BY <1>2 DEF SetupClean

(* Only the set-up itself opens a question of the set-up.                  *)
LEMMA SetupPosts ==
    ASSUME WorkTyped, NEW s \in Slots
    PROVE  /\ \A e \in {"process", "resume"} :
                 mail' = [mail EXCEPT ![s] = Append(@, e)]
                    => (Has(mail'[ControlSlot], SetupKinds) => Has(mail[ControlSlot], SetupKinds))
           /\ \A e : TakeMail(s, e)
                    => (Has(mail'[ControlSlot], SetupKinds) => Has(mail[ControlSlot], SetupKinds))
           /\ \A e : TakeSignal(s, e)
                    => (Has(out'[ControlSlot], ReadyKinds) => Has(out[ControlSlot], ReadyKinds))
           /\ \A e \in {"completed", "conflict", "pause"} : Emit(s, e)
                    => (Has(out'[ControlSlot], ReadyKinds) => Has(out[ControlSlot], ReadyKinds))
           /\ (\A t \in Slots : mail'[t] \in {mail[t], Post(mail[t], "observe")})
                    => (Has(mail'[ControlSlot], SetupKinds) => Has(mail[ControlSlot], SetupKinds))
<1>1. mail[s] \in Seq(MailKinds) /\ out[s] \in Seq(SignalKinds) /\ ControlSlot \in Slots
  BY Numbers DEF WorkTyped
<1>2. ASSUME NEW e \in {"process", "resume"}, mail' = [mail EXCEPT ![s] = Append(@, e)],
             Has(mail'[ControlSlot], SetupKinds)
      PROVE  Has(mail[ControlSlot], SetupKinds)
  BY <1>1, <1>2, Kinds, MailPosted DEF Posted, SetupKinds
<1>3. ASSUME NEW e, TakeMail(s, e), Has(mail'[ControlSlot], SetupKinds)
      PROVE  Has(mail[ControlSlot], SetupKinds)
  BY <1>1, <1>3, HasTail DEF TakeMail, WorkTyped
<1>4. ASSUME NEW e, TakeSignal(s, e), Has(out'[ControlSlot], ReadyKinds)
      PROVE  Has(out[ControlSlot], ReadyKinds)
  BY <1>1, <1>4, HasTail DEF TakeSignal, WorkTyped
<1>5. ASSUME NEW e \in {"completed", "conflict", "pause"}, Emit(s, e),
             Has(out'[ControlSlot], ReadyKinds)
      PROVE  Has(out[ControlSlot], ReadyKinds)
  BY <1>1, <1>5, Kinds, OutEmitted DEF Posted, ReadyKinds
<1>6. ASSUME \A t \in Slots : mail'[t] \in {mail[t], Post(mail[t], "observe")},
             Has(mail'[ControlSlot], SetupKinds)
      PROVE  Has(mail[ControlSlot], SetupKinds)
  BY <1>1, <1>6, MailObserved
<1>. QED
  BY <1>2, <1>3, <1>4, <1>5, <1>6

LEMMA VerdictsStep ==
    ASSUME TablesAgree, TablesAgree', SetupClean, SkipVerdictFresh, [Next]_vars
    PROVE  SetupClean' /\ SkipVerdictFresh'
<1>. USE DEF TablesAgree, TypeOK
<1>0. pending' \subseteq Mappings /\ ControlSlot \in Slots
  BY Numbers DEF QueueTyped
<1>1. ASSUME UNCHANGED <<mail, out, dirty, pending, skipped, mode>>
      PROVE SetupClean' /\ SkipVerdictFresh'
  BY <1>1, VerdictsKept DEF SetupOpen
<1>2. ASSUME SetupOpen, UNCHANGED dirty PROVE SetupClean' /\ SkipVerdictFresh'
  <2>1. \A e \in Endpoints : dirty'[e] = {}
    BY <1>2 DEF SetupOpen, SetupClean
  <2>. QED
    BY <1>0, <2>1, VerdictsClean
<1>3. CASE OnActiveControllersReady
  <2>1. TakeSignal(ControlSlot, "controllersReady") /\ UNCHANGED dirty
    BY <1>3 DEF OnActiveControllersReady
  <2>2. SetupOpen
    BY <1>0, <2>1, OutTaken DEF SetupOpen, Taken, ReadyKinds
  <2>. QED
    BY <1>2, <2>1, <2>2
<1>4. ASSUME NEW unchanged \in SUBSET pending, OnFastPathReady(unchanged)
      PROVE SetupClean' /\ SkipVerdictFresh'
  <2>1. TakeSignal(ControlSlot, "fastPathReady") /\ UNCHANGED dirty
    BY <1>4 DEF OnFastPathReady
  <2>2. SetupOpen
    BY <1>0, <2>1, OutTaken DEF SetupOpen, Taken, ReadyKinds
  <2>. QED
    BY <1>2, <2>1, <2>2
<1>5. ASSUME NEW kind \in {"controllers", "fastPath"}, WorkerSetup(kind)
      PROVE SetupClean' /\ SkipVerdictFresh'
  <2>1. TakeMail(ControlSlot, kind) /\ UNCHANGED dirty /\ kind \in SetupKinds
    BY <1>5 DEF WorkerSetup, SetupKinds
  <2>2. SetupOpen
    BY <1>0, <2>1, MailTaken DEF SetupOpen, Taken
  <2>. QED
    BY <1>2, <2>1, <2>2
<1>6. ASSUME NEW m \in Mappings, PumpLost(m) \/ PumpSkip(m) PROVE SetupClean' /\ SkipVerdictFresh'
  <2>1. pending' = pending \ {m} /\ UNCHANGED <<mail, out, dirty, skipped, mode>>
    BY <1>6 DEF PumpLost, PumpSkip, Take
  <2>. QED
    BY <2>1, VerdictsKept DEF SetupOpen
<1>7. ASSUME NEW m \in Mappings, NEW s \in Slots, PumpDispatch(m, s)
      PROVE SetupClean' /\ SkipVerdictFresh'
  <2>1. /\ pending' = pending \ {m} /\ UNCHANGED <<out, dirty, skipped, mode>>
        /\ mail' = [mail EXCEPT ![s] = Append(@, "process")]
    BY <1>7 DEF PumpDispatch, Take, Dispatch
  <2>2. SetupOpen' => SetupOpen
    BY <2>1, SetupPosts DEF SetupOpen
  <2>. QED
    BY <2>1, <2>2, VerdictsKept
<1>8. CASE PumpResolutionPass \/ PumpFixpointPass
  <2>1. \A e \in Endpoints : dirty'[e] = {}
    BY <1>8 DEF PumpResolutionPass, PumpFixpointPass, RePass
  <2>. QED
    BY <1>0, <2>1, VerdictsClean
<1>9. CASE PumpFinish
  <2>1. /\ mode' = "None" /\ UNCHANGED <<mail, out>>
        /\ UNCHANGED dirty \/ \A e \in Endpoints : dirty'[e] = {}
    BY <1>9 DEF PumpFinish, FinishRun
  <2>. QED
    BY <2>1 DEF SetupClean, SkipVerdictFresh
<1>10. CASE PumpCancelled
  <2>1. /\ pending' \subseteq pending /\ UNCHANGED <<mail, out, dirty, skipped>>
        /\ mode' = "Queue" => mode = "Queue"
    BY <1>10 DEF PumpCancelled, FinishRun
  <2>. QED
    BY <2>1, VerdictsKept DEF SetupOpen
<1>11. ASSUME NEW s \in Slots, CompleteQueued(s) PROVE SetupClean' /\ SkipVerdictFresh'
  <2>1. TakeSignal(s, "completed") /\ UNCHANGED <<mail, pending, mode>>
    BY <1>11 DEF CompleteQueued
  <2>2. busy[s] \in Mappings
    BY <2>1, SignalFromLease DEF TakeSignal
  <2>3. ~SetupOpen
    <3>1. busy[s] # None /\ inFlight[busy[s]] = s /\ s # None
      BY <2>2, Numbers DEF LeaseTable
    <3>2. busy[s] \in InFlight
      BY <2>2, <3>1 DEF InFlight
    <3>. QED
      BY <1>0, <3>2 DEF SetupOpen, SetupAlone
  <2>4. ~SetupOpen'
    BY <2>1, <2>3, SetupPosts DEF SetupOpen
  <2>5. \/ skipped' = skipped /\ dirty' = dirty
        \/ /\ skipped' = SkipsAfter(busy[s])
           /\ \A e \in Endpoints \ Ends(busy[s]) : dirty'[e] = dirty[e]
    BY <1>11, <2>2, EndsTyped DEF CompleteQueued, WroteEnds, Ends
  <2>6. ASSUME mode = "Queue", NEW m \in skipped' \cap pending, NEW e \in Ends(m)
        PROVE  dirty'[e] = {}
    <3>1. m \in skipped \cap pending
      BY <2>5, <2>6 DEF SkipsAfter
    <3>2. dirty[e] = {}
      BY <2>6, <3>1 DEF SkipVerdictFresh
    <3>3. e \in Endpoints
      BY <2>6, EndsTyped DEF QueueTyped
    <3>. QED
      BY <2>5, <2>6, <3>2, <3>3 DEF SkipsAfter
  <2>. QED
    BY <2>1, <2>4, <2>6 DEF SetupClean, SetupOpen, SkipVerdictFresh, Ends
<1>12. ASSUME NEW s \in Slots, CompleteAndRedispatch(s) \/ CompleteSingle(s)
       PROVE SetupClean' /\ SkipVerdictFresh'
  <2>1. /\ mode = "Single" /\ TakeSignal(s, "completed") /\ UNCHANGED <<dirty, skipped>>
        /\ pending' \subseteq pending /\ mode' # "Queue"
    BY <1>12 DEF CompleteAndRedispatch, CompleteSingle, FinishRun
  <2>2. ~SetupOpen
    BY <1>0, <2>1 DEF SetupOpen, SetupAlone
  <2>3. \/ UNCHANGED mail
        \/ \E t \in Slots : mail' = [mail EXCEPT ![t] = Append(@, "process")]
    BY <1>12, PoolSlots DEF CompleteAndRedispatch, CompleteSingle
  <2>4. ~SetupOpen'
    BY <2>1, <2>2, <2>3, SetupPosts DEF SetupOpen
  <2>. QED
    BY <2>1, <2>4, VerdictsKept
<1>13. ASSUME NEW s \in Slots, OnConflictDetected(s) \/ OnConflictPauseRequested(s)
       PROVE SetupClean' /\ SkipVerdictFresh'
  <2>1. /\ UNCHANGED <<dirty, skipped, pending, mode>>
        /\ \E e \in {"conflict", "pause"} : TakeSignal(s, e)
        /\ \/ UNCHANGED mail
           \/ mail' = [mail EXCEPT ![ControlSlot] = Append(@, "resume")]
    BY <1>13 DEF OnConflictDetected, OnConflictPauseRequested
  <2>2. SetupOpen' => SetupOpen
    BY <1>0, <2>1, SetupPosts DEF SetupOpen
  <2>. QED
    BY <2>1, <2>2, VerdictsKept
<1>14. CASE OnCancelObserved \/ CancelWithReason \/ \E r \in Losable : LoseResource(r)
  <2>1. /\ UNCHANGED <<dirty, skipped, pending, mode, out>>
        /\ \A t \in Slots : mail'[t] \in {mail[t], Post(mail[t], "observe")}
    BY <1>14 DEF OnCancelObserved, CancelWithReason, CancelEverything, PostAll, LoseResource
  <2>2. SetupOpen' => SetupOpen
    BY <1>0, <2>1, SetupPosts DEF SetupOpen
  <2>. QED
    BY <2>1, <2>2, VerdictsKept
<1>15. ASSUME NEW r \in Requests, StartQueueRun(r) PROVE SetupClean' /\ SkipVerdictFresh'
  <2>1. \A e \in Endpoints : dirty'[e] = {}
    BY <1>15 DEF StartQueueRun
  <2>. QED
    BY <1>0, <2>1, VerdictsClean
<1>16. ASSUME NEW r \in Requests, NEW m \in Mappings, StartSingleRun(r, m)
       PROVE SetupClean' /\ SkipVerdictFresh'
  <2>1. /\ UNCHANGED <<dirty, out>> /\ skipped' = {} /\ pending' = {} /\ mode' = "Single"
        /\ ~iface
    BY <1>16 DEF StartSingleRun, SinglePreamble
  <2>2. PICK s \in 1..poolSize' : mail' = [mail EXCEPT ![s] = Append(@, "process")]
    BY <1>16 DEF StartSingleRun, Dispatch
  <2>3. s \in Slots
    BY <2>2, SizesAssumption DEF PoolTyped, Slots
  <2>4. SetupOpen' => SetupOpen
    BY <2>1, <2>2, <2>3, SetupPosts DEF SetupOpen
  <2>. QED
    BY <2>1, <2>4, VerdictsKept
<1>17. ASSUME NEW r \in Requests, NEW m \in Mappings, RefuseSingleRun(r, m)
       PROVE SetupClean' /\ SkipVerdictFresh'
  <2>1. UNCHANGED <<dirty, out, mail>> /\ skipped' = {} /\ pending' = {} /\ mode' = "None"
    BY <1>17 DEF RefuseSingleRun, SinglePreamble
  <2>. QED
    BY <2>1, VerdictsKept DEF SetupOpen
<1>18. ASSUME NEW s \in Slots, Worker(s) PROVE SetupClean' /\ SkipVerdictFresh'
  <2>1. /\ UNCHANGED <<dirty, skipped, pending, mode>>
        /\ UNCHANGED mail \/ \E e : TakeMail(s, e)
        /\ UNCHANGED out \/ \E e \in {"completed", "conflict", "pause"} : Emit(s, e)
    BY <1>18 DEF Worker, WorkerProcess, WorkerObserve, WorkerResume, WorkerPause, WorkerDefer,
       WorkerAbandon, WorkerComplete, Complete
  <2>2. SetupOpen' => SetupOpen
    BY <1>0, <2>1, SetupPosts DEF SetupOpen
  <2>. QED
    BY <2>1, <2>2, VerdictsKept
<1>19. CASE \/ PumpWait \/ \E answered \in SUBSET toPresent : PresentPendingConflicts(answered)
            \/ \E m \in Togglable : SetMappingEnabled(m)
            \/ CancelFuture \/ UNCHANGED vars
  BY <1>1, <1>19 DEF PumpWait, PresentPendingConflicts, SetMappingEnabled, CancelFuture
<1>20. CASE Engine
  BY <1>3, <1>4, <1>6, <1>7, <1>8, <1>9, <1>10, <1>11, <1>12, <1>13, <1>14, <1>19, <1>20 DEF Engine
<1>21. CASE Host
  BY <1>14, <1>15, <1>16, <1>17, <1>19, <1>21 DEF Host
<1>. QED
  BY <1>5, <1>18, <1>19, <1>20, <1>21 DEF Next

(***************************************************************************)
(* Answers.                                                                *)
(***************************************************************************)
LEMMA AnswerTold ==
    ASSUME TypeOK, AnswerSaid, NEW s \in Slots, NEW e \in SignalKinds, Emit(s, e),
           \A t \in Slots : t # s => res'[t] = res[t],
           IF e = "completed" THEN res'[s].outcome # "none" ELSE res'[s] = res[s]
    PROVE  AnswerSaid'
<1>1. \A t \in Slots : Finished(t)' => Finished(t) \/ t = s
  BY OutEmitted DEF Finished, TypeOK
<1>2. e # "completed" /\ Finished(s)' => Finished(s)
  BY OutEmitted DEF Finished, TypeOK, Posted
<1>. QED
  BY <1>1, <1>2 DEF AnswerSaid

LEMMA AnswerStep ==
    ASSUME TablesAgree, AnswerSaid, [Next]_vars PROVE AnswerSaid'
<1>. USE DEF TablesAgree, TypeOK
<1>1. ASSUME UNCHANGED <<out, res>> PROVE AnswerSaid'
  BY <1>1 DEF AnswerSaid, Finished
<1>2. ASSUME NEW s \in Slots, NEW e \in {"conflict", "pause", "controllersReady", "fastPathReady"},
             TakeSignal(s, e), UNCHANGED res
      PROVE AnswerSaid'
  <2>1. \A t \in Slots : Finished(t)' => Finished(t)
    <3>1. out[s] \in Seq(SignalKinds)
      BY DEF WorkTyped
    <3>. QED
      BY <1>2, <3>1, HasTail DEF Finished, TakeSignal, WorkTyped
  <2>. QED
    BY <1>2, <2>1 DEF AnswerSaid
<1>3. ASSUME NEW s \in Slots, TakeSignal(s, "completed"), res' = [res EXCEPT ![s] = NoResult]
      PROVE AnswerSaid'
  <2>1. ~Finished(s)' /\ \A t \in Slots : t # s => (Finished(t)' => Finished(t))
    BY <1>3, OutTaken DEF Finished, Taken, OneAnswerPerLease, AnswerOwed
  <2>. QED
    BY <1>3, <2>1 DEF AnswerSaid, WorkTyped
<1>4. ASSUME NEW s \in Slots, NEW r \in Results, r.outcome # "none", Complete(s, r)
      PROVE AnswerSaid'
  BY <1>4, Kinds, AnswerTold DEF Complete, WorkTyped
<1>5. ASSUME NEW s \in Slots, NEW e \in {"conflict", "pause", "controllersReady", "fastPathReady"},
             Emit(s, e), UNCHANGED res
      PROVE AnswerSaid'
  BY <1>5, Kinds, AnswerTold
<1>6. CASE Engine
  <2>1. CASE \E s \in Slots : CompleteQueued(s) \/ CompleteAndRedispatch(s) \/ CompleteSingle(s)
    BY <1>3, <2>1 DEF CompleteQueued, CompleteAndRedispatch, CompleteSingle
  <2>2. CASE \/ OnActiveControllersReady
             \/ \E unchanged \in SUBSET pending : OnFastPathReady(unchanged)
             \/ \E s \in Slots : OnConflictDetected(s) \/ OnConflictPauseRequested(s)
    BY <1>2, <2>2, Numbers DEF OnActiveControllersReady, OnFastPathReady, OnConflictDetected,
       OnConflictPauseRequested
  <2>3. CASE \/ \E m \in Mappings : PumpLost(m) \/ PumpSkip(m)
             \/ \E m \in Mappings, s \in Slots : PumpDispatch(m, s)
             \/ PumpWait \/ PumpResolutionPass \/ PumpFixpointPass \/ PumpFinish \/ PumpCancelled
             \/ \E answered \in SUBSET toPresent : PresentPendingConflicts(answered)
             \/ OnCancelObserved
    BY <1>1, <2>3 DEF PumpLost, PumpSkip, PumpDispatch, PumpWait, PumpResolutionPass,
       PumpFixpointPass, RePass, PumpFinish, PumpCancelled, PresentPendingConflicts, OnCancelObserved
  <2>. QED
    BY <1>6, <2>1, <2>2, <2>3 DEF Engine
<1>7. ASSUME NEW s \in Slots, Worker(s) PROVE AnswerSaid'
  <2>1. CASE WorkerProcess(s)
    BY <1>1, <1>4, <2>1, Kinds DEF WorkerProcess
  <2>2. CASE WorkerObserve(s)
    BY <1>1, <1>4, <2>2, Kinds DEF WorkerObserve
  <2>3. CASE WorkerPause(s) \/ WorkerDefer(s)
    BY <1>5, <2>3 DEF WorkerPause, WorkerDefer
  <2>4. CASE \E r \in Results : WorkerComplete(s, r)
    BY <1>4, <2>4 DEF WorkerComplete
  <2>. QED
    BY <1>1, <1>7, <2>1, <2>2, <2>3, <2>4 DEF Worker, WorkerResume, WorkerAbandon
<1>8. ASSUME NEW kind \in {"controllers", "fastPath"}, WorkerSetup(kind) PROVE AnswerSaid'
  BY <1>5, <1>8, Numbers DEF WorkerSetup
<1>9. CASE Host
  BY <1>1, <1>9 DEF Host, StartQueueRun, StartSingleRun, RefuseSingleRun, SetMappingEnabled,
     CancelFuture, CancelWithReason, LoseResource
<1>. QED
  BY <1>1, <1>6, <1>7, <1>8, <1>9 DEF Next

(***************************************************************************)
(* The invariant.                                                          *)
(***************************************************************************)
LEMMA InitDispatching == Init => Dispatching
<1>. SUFFICES ASSUME Init PROVE Dispatching
  OBVIOUS
<1>1. InFlight = {} /\ ~iface /\ effCap = 1 /\ mode = "None"
  BY DEF Init, InFlight
<1>2. CapsKept
  <2>1. \A b \in Backends : Using(b) = {}
    BY <1>1 DEF Using
  <2>. QED
    BY <1>1, <2>1, MappingsFinite, TopologyAssumption DEF CapsKept
<1>3. OneSlot /\ SkipVerdictFresh
  BY <1>1 DEF OneSlot, SkipVerdictFresh
<1>4. PauseOfTheAsked /\ SetupClean /\ AnswerSaid
  BY Numbers DEF Init, PauseOfTheAsked, SetupClean, AnswerSaid, Has, Finished
<1>5. ResumeReachesAsker
  BY Numbers DEF Init, ResumeReachesAsker, Has
<1>. QED
  BY <1>2, <1>3, <1>4, <1>5 DEF Dispatching

LEMMA StepIInv == IInv /\ [Next]_vars => IInv'
<1>. SUFFICES ASSUME TablesAgree, Dispatching, [Next]_vars PROVE IInv'
  BY DEF IInv
<1>1. TablesAgree'
  BY StepAgrees
<1>2. CapsKept' /\ OneSlot'
  BY CapsStep, SlotStep DEF Dispatching
<1>3. PauseOfTheAsked' /\ ResumeReachesAsker'
  <2>1. \A t \in Slots : PausesTold(t)
    BY DEF Dispatching, PauseOfTheAsked, ResumeReachesAsker, PausesTold, ResumeFirst
  <2>2. \A t \in Slots : PausesTold(t)'
    BY <2>1, PausesStep DEF Dispatching
  <2>. QED
    BY <2>2, Numbers DEF PauseOfTheAsked, ResumeReachesAsker, PausesTold, ResumeFirst
<1>4. SetupClean' /\ SkipVerdictFresh'
  BY <1>1, VerdictsStep DEF Dispatching
<1>5. AnswerSaid'
  BY AnswerStep DEF Dispatching
<1>. QED
  BY <1>1, <1>2, <1>3, <1>4, <1>5 DEF IInv, Dispatching

(* The whole inductive invariant: the tables, the queues, the caps, the    *)
(* pauses, the verdicts and the answers agree after every step.            *)
THEOREM Invariance == Spec => []IInv
<1>1. Init => IInv
  BY InitAgrees, InitDispatching DEF IInv
<1>. QED
  BY <1>1, StepIInv, PTL DEF Spec

(* A lease never fails: pumpQueue() finds a free slot whenever it is below *)
(* the cap, and passes neither its own cap nor a backend's.                *)
THEOREM Leases == Spec => []LeasesSound
<1>1. IInv => LeasesSound
  BY SlotForLease DEF IInv, TablesAgree, Dispatching, LeasesSound, LeaseTable, CapsKept, Using
<1>. QED
  BY <1>1, Invariance, PTL

(* The answer to a pause reaches the worker that asked, and reaches it     *)
(* before its next request.                                                *)
THEOREM Pauses == Spec => []ResumeReachesAsker
<1>1. IInv => ResumeReachesAsker
  BY DEF IInv, Dispatching
<1>. QED
  BY <1>1, Invariance, PTL

(* No mapping is skipped on a verdict that a write of this run made stale. *)
THEOREM Verdicts == Spec => []SkipVerdictFresh
<1>1. IInv => SkipVerdictFresh
  BY DEF IInv, Dispatching
<1>. QED
  BY <1>1, Invariance, PTL

(***************************************************************************)
(* Nothing is dropped.                                                     *)
(***************************************************************************)
DropStep ==
    mode = "Queue" =>
        \/ mode' = "Queue" /\ pending \union InFlight \union Answered
                                \subseteq (pending \union InFlight \union Answered)'
        \/ mode' = "None" /\ InFlight = {} /\ (cancelled \/ pending = {})

LEMMA DroppedNever == IInv /\ [Next]_vars => DropStep
<1>. SUFFICES ASSUME TablesAgree, AnswerSaid, [Next]_vars, mode = "Queue" PROVE DropStep
  BY DEF IInv, Dispatching, DropStep
<1>. USE DEF TablesAgree, TypeOK, Answered, Reported
<1>1. ASSUME UNCHANGED <<mode, pending, inFlight, carried, results>> PROVE DropStep
  BY <1>1 DEF DropStep, InFlight
<1>2. ASSUME NEW m \in Mappings, PumpLost(m) \/ PumpSkip(m) PROVE DropStep
  <2>1. /\ UNCHANGED <<mode, inFlight, carried>> /\ pending' = pending \ {m}
        /\ \E o \in {"ok", "cancelled"} : results' = [results EXCEPT ![m] = o]
    BY <1>2 DEF PumpLost, PumpSkip, Take
  <2>. QED
    BY <2>1 DEF DropStep, InFlight, QueueTyped
<1>3. ASSUME NEW m \in Mappings, NEW s \in Slots, PumpDispatch(m, s) PROVE DropStep
  <2>1. /\ UNCHANGED <<mode, results, carried>> /\ pending' = pending \ {m}
        /\ inFlight' = [inFlight EXCEPT ![m] = s]
    BY <1>3 DEF PumpDispatch, Take, Dispatch
  <2>2. InFlight' = InFlight \union {m}
    BY <2>1, Numbers DEF InFlight, PoolTyped
  <2>. QED
    BY <2>1, <2>2 DEF DropStep
<1>4. CASE PumpResolutionPass \/ PumpFixpointPass
  <2>1. /\ UNCHANGED inFlight /\ carried' = carried \union Reported /\ mode' = "Queue"
        /\ InFlight = {} /\ pending = {}
    BY <1>4 DEF PumpResolutionPass, PumpFixpointPass, RePass, Prime, CarryOver, Drained
  <2>. QED
    BY <2>1 DEF DropStep
<1>5. ASSUME NEW s \in Slots, CompleteQueued(s) PROVE DropStep
  <2>1. /\ TakeSignal(s, "completed") /\ UNCHANGED <<mode, pending, carried>>
        /\ results' = [results EXCEPT ![busy[s]] = res[s].outcome]
        /\ inFlight' = [inFlight EXCEPT ![busy[s]] = None]
    BY <1>5 DEF CompleteQueued, Released
  <2>2. busy[s] \in Mappings
    BY <2>1, SignalFromLease DEF TakeSignal
  <2>3. Finished(s)
    BY <2>1, OutTaken DEF Finished, Taken
  <2>4. res[s].outcome # "none"
    BY <2>3 DEF AnswerSaid
  <2>5. InFlight \subseteq InFlight' \union {busy[s]}
    BY <2>1 DEF InFlight, PoolTyped
  <2>6. Reported \union {busy[s]} \subseteq Reported'
    BY <2>1, <2>2, <2>4 DEF QueueTyped
  <2>. QED
    BY <2>1, <2>5, <2>6 DEF DropStep
<1>6. CASE OnActiveControllersReady \/ \E unchanged \in SUBSET pending : OnFastPathReady(unchanged)
  <2>1. InFlight = {}
    <3>1. \E e \in ReadyKinds : TakeSignal(ControlSlot, e)
      BY <1>6 DEF OnActiveControllersReady, OnFastPathReady, ReadyKinds
    <3>2. Has(out[ControlSlot], ReadyKinds)
      BY <3>1, OutTaken, Numbers DEF Taken
    <3>. QED
      BY <3>2, Numbers DEF SetupAlone
  <2>. QED
    BY <1>1, <1>6, <2>1
       DEF OnActiveControllersReady, OnFastPathReady, FinishSetup, FinishRun, DropStep
<1>7. CASE PumpFinish \/ PumpCancelled
  BY <1>1, <1>7 DEF PumpFinish, Drained, PumpCancelled, MustDrain, FinishRun, DropStep
<1>8. CASE Engine
  BY <1>1, <1>2, <1>3, <1>4, <1>5, <1>6, <1>7, <1>8
     DEF Engine, PumpWait, CompleteAndRedispatch, CompleteSingle, OnConflictDetected,
         OnConflictPauseRequested, PresentPendingConflicts, OnCancelObserved
<1>9. ASSUME NEW s \in Slots, Worker(s) PROVE DropStep
  BY <1>1, <1>9 DEF Worker, WorkerProcess, WorkerObserve, WorkerResume, WorkerPause, WorkerDefer,
     WorkerAbandon, WorkerComplete
<1>10. ASSUME NEW kind \in {"controllers", "fastPath"}, WorkerSetup(kind) PROVE DropStep
  BY <1>1, <1>10 DEF WorkerSetup
<1>11. CASE Host
  <2>1. iface
    BY DEF Phases
  <2>. QED
    BY <1>1, <1>11, <2>1 DEF Host, StartQueueRun, StartSingleRun, RefuseSingleRun, SinglePreamble,
       SetMappingEnabled, CancelFuture, CancelWithReason, LoseResource
<1>. QED
  BY <1>1, <1>8, <1>9, <1>10, <1>11 DEF Next

(* No mapping that a queue run has taken on is dropped: it stays queued,   *)
(* in flight or answered until the run finishes, which is with nothing in  *)
(* flight and, unless it was cancelled, with nothing queued.               *)
THEOREM Answers == Spec => NothingDropped
<1>1. IInv /\ [Next]_vars => [DropStep]_vars
  BY DroppedNever
<1>. QED
  BY <1>1, Invariance, PTL DEF Spec, NothingDropped, DropStep
=============================================================================
