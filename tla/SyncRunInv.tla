----------------------------- MODULE SyncRunInv -----------------------------
(***************************************************************************)
(* The inductive invariant of SyncRun: what has to be known of the queues  *)
(* between engine and workers for the dispatch tables to stay sound, and   *)
(* of the caps, the slots and the answers for what rests on them.          *)
(***************************************************************************)
EXTENDS SyncRun

(* The in-flight table and the slots name each other.                      *)
LeaseTable ==
    /\ \A s \in Slots : busy[s] # None => s <= poolSize /\ inFlight[busy[s]] = s
    /\ \A m \in InFlight : busy[inFlight[m]] = m

(* A conflict or a pause is reported before the completion of the sync it  *)
(* comes from, so its slot is still leased when the engine reads it.       *)
Reports == {"conflict", "pause"}
ReportsFirst(q) ==
    \A i, j \in 1..Len(q) : q[i] = "completed" /\ q[j] \in Reports => j < i
ReportsBeforeAnswer ==
    \A s \in Slots : /\ Has(out[s], Reports) => busy[s] # None
                     /\ ReportsFirst(out[s])

(* What may be in flight in each dispatch mode.                            *)
Phases ==
    /\ iface <=> mode # "None"
    /\ pc = "pump" => mode = "Queue"
    /\ mode = "None" => InFlight = {} /\ claims = {}
    /\ mode = "Single" => \A m, k \in InFlight : m = k

(* The set-up of a queue run is one question to the control worker at a    *)
(* time, and nothing is dispatched before its last answer.                 *)
SetupKinds == {"controllers", "fastPath"}
ReadyKinds == {"controllersReady", "fastPathReady"}
SetupAlone ==
    /\ \A s \in Slots : Has(mail[s], SetupKinds) \/ Has(out[s], ReadyKinds)
          => /\ s = ControlSlot
             /\ mode = "Queue" /\ pc = "events" /\ InFlight = {}
    /\ AtMostOnce(mail[ControlSlot], SetupKinds)
    /\ AtMostOnce(out[ControlSlot], ReadyKinds)
    /\ ~(Has(mail[ControlSlot], SetupKinds) /\ Has(out[ControlSlot], ReadyKinds))

TablesAgree ==
    /\ TypeOK
    /\ LeaseTable
    /\ OneAnswerPerLease
    /\ ReportsBeforeAnswer
    /\ Phases
    /\ SetupAlone
    /\ ClaimsExact
    /\ EndpointExclusion

(* A run has a slot for each lease its cap allows, and keeps to the caps.  *)
Using(b) == {m \in InFlight : b \in BackendsOf(m)}
CapsKept ==
    /\ iface => effCap <= poolSize
    /\ Cardinality(InFlight) <= effCap
    /\ \A b \in Backends : BackendCap[b] > 0 => Cardinality(Using(b)) <= BackendCap[b]

(* A run that may be paused has one lease, and that on the control slot.   *)
OneSlot ==
    /\ iface /\ (monitored \/ mode = "Single") => effCap = 1
    /\ iface /\ effCap = 1 => \A s \in Slots : busy[s] # None => s = ControlSlot

(* A pause is of the sync that runs, not of one still to come.             *)
PauseOfTheAsked == \A s \in Slots : Has(out[s], {"pause"}) => ~Asked(s)

(* Nothing is written before the answer of the pre-pass.                   *)
SetupClean ==
    Has(mail[ControlSlot], SetupKinds) \/ Has(out[ControlSlot], ReadyKinds)
        => \A e \in Endpoints : dirty[e] = {}

(* A completion says how the sync ended.                                   *)
AnswerSaid == \A s \in Slots : Finished(s) => res[s].outcome # "none"

Dispatching ==
    /\ CapsKept /\ OneSlot
    /\ PauseOfTheAsked /\ ResumeReachesAsker
    /\ SetupClean /\ SkipVerdictFresh
    /\ AnswerSaid

IInv == TablesAgree /\ Dispatching
=============================================================================
