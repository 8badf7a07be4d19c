--------------------------- MODULE SyncRunSettled ---------------------------
(***************************************************************************)
(* Whether one run converges: SyncRun with a history variable for the      *)
(* mappings that have not seen a write another mapping made in this run.   *)
(***************************************************************************)
EXTENDS SyncRun

VARIABLE unsettled  \* mappings an endpoint of which somebody wrote since they last ran

Observe ==
    unsettled' =
        IF mode' # "Queue" \/ mode # "Queue" THEN {}
        ELSE {k \in Mappings :
                /\ \A s \in Slots : ~(busy[s] = k /\ busy'[s] = None)
                /\ results[k] # "none" \/ results'[k] = "none"
                /\ \/ k \in unsettled
                   \/ \E s \in Slots : busy[s] # None /\ busy[s] # k /\ busy'[s] = None
                        /\ res[s].outcome = "ok"
                        /\ Ends(k) \cap WroteEnds(busy[s], res[s]) # {}}

SettledInit == Init /\ unsettled = {}
SettledNext == Next /\ Observe
SettledSpec == SettledInit /\ [][SettledNext]_<<vars, unsettled>> /\ Fairness

(* One sync converges whatever the order of the mappings: a run that is    *)
(* not cancelled and has passes left ends with every enabled mapping having*)
(* run after the last write to its endpoints (the L2 fixpoint re-pass).    *)
(* A resolution re-pass is excepted: it forgets who wrote (see README).    *)
Converges ==
    [][mode = "Queue" /\ mode' = "None" /\ ~cancelled
       /\ pass < MaxSyncPasses /\ resPasses = 0
          => unsettled \cap enabled = {}]_<<vars, unsettled>>
=============================================================================
