-------------------------- MODULE ReconcileClaims --------------------------
(***************************************************************************)
(* What comments and headers say of a reconciliation and the code does not *)
(* do: refuted by a run of its own.                                        *)
(***************************************************************************)
EXTENDS Reconcile

(* Baselines are saved "only on successful writes", lest the next sync     *)
(* "wrongly tells source to delete the record the target never actually    *)
(* committed".  A write withheld from a read-only side counts as a success,*)
(* and its row is saved.                                                   *)
OnlyUsersEverDelete ==
    [][\A s \in Sides, id \in Ids :
          Deletes(s, id) /\ Regular(id, {"raced", "recreated"}) => DeletedByUser(s, id)]_vars
=============================================================================
