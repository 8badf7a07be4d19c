---------------------------- MODULE MCReconcile ----------------------------
(* Small instances of Reconcile and of what the documents claim of it.     *)
EXTENDS ReconcileClaims, ReconcileInv, TLC

Mapping(m, p, ids, overrides, lockable) ==
    [mode |-> m, policy |-> p, ids |-> ids, overrides |-> overrides, lockable |-> lockable]
Over(d, c) == [direction |-> d, clobber |-> c]
Plain == {Over("Default", FALSE)}
AllOverrides == Plain \cup {Over("MirrorAToB", FALSE), Over("MirrorBToA", TRUE),
                            Over("MirrorBToA", FALSE)}

(* Two records under plain runs of a two-way mapping; one record under     *)
(* every mode and override, with a target that may turn read-only.         *)
TwoRecords == {Mapping("TwoWay", p, Ids, Plain, {}) : p \in {"LastWriteWins", "AskUser"}}
Mode(m, p) == {Mapping(m, p, {id}, AllOverrides, {"target"}) : id \in Ids}
AllModes == Mode("TwoWay", "LastWriteWins") \cup Mode("TwoWay", "AskUser") \cup Mode("TwoWay", "Skip")
            \cup Mode("OneWayUpload", "SourceWins") \cup Mode("OneWayDownload", "TargetWins")
Everything == TwoRecords \cup AllModes
ReadOnlyForAWhile == {Mapping("TwoWay", "LastWriteWins", Ids, Plain, {"target"})}

IdSymmetry == Permutations(Ids)
=============================================================================
