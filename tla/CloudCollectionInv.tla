------------------------- MODULE CloudCollectionInv -------------------------
(***************************************************************************)
(* The inductive invariant of CloudCollection: what a walk owes to the     *)
(* rows it has passed and to those to come, and how a batch accounts for   *)
(* its records.                                                            *)
(***************************************************************************)
EXTENDS CloudCollection

RowType == [main : Nat, note : Nat]
Rows == [Items -> RowType]
Walks == [phase : {"idle", "asked", "waiting"}, token : Nat, cache : Rows, prev : Rows,
          at : Nat, start : Nat, tries : Nat, pages : Nat, resynced : BOOLEAN]
BatchStates ==
    [phase : {"idle", "begun", "sent", "answered", "over"},
     what : {"none", "create", "update", "carrier", "delete", "relist"}, item : 0..Last,
     answer : {"none", "ok", "gone", "no"}, create : SUBSET Items, update : SUBSET Items,
     delete : SUBSET Items, ok : SUBSET Items, bad : SUBSET Items, done : SUBSET Items]

LateRequests == [what : {"create", "update", "delete", "carrier"}, item : Items, heard : BOOLEAN]

BudgetTyped ==
    /\ {"kind", "fetches", "writes"} \subseteq DOMAIN budget
    /\ Kind \in {"calendar", "people", "tasks", "delta", "lists"}
    /\ \A op \in DOMAIN budget.writes : ~IsFetch(op) /\ Wanted(op) \in Batches

(* The server knows when each item changed last, and a token is the number *)
(* of a change.                                                            *)
ServerTyped ==
    /\ seq \in Nat \ {0} /\ changed \in [Items -> 0..seq] /\ server \in Rows
    /\ \A i \in Items : changed[i] = 0 => server[i] = Gone
    /\ was \in [Items -> SUBSET RowType]
    /\ cache \in Rows /\ disk \in [token : Nat, cache : Rows]
    /\ token \in 0..seq /\ disk.token \in 0..seq
    /\ ~HasToken => token = 0 /\ disk.token = 0

(* A token goes with rows that are as old at most; without one there are   *)
(* none, or those a cut walk of contacts left, which only fill in.         *)
AtToken(t, rows) == CoversUpTo(t, rows) /\ (t = 0 /\ Kind # "people" => rows = Nothing)
StateAtToken == HasToken => AtToken(token, cache) /\ AtToken(disk.token, disk.cache)

WalkTyped ==
    /\ walk \in Walks
    /\ walk.token <= seq /\ walk.start <= seq
    /\ ~HasToken => walk.token = 0
    /\ Kind = "delta" => walk.at <= seq

(* Of a walk in the order of the items: what was passed is as the server   *)
(* had it at the first page or has changed since, and what is to come is   *)
(* as it was at the token.                                                 *)
ItemWalk ==
    Walking /\ Kind \in {"calendar", "people", "tasks"} =>
        /\ walk.start = 0 => walk.at = 0
        /\ \A i \in Items : i <= walk.at => /\ \E row \in was[i] : Agrees(walk.cache[i], row)
                                            /\ HasToken /\ changed[i] <= walk.start
                                               => Agrees(walk.cache[i], server[i])
        /\ \A i \in Items : i > walk.at => /\ changed[i] <= walk.token
                                              => Agrees(walk.cache[i], server[i])
                                           /\ walk.token = 0 => walk.cache[i] = Gone

(* Of a walk in the order of the changes.                                  *)
DeltaWalk == Walking /\ Kind = "delta" => CoversUpTo(walk.at, walk.cache)

(* Of a walk by offsets: what has not slipped past was given as it was, or *)
(* is still to come.                                                       *)
OffsetWalk ==
    Walking /\ Kind = "lists" =>
        \A i \in Items \ missed :
            \/ \E row \in was[i] : Agrees(walk.cache[i], row)
            \/ There(i) /\ Place(i) > walk.at /\ walk.cache[i] = Gone

WasNow == Walking => \A i \in Items : server[i] \in was[i]

(* The accounts of the batch that runs: each of its records is still to be *)
(* sent, on its way, or settled in one way, and those settled well were    *)
(* seen to happen.                                                         *)
ToSend(b) == b.create \union b.update \union b.delete
OnItsWay(b) == IF b.phase \in {"sent", "answered"} THEN {b.item} ELSE {}
Accounts(b, wanted) ==
    /\ ToSend(b) \union OnItsWay(b) \union b.ok \union b.bad
           = wanted.create \union wanted.update \union wanted.delete
    /\ b.create \intersect b.update = {} /\ (b.create \union b.update) \intersect b.delete = {}
    /\ b.ok \intersect b.bad = {}
    /\ ToSend(b) \intersect (b.ok \union b.bad) = {}
    /\ OnItsWay(b) \intersect (ToSend(b) \union b.ok \union b.bad) = {}
BatchSound ==
    \A op \in Ops : IsWrite(op) /\ opState[op] = "running" =>
        /\ batch.phase \in {"begun", "sent", "answered"}
        /\ batch.phase = "begun" => ToSend(batch) = {}
        /\ Accounts(batch, Wanted(op))
Carried ==
    /\ batch.phase \in {"sent", "answered"} => batch.item \in Items /\ batch.what # "none"
    /\ batch.ok \subseteq batch.done
    /\ batch.phase = "answered" =>
          /\ batch.answer = "ok" /\ (batch.what = "delete" \/ batch.what = "carrier"
                                     \/ (batch.what \in {"create", "update"} /\ ~HasCarriers))
             => batch.item \in batch.done
          /\ batch.answer = "gone" /\ (batch.what = "relist"
                                       \/ (batch.what = "delete" /\ ~HasCarriers))
             => batch.item \in batch.done

ReadInv ==
    /\ ServerTyped /\ WalkTyped
    /\ StateAtToken
    /\ WasNow /\ ItemWalk /\ DeltaWalk /\ OffsetWalk
WriteInv == batch \in BatchStates /\ late \subseteq LateRequests /\ BatchSound /\ Carried
IInv == OpInv /\ BudgetTyped /\ ReadInv /\ WriteInv
=============================================================================
