------------------------------ MODULE ReconcileInv ------------------------------
(***************************************************************************)
(* The inductive invariant of Reconcile: what a saved row says of an id,   *)
(* and what each stage of a run has still to do for it, as long as nothing *)
(* untoward has happened to that id.                                       *)
(***************************************************************************)
EXTENDS Reconcile

Overrides == [direction : {"Default", "MirrorAToB", "MirrorBToA"}, clobber : BOOLEAN,
              quick : BOOLEAN]
Typed == TypeOK /\ request \in Overrides /\ back \in PerSide(AnyHash)

(* Where a run is says what it has of its variables.                       *)
Phases ==
    /\ stage = "idle" => request = Default /\ touched = {}
    /\ stage # "fetch" => got = {}
    /\ stage \in {"idle", "fetch"} =>
          plan = NoPlan /\ upd = Nothing /\ back = Empty /\ side = "target" /\ todo = {}
    /\ failed => stage = "write"
    /\ stage \in {"apply", "write"} => /\ back.source = Nothing
                                       /\ side = "target" => back = Empty
                                       /\ side = "source" => Planned("target") = {}
    /\ stage \in {"apply", "save"} => todo = {}
    /\ stage = "save" => \A s \in Sides : Planned(s) = {}
    /\ wiped => request.clobber
    /\ request.quick => /\ ~request.clobber /\ config.mode = "OneWayUpload"
                        /\ stage # "apply" /\ upd = Nothing /\ Planned("source") = {}
                        /\ \A id \in Ids : rows[id] = NoRow
                        /\ stage \in {"fetch", "write"} => side = "target"
    /\ stage = "fetch" => \A id \in touched : "wiped" \in marks[id]

(* Of an id nobody edits during a run: what was fetched stands.            *)
Undisturbed(id) == "raced" \notin marks[id]
Fetched(id) == \A s \in got : seen[s][id] = data[s][id]

(* A plan concerns one side and makes it equal to the other.               *)
PlanMade(id, w) ==
    plan[w][id] # Keep =>
        /\ plan[Other(w)][id] = Keep
        /\ plan[w][id] \in {Refused, Absent} => data[Other(w)][id] = Absent /\ upd[id] = 0
        /\ plan[w][id] \notin {Refused, Absent} =>
              /\ plan[w][id] = data[Other(w)][id]
              /\ ~request.quick => upd[id] = Hash(Other(w), data[Other(w)][id])
PlanSound(id) == \A w \in Sides : PlanMade(id, w)

(* What was read back is still there.                                      *)
BackSound(id) ==
    /\ \A s \in Sides : back[s][id] # 0 => back[s][id] = Hash(s, data[s][id])
    /\ request.quick /\ stage = "save" => back.source[id] = Hash("source", data.source[id])

(* A first sync finds the target empty.                                    *)
QuickSound(id) ==
    request.quick => \/ data.target[id] = Absent \/ Equal(id)

(* Of an id whose writes are not withheld either: what a batch is through  *)
(* with is written, and a new row is for a record both sides hold.         *)
Carried(id) == marks[id] \cap {"raced", "withheld"} = {}
WrittenSound(id) ==
    stage = "write" /\ ~failed /\ id \notin todo /\ plan[side][id] # Keep =>
        \/ data[side][id] = plan[side][id]
        \/ plan[side][id] = Absent /\ "denied" \in marks[id]
Pushed(id, w) ==
    /\ Equal(id) /\ data.source[id] # Absent
    /\ back[w][id] = Hash(w, data[w][id])
    /\ upd[id] = Hash(Other(w), data[Other(w)][id])
UpdSound(id) ==
    upd[id] # 0 => \E w \in Sides : plan[w][id] # Keep \/ Pushed(id, w)
QuickCarried(id) ==
    request.quick /\ stage \in {"write", "save"} => Equal(id) \/ plan.target[id] # Keep

(* A row is that of one content, unless the id is gone from both sides.    *)
Paired(id) ==
    rows[id] # NoRow /\ (\E s \in Sides : data[s][id] # Absent) =>
        \E c \in Contents : \A s \in Sides : rows[id][s] = Hash(s, c)

(* An id that is missing where it was is missing because a user deleted it *)
(* there, or it is gone from both sides.                                   *)
GoneKnown(id) ==
    \A s \in Sides : rows[id] # NoRow /\ data[s][id] = Absent /\ id \notin gone[s]
                        => data[Other(s)][id] = Absent

(* A side no user has changed is as the row says.                          *)
Clean(id, s) ==
    id \notin unsynced[s] =>
        /\ rows[id] = NoRow => data[s][id] = Absent
        /\ rows[id] # NoRow /\ data[s][id] # Absent => rows[id][s] = Hash(s, data[s][id])
        /\ rows[id] # NoRow /\ data[s][id] = Absent => data[Other(s)][id] = Absent
Base(id) ==
    /\ \A s \in Sides : Clean(id, s)
    /\ (\A s \in Sides : id \notin unsynced[s]) => Equal(id)

(* A record the run has written is equal and gets a row, one it found      *)
(* equal has its row.                                                      *)
TouchedSound(id) ==
    id \in touched => /\ Equal(id)
                      /\ ~request.quick /\ data.source[id] # Absent => upd[id] # 0
Calm(id) ==
    /\ stage \in {"apply", "write", "save"} /\ ~request.quick /\ upd[id] = 0
    /\ config.policy # "Skip" /\ Equal(id) /\ data.source[id] # Absent
    => RowOk(id)

(* What a plain run plans has a cause.                                     *)
Caused(id) ==
    PlainRun => \A w \in Sides :
        plan[w][id] \notin {Keep, Refused} /\ data[w][id] # plan[w][id] => id \in unsynced[Other(w)]
DeletionCaused(id) ==
    PlainRun => \A w \in Sides :
        plan[w][id] = Absent /\ data[w][id] # Absent => id \in gone[Other(w)]

(* A two-way run has a plan for each id that differs.                      *)
TwoWay == config.mode = "TwoWay" /\ config.policy # "Skip" /\ (PlainRun \/ request.clobber)
Covered(id) ==
    TwoWay /\ stage \in {"apply", "write", "save"} =>
        Equal(id) \/ \E w \in Sides : plan[w][id] # Keep

(* A clobber finds the target empty.                                       *)
Clobbered(id) ==
    request.clobber =>
        /\ wiped /\ stage = "fetch" => data.target[id] = Absent
        /\ "target" \in got => wiped
        /\ plan.source[id] = Keep

IdInv(id) ==
    /\ Undisturbed(id) => /\ Fetched(id) /\ PlanSound(id) /\ BackSound(id) /\ QuickSound(id)
                          /\ Clobbered(id)
    /\ Carried(id) => WrittenSound(id) /\ UpdSound(id) /\ QuickCarried(id)
    /\ Regular(id, {"raced", "recreated", "withheld"}) => Paired(id)
    /\ Regular(id, {"raced", "recreated", "withheld", "wiped"}) =>
          GoneKnown(id) /\ DeletionCaused(id)
    /\ Regular(id, {"raced", "recreated", "withheld", "denied"}) => Covered(id)
    /\ Regular(id, Marks) => /\ id \notin touched => Base(id)
                             /\ TouchedSound(id) /\ Calm(id) /\ Caused(id)

IInv == Typed /\ Phases /\ \A id \in Ids : IdInv(id)
=============================================================================
