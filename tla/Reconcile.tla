----------------------------- MODULE Reconcile -----------------------------
(***************************************************************************)
(* One mapping of libkalburator reconciled over and over: the three-way    *)
(* diff of SyncEngineWorker::dispatchSync against the saved baseline rows, *)
(* the conflict walk, the two write batches, the read-back and the save,   *)
(* between users who edit both collections at any time, backends that fail *)
(* and processes that crash.                                               *)
(*                                                                         *)
(* A record is an id and a content; both sides use the same ids (aliases   *)
(* are left out).  The content hash of a side is that of its own encoding: *)
(* the same content has another hash on the other side when TargetCoding   *)
(* is not zero.                                                            *)
(***************************************************************************)
EXTENDS Integers, FiniteSets

CONSTANTS
    Ids,            \* record ids of the mapping
    Contents,       \* what a record may hold, positive numbers
    TargetCoding,   \* what the target's encoding adds to the hash of a content
    Configs,        \* the mappings considered, with their surroundings:
                    \* [mode, policy, the ids in use, the overrides a run may ask
                    \*  for, the sides whose server may withdraw write access]
    Answers,        \* what a user may choose for a conflict
    GuardInstalled, \* is an IMassDeleteGuard registered?
    MaxEdits,       \* bound: edits made by users
    MaxFaults       \* bound: refused writes, failed reads, crashes

Absent == 0
Keep == -1          \* a plan leaves the record alone
Refused == -2       \* a record without id, which every backend refuses
Sides == {"source", "target"}
Other(s) == IF s = "source" THEN "target" ELSE "source"
Marks == {"raced", "recreated", "withheld", "denied", "interrupted", "wiped"}

ASSUME ContentsArePositive == Contents \subseteq Nat \ {0}
ASSUME TargetCodingAssumption == TargetCoding \in Nat
ASSUME ConfigsAssumption ==
    \A c \in Configs :
        /\ c.mode \in {"TwoWay", "OneWayUpload", "OneWayDownload"}
        /\ c.policy \in {"AskUser", "SourceWins", "TargetWins", "LastWriteWins", "Skip"}
        /\ c.ids \subseteq Ids /\ c.lockable \subseteq Sides
        /\ c.overrides \subseteq [direction : {"Default", "MirrorAToB", "MirrorBToA"},
                                  clobber : BOOLEAN]
ASSUME AnswersAssumption ==
    Answers \subseteq {"SourceWins", "TargetWins", "LastWriteWins"}
ASSUME BoundsAssumption == MaxEdits \in Nat /\ MaxFaults \in Nat
ASSUME GuardAssumption == GuardInstalled \in BOOLEAN

VARIABLES
    config,    \* the mapping: one of Configs
    data,      \* data[s][id]: what the collection of side s holds
    writable,  \* writable[s]: discoveredWritable() of the side
    rows,      \* rows[id]: the saved baseline, a hash per side
    stage,     \* where the run is: idle, fetch, apply, write, save
    request,   \* the run's override, and quick for a first sync
    got,       \* sides fetched so far
    wiped,     \* a clobber has emptied the target
    seen,      \* seen[s][id]: what was fetched
    plan,      \* plan[s][id]: what will be written, Keep for nothing
    upd,       \* upd[id]: hash of the record a new row is wanted for, or 0
    side,      \* side of the current batch
    todo,      \* ids of the batch not written yet
    known,     \* ids the side held when the batch was classified
    failed,    \* a write of the batch was refused
    back,      \* back[s][id]: hashes read back after the batch of side s
    unsynced,  \* history: ids changed on side s by a user and not in step since
    gone,      \* history: ids a user deleted on side s, not in step since
    marks,     \* history: what makes the baseline of an id untrustworthy
    touched,   \* history: ids this run has changed
    edits, faults

runVars == <<request, got, wiped, seen, plan, upd, side, todo, known, failed, back, touched>>
history == <<unsynced, gone, marks>>
vars == <<config, data, writable, rows, stage, runVars, history, edits, faults>>

NoRow == [source |-> 0, target |-> 0]
Nothing == [id \in Ids |-> Absent]
Empty == [s \in Sides |-> Nothing]
NoPlan == [s \in Sides |-> [id \in Ids |-> Keep]]
Default == [direction |-> "Default", clobber |-> FALSE, quick |-> FALSE]

(* BackendRecord::contentHash, in the encoding of the side; 0 if absent.   *)
Hash(s, c) == IF c = Absent THEN 0 ELSE IF s = "source" THEN c ELSE c + TargetCoding
HashesOf(s) == [id \in Ids |-> Hash(s, data[s][id])]

(* The time of last modification travels in the payload; two contents may  *)
(* carry the same time, and a deleted record has none.                     *)
Modified(c) == IF c = Absent THEN 0 ELSE 1 + c \div 2

RowOk(id) == \A s \in Sides : rows[id][s] = Hash(s, data[s][id])
-----------------------------------------------------------------------------
(* perRecordDiff(): what to do with an id fetched as s and t whose row is b.*)
Op(kind, to) == [kind |-> kind, to |-> to]
NoOp == Op("none", "target")
Conflict == Op("conflict", "target")

DiffOp(s, t, b) ==
    LET sChanged == Hash("source", s) # b.source
        tChanged == Hash("target", t) # b.target
    IN CASE b # NoRow /\ s # Absent /\ t # Absent ->
              IF sChanged /\ tChanged THEN Conflict
              ELSE IF sChanged THEN Op("update", "target")
              ELSE IF tChanged THEN Op("update", "source") ELSE NoOp
         [] b # NoRow /\ s = Absent /\ t # Absent ->
              IF tChanged THEN Conflict ELSE Op("delete", "target")
         [] b # NoRow /\ s # Absent /\ t = Absent ->
              IF sChanged THEN Conflict ELSE Op("delete", "source")
         [] b = NoRow /\ s # Absent /\ t = Absent -> Op("create", "target")
         [] b = NoRow /\ s = Absent /\ t # Absent -> Op("create", "source")
         [] b = NoRow /\ s # Absent /\ t # Absent -> IF s = t THEN NoOp ELSE Conflict
         [] OTHER -> NoOp

(* A clobber does not load the baseline.                                   *)
KnownNothing(id) == NoRow
Known(id) == IF request.clobber THEN NoRow ELSE rows[id]
OpOf(id) == DiffOp(seen.source[id], seen.target[id], Known(id))
Conflicts == {id \in Ids : OpOf(id) = Conflict}
-----------------------------------------------------------------------------
(* What one op contributes to the merge: finalTarget, finalSource and      *)
(* updatedBaselines.                                                       *)
NoWrite == [source |-> Keep, target |-> Keep, upd |-> 0]
Write(s, c, h) == [NoWrite EXCEPT ![s] = c, !.upd = h]

(* Append the record of a side for the other one as it is: the record of a *)
(* deleted side has no id.                                                 *)
Push(s, id) ==
    IF seen[s][id] = Absent THEN Write(Other(s), Refused, 0)
    ELSE Write(Other(s), seen[s][id], Hash(s, seen[s][id]))
(* Let a side win: its deletion is carried over as a deletion.             *)
Take(s, id) ==
    IF seen[s][id] = Absent THEN Write(Other(s), Absent, 0) ELSE Push(s, id)
Doom(s) == Write(s, Absent, 0)

(* The switch of unifiedHandleConflicts() for a policy, and that of        *)
(* applyConflictResolution() for the answer of a user.                     *)
Resolve(id) ==
    CASE config.policy = "SourceWins" -> Take("source", id)
      [] config.policy = "TargetWins" -> Take("target", id)
      [] config.policy = "LastWriteWins" ->
           Take(IF Modified(seen.source[id]) > Modified(seen.target[id])
                THEN "source" ELSE "target", id)
      [] OTHER -> NoWrite
Answered(answer, id) ==
    CASE answer = "SourceWins" -> Push("source", id)
      [] answer = "TargetWins" -> Push("target", id)
      [] answer = "LastWriteWins" ->
           Push(IF Modified(seen.source[id]) >= Modified(seen.target[id])
                THEN "source" ELSE "target", id)
      [] OTHER -> NoWrite

(* The mapping's mode filters every op but a conflict.                     *)
FilteredUnlessDownload(op) == op.to = "source" /\ config.mode # "OneWayDownload"
Filtered(op) ==
    \/ op.to = "target" /\ config.mode = "OneWayDownload"
    \/ op.to = "source" /\ config.mode = "OneWayUpload"

MergeDefault(id, answer) ==
    LET op == OpOf(id)
    IN IF op = Conflict
       THEN IF config.policy = "AskUser" THEN Answered(answer[id], id) ELSE Resolve(id)
       ELSE IF op = NoOp \/ Filtered(op) THEN NoWrite
       ELSE IF op.kind = "delete" THEN Doom(op.to)
       ELSE Push(Other(op.to), id)

MergeMirrorAToB(id) ==
    LET op == OpOf(id)
    IN IF op = NoOp THEN NoWrite
       ELSE IF op.to = "target"
            THEN IF op.kind = "delete" THEN Doom("target") ELSE Push("source", id)
       ELSE IF op.kind = "create" THEN Doom("target") ELSE NoWrite

MergeMirrorBToA(id) ==
    LET op == OpOf(id)
    IN IF op = NoOp THEN NoWrite
       ELSE IF op.to = "source"
            THEN IF op.kind = "delete" THEN Doom("source") ELSE Push("target", id)
       ELSE IF op.kind = "create" THEN Doom("source")
       ELSE IF op.kind = "delete" THEN NoWrite ELSE Push("target", id)

(* A clobber ignores the direction of its override.                        *)
DirectionAsAsked == request.direction
Direction == IF request.clobber THEN "Default" ELSE request.direction
Merge(id, answer) ==
    CASE Direction = "MirrorAToB" -> MergeMirrorAToB(id)
      [] Direction = "MirrorBToA" -> MergeMirrorBToA(id)
      [] OTHER -> MergeDefault(id, answer)

(* Records found equal on both sides and not tracked yet are adopted.      *)
SeededOneHash(id) ==
    IF Known(id) = NoRow /\ seen.source[id] # Absent /\ seen.source[id] = seen.target[id]
    THEN [s \in Sides |-> Hash("source", seen.source[id])] ELSE rows[id]
Seeded(id) ==
    IF Known(id) = NoRow /\ seen.source[id] # Absent /\ seen.source[id] = seen.target[id]
    THEN [s \in Sides |-> Hash(s, seen[s][id])] ELSE rows[id]
-----------------------------------------------------------------------------
Present(s) == {id \in Ids : data[s][id] # Absent}

Init ==
    /\ config \in Configs
    /\ data \in [Sides -> [Ids -> Contents \cup {Absent}]]
    /\ \A s \in Sides : Present(s) \subseteq config.ids
    /\ writable = [s \in Sides |-> TRUE]
    /\ rows = [id \in Ids |-> NoRow]
    /\ stage = "idle"
    /\ request = Default /\ got = {} /\ wiped = FALSE /\ seen = Empty
    /\ plan = NoPlan /\ upd = Nothing /\ side = "target"
    /\ todo = {} /\ known = {} /\ failed = FALSE /\ back = Empty /\ touched = {}
    /\ unsynced = [s \in Sides |-> {id \in Ids : data[s][id] # Absent}]
    /\ gone = [s \in Sides |-> {}]
    /\ marks = [id \in Ids |-> {}]
    /\ edits = 0 /\ faults = 0

Fault == faults < MaxFaults /\ faults' = faults + 1
ForgetRun ==
    /\ request' = Default /\ got' = {} /\ wiped' = FALSE /\ seen' = Empty
    /\ plan' = NoPlan /\ upd' = Nothing /\ side' = "target"
    /\ todo' = {} /\ known' = {} /\ failed' = FALSE /\ back' = Empty /\ touched' = {}

Marked(ids, mark) ==
    marks' = [id \in Ids |-> IF id \in ids THEN marks[id] \cup {mark} ELSE marks[id]]

(* The worker answers.  A run that changed something and did not save its  *)
(* rows leaves the rows of those ids behind.                               *)
Unsaved(ids) == Marked(ids, "interrupted")
GiveUp(ids) ==
    /\ stage' = "idle" /\ ForgetRun
    /\ Unsaved(ids)
    /\ UNCHANGED <<config, writable, rows, unsynced, gone, edits>>

(* An id is in step when both sides hold the same and the row says so.  A  *)
(* run that saves its rows makes up for the edits of the ids it leaves     *)
(* equal, and its rows must say so if nothing untoward happened to the id. *)
(* A policy that skips conflicts makes up for nothing but what is in step: *)
(* the same edit on both sides stays a conflict.                           *)
Equal(id) == data.source[id] = data.target[id]
InStep(id) == Equal(id) /\ (data.source[id] # Absent => RowOk(id))
Settle ==
    LET settled(id) ==
            InStep(id)' \/ (Equal(id)' /\ marks[id] = {} /\ config.policy # "Skip")
    IN /\ marks' = [id \in Ids |-> IF InStep(id)' THEN {} ELSE marks[id]]
       /\ unsynced' = [s \in Sides |-> {id \in unsynced[s] : ~settled(id)}]
       /\ gone' = [s \in Sides |-> {id \in gone[s] : ~settled(id)}]
-----------------------------------------------------------------------------
(* A run is dispatched.                                                    *)
StartRun(o) ==
    /\ stage = "idle"
    /\ stage' = "fetch"
    /\ request' = [direction |-> o.direction, clobber |-> o.clobber, quick |-> FALSE]
    /\ UNCHANGED <<config, data, writable, rows, got, wiped, seen, plan, upd, side,
                   todo, known, failed, back, touched, history, edits, faults>>

(* dispatchFirstSync(): no row, an upload, and a target found empty.       *)
StartFirstSync(o) ==
    /\ stage = "idle"
    /\ ~o.clobber /\ config.mode = "OneWayUpload"
    /\ \A id \in Ids : rows[id] = NoRow /\ data.target[id] = Absent
    /\ stage' = "fetch"
    /\ request' = [direction |-> o.direction, clobber |-> FALSE, quick |-> TRUE]
    /\ UNCHANGED <<config, data, writable, rows, got, wiped, seen, plan, upd, side,
                   todo, known, failed, back, touched, history, edits, faults>>

(* Both sides are fetched at once, except that a first sync reads the      *)
(* source first and a clobber empties the target in between.               *)
Fetch(s) ==
    /\ stage = "fetch" /\ s \notin got
    /\ s = "target" /\ request.clobber => wiped
    /\ s = "target" /\ request.quick => "source" \in got
    /\ got' = got \cup {s}
    /\ seen' = [seen EXCEPT ![s] = data[s]]
    /\ UNCHANGED <<config, data, writable, rows, stage, request, wiped, plan, upd, side,
                   todo, known, failed, back, touched, history, edits, faults>>

CanWipe == stage = "fetch" /\ request.clobber /\ got = {"source"} /\ ~wiped
Wipe ==
    /\ CanWipe
    /\ wiped' = TRUE
    /\ data' = [data EXCEPT !.target = Nothing]
    /\ touched' = touched \cup Present("target")
    /\ Marked(Present("target"), "wiped")
    /\ UNCHANGED <<config, writable, rows, stage, request, got, seen, plan, upd, side,
                   todo, known, failed, back, unsynced, gone, edits, faults>>
WipeFails ==
    /\ CanWipe /\ Fault
    /\ \E lost \in SUBSET Present("target") :
          /\ data' = [data EXCEPT !.target =
                         [id \in Ids |-> IF id \in lost THEN Absent ELSE @[id]]]
          /\ Marked(lost, "wiped")
    /\ stage' = "idle" /\ ForgetRun
    /\ UNCHANGED <<config, writable, rows, unsynced, gone, edits>>

(* Diff, seeding and conflict walk.  Answers are those stored before the   *)
(* run or given while it pauses; a conflict without one holds every write. *)
DropFetched == got' = {} /\ wiped' = FALSE /\ seen' = Empty
Diff ==
    /\ stage = "fetch" /\ got = Sides /\ ~request.quick
    /\ rows' = [id \in Ids |-> Seeded(id)]
    /\ \E answer \in [Conflicts -> Answers \cup {"none"}] :
          IF /\ config.policy = "AskUser" /\ Direction = "Default"
             /\ \E id \in Conflicts : answer[id] = "none"
          THEN /\ stage' = "idle" /\ ForgetRun
               /\ Unsaved(touched)
          ELSE /\ stage' = "apply"
               /\ plan' = [s \in Sides |-> [id \in Ids |-> Merge(id, answer)[s]]]
               /\ upd' = [id \in Ids |-> Merge(id, answer).upd]
               /\ DropFetched
               /\ UNCHANGED <<request, side, todo, known, failed, back, touched, marks>>
    /\ UNCHANGED <<config, data, writable, unsynced, gone, edits, faults>>
-----------------------------------------------------------------------------
Planned(s) == {id \in Ids : plan[s][id] # Keep}

(* The mirror of a first sync: the target is made equal to the source,     *)
(* unless it reports read-only.                                            *)
MirrorAll ==
    /\ stage = "fetch" /\ got = Sides /\ request.quick
    /\ LET differ == {id \in Ids : Hash("source", seen.source[id])
                                      # Hash("target", seen.target[id])}
       IN /\ plan' = [NoPlan EXCEPT !.target =
                         [id \in Ids |-> IF id \in differ THEN seen.source[id] ELSE Keep]]
          /\ todo' = IF writable.target THEN differ ELSE {}
          /\ Marked(differ \ todo', "withheld")
    /\ known' = {id \in Ids : seen.target[id] # Absent}
    /\ stage' = "write" /\ DropFetched
    /\ UNCHANGED <<config, data, writable, rows, request, upd, side,
                   failed, back, touched, unsynced, gone, edits, faults>>

(* The mass-delete guard is asked when the batch deletes more than ten     *)
(* records or more than a quarter of the rows.                             *)
GuardAsked(deletes) ==
    LET proposed == Cardinality(deletes)
        count == Cardinality({id \in Ids : rows[id] # NoRow})
    IN /\ GuardInstalled /\ ~request.clobber /\ deletes # {}
       /\ proposed > 10 \/ (count > 0 /\ (proposed * 100) \div count > 25)

(* applyBatch(): nothing is written to a side that reports read-only, and  *)
(* that is no failure.                                                     *)
BeginBatch ==
    /\ stage = "apply" /\ Planned(side) # {}
    /\ known' = Present(side)
    /\ stage' = "write"
    /\ LET deletes == {id \in Ids : plan[side][id] = Absent}
       IN \/ /\ ~writable[side]
             /\ todo' = {} /\ Marked(Planned(side), "withheld")
          \/ /\ writable[side]
             /\ todo' = Planned(side)
             /\ UNCHANGED marks
          \/ /\ writable[side] /\ GuardAsked(deletes)
             /\ todo' = Planned(side) \ deletes
             /\ Marked(deletes, "denied")
    /\ UNCHANGED <<config, data, writable, rows, request, got, wiped, seen, plan, upd,
                   side, failed, back, touched, unsynced, gone, edits, faults>>

(* A record is created, updated or deleted.  Updating or deleting one that *)
(* is not there any more fails.                                            *)
Possible(id) ==
    /\ plan[side][id] # Refused
    /\ plan[side][id] = Absent \/ id \in known => data[side][id] # Absent
WriteRecord(id) ==
    /\ stage = "write" /\ id \in todo /\ Possible(id)
    /\ data' = [data EXCEPT ![side][id] = plan[side][id]]
    /\ todo' = todo \ {id}
    /\ touched' = touched \cup {id}
    /\ UNCHANGED <<config, writable, rows, stage, request, got, wiped, seen, plan, upd,
                   side, known, failed, back, history, edits, faults>>
RefuseRecord(id) ==
    /\ stage = "write" /\ id \in todo
    /\ IF Possible(id) THEN Fault ELSE UNCHANGED faults
    /\ failed' = TRUE
    /\ todo' = todo \ {id}
    /\ UNCHANGED <<config, data, writable, rows, stage, request, got, wiped, seen, plan,
                   upd, side, known, back, touched, history, edits>>

(* The settled batch counts as done only if no record of it failed.        *)
BatchOkIfAnyWritten == ~failed \/ touched # {}
BatchOk == ~failed
NextStage == IF side = "target" /\ ~request.quick THEN "apply" ELSE "save"

(* The whole collection is read back for the hashes of the new rows; a     *)
(* first sync reads back the source it copied.                             *)
EndBatch ==
    /\ stage = "write" /\ todo = {} /\ BatchOk
    /\ LET read == IF request.quick THEN "source" ELSE side
       IN back' = [back EXCEPT ![read] = HashesOf(read)]
    /\ stage' = NextStage /\ side' = "source"
    /\ plan' = [plan EXCEPT ![side] = NoPlan[side]] /\ known' = {}
    /\ UNCHANGED <<config, data, writable, rows, request, got, wiped, seen, upd,
                   todo, failed, touched, history, edits, faults>>
BatchFailed ==
    /\ stage = "write" /\ todo = {} /\ ~BatchOk
    /\ GiveUp(touched)
    /\ UNCHANGED <<data, faults>>
SkipSide ==
    /\ stage = "apply" /\ Planned(side) = {}
    /\ stage' = NextStage /\ side' = "source"
    /\ UNCHANGED <<config, data, writable, rows, request, got, wiped, seen, plan, upd,
                   todo, known, failed, back, touched, history, edits, faults>>

(* The rows of updatedBaselines: the hash read back where there is one,    *)
(* else that of the record itself, whichever side it came from.            *)
NewRowOneHash(id) == IF upd[id] = 0 THEN rows[id] ELSE [s \in Sides |-> upd[id]]
NewRow(id) ==
    IF upd[id] = 0 THEN rows[id]
    ELSE [s \in Sides |-> IF back[s][id] # 0 THEN back[s][id] ELSE upd[id]]
(* harvestBaselinesAfterFirstSync(): a row for each source record.         *)
HarvestedRowOneHash(id) ==
    IF back.source[id] = 0 THEN rows[id] ELSE [s \in Sides |-> back.source[id]]
HarvestedRow(id) ==
    IF back.source[id] = 0 THEN rows[id]
    ELSE [source |-> back.source[id],
          target |-> IF data.target[id] # Absent THEN Hash("target", data.target[id])
                     ELSE back.source[id]]
Save ==
    /\ stage = "save"
    /\ rows' = [id \in Ids |-> IF request.quick THEN HarvestedRow(id) ELSE NewRow(id)]
    /\ stage' = "idle" /\ ForgetRun
    /\ UNCHANGED <<config, data, writable, edits, faults>>
    /\ Settle

(* The store's transaction is rolled back, and the run succeeds all the    *)
(* same.                                                                   *)
SaveFails ==
    /\ stage = "save" /\ Fault
    /\ stage' = "idle" /\ ForgetRun
    /\ Unsaved(touched)
    /\ UNCHANGED <<config, data, writable, rows, unsynced, gone, edits>>

(* A fetch or a read-back fails, the run is cancelled or the process dies: *)
(* what was written stays, nothing else does.                              *)
Abort ==
    /\ stage # "idle" /\ Fault
    /\ GiveUp(touched)
    /\ UNCHANGED data
-----------------------------------------------------------------------------
(* A user of one side creates, changes or deletes a record.                *)
Edit(s, id, c) ==
    /\ edits < MaxEdits /\ edits' = edits + 1
    /\ data[s][id] # c
    /\ data' = [data EXCEPT ![s][id] = c]
    /\ unsynced' = [unsynced EXCEPT ![s] = @ \cup {id}]
    /\ gone' = [gone EXCEPT ![s] = IF c = Absent THEN @ \cup {id} ELSE @ \ {id}]
    /\ marks' = [marks EXCEPT ![id] =
          @ \cup (IF stage # "idle" THEN {"raced"} ELSE {})
            \cup (IF rows[id] # NoRow /\ \A x \in Sides : data[x][id] = Absent
                  THEN {"recreated"} ELSE {})]
    /\ UNCHANGED <<config, writable, rows, stage, runVars, faults>>

SetWritable(s) ==
    /\ s \in config.lockable
    /\ Fault
    /\ writable' = [writable EXCEPT ![s] = ~@]
    /\ UNCHANGED <<config, data, rows, stage, runVars, history, edits>>

EngineNext ==
    \/ \E o \in config.overrides : StartRun(o) \/ StartFirstSync(o)
    \/ \E s \in Sides : Fetch(s)
    \/ Wipe \/ WipeFails \/ Diff \/ MirrorAll \/ BeginBatch
    \/ \E id \in Ids : WriteRecord(id) \/ RefuseRecord(id)
    \/ EndBatch \/ BatchFailed \/ SkipSide \/ Save \/ SaveFails \/ Abort
Next ==
    \/ EngineNext
    \/ \E s \in Sides, id \in config.ids, c \in Contents \cup {Absent} : Edit(s, id, c)
    \/ \E s \in Sides : SetWritable(s)

Spec == Init /\ [][Next]_vars
-----------------------------------------------------------------------------
Held == Contents \cup {Absent}
PerSide(S) == [Sides -> [Ids -> S]]
HashesIn(s) == {Hash(s, c) : c \in Held}
AnyHash == HashesIn("source") \cup HashesIn("target")

TypeOK ==
    /\ config \in Configs
    /\ data \in PerSide(Held) /\ seen \in PerSide(Held)
    /\ writable \in [Sides -> BOOLEAN]
    /\ rows \in [Ids -> [Sides -> AnyHash]]
    /\ \A id \in Ids : (rows[id].source = 0) = (rows[id].target = 0)
    /\ stage \in {"idle", "fetch", "apply", "write", "save"}
    /\ request.direction \in {"Default", "MirrorAToB", "MirrorBToA"}
    /\ got \subseteq Sides /\ wiped \in BOOLEAN
    /\ plan \in PerSide(Held \cup {Keep, Refused}) /\ upd \in [Ids -> AnyHash]
    /\ side \in Sides /\ todo \subseteq Ids /\ known \subseteq Ids
    /\ \A id \in todo : plan[side][id] # Keep
    /\ failed \in BOOLEAN
    /\ \A s \in Sides : back[s] \in [Ids -> HashesIn(s)]
    /\ unsynced \in [Sides -> SUBSET Ids] /\ gone \in [Sides -> SUBSET Ids]
    /\ marks \in [Ids -> SUBSET Marks] /\ touched \subseteq Ids
    /\ edits \in 0..MaxEdits /\ faults \in 0..MaxFaults

Regular(id, exempt) == marks[id] \cap exempt = {}
Writes(s, id) == stage = "write" /\ edits' = edits /\ data'[s][id] # data[s][id]

PlainRun == request.direction = "Default" /\ ~request.clobber

(* A plain run changes a record only to carry over what a user did on the  *)
(* other side: with a regular history no run undoes, repeats or invents a  *)
(* change, however the runs, failures and edits before it went.            *)
EveryWriteHasACause ==
    [][\A s \in Sides, id \in Ids :
          Writes(s, id) /\ PlainRun /\ Regular(id, Marks)
             => id \in unsynced[Other(s)]]_vars

(* The deletion of a record is the deletion of a user of the other side:   *)
(* a crash, a refused write or a failed read never leads a later plain run *)
(* to delete what is missing only because it was never written.            *)
DeletedByUser(s, id) == id \in gone[Other(s)]
Deletes(s, id) ==
    Writes(s, id) /\ data'[s][id] = Absent /\ PlainRun
OnlyUsersDelete ==
    [][\A s \in Sides, id \in Ids :
          Deletes(s, id) /\ Regular(id, {"raced", "recreated", "withheld", "wiped"})
             => DeletedByUser(s, id)]_vars

(* A two-way run that succeeds leaves both sides equal, but for the ids    *)
(* edited meanwhile and the writes withheld or denied, from any history.   *)
SuccessMeansEqual ==
    [][/\ Save \/ SaveFails
       /\ config.mode = "TwoWay" /\ config.policy # "Skip" /\ (PlainRun \/ request.clobber)
       => \A id \in Ids : data'.source[id] = data'.target[id]
                            \/ (~Regular(id, {"raced", "recreated", "withheld", "denied"}))']_vars

(* A clobber goes from source to target whatever the direction of its      *)
(* override and the policy: it changes a record of the source only if a    *)
(* user changed that record while the run was going on.                    *)
ClobberKeepsSource ==
    [][\A id \in Ids : request.clobber /\ Writes("source", id) => "raced" \in marks[id]]_vars

(* Between runs the baseline tells the truth about every id of a regular   *)
(* history: a side no user has changed is as its row says, and an id       *)
(* nobody has changed is in step.                                          *)
RowsTellTheTruth ==
    stage = "idle" => \A id \in Ids : Regular(id, Marks) =>
        /\ \A s \in Sides : id \notin unsynced[s] /\ rows[id] # NoRow /\ data[s][id] # Absent
                                => rows[id][s] = Hash(s, data[s][id])
        /\ (\A s \in Sides : id \notin unsynced[s]) => InStep(id)

(* A user is asked, or a policy decides, only where both users changed the *)
(* record: the engine's own writes never look like a change of the other   *)
(* side.                                                                   *)
ConflictsAreReal ==
    stage = "fetch" /\ got = Sides /\ ~request.clobber /\ ~request.quick =>
        \A id \in Conflicts : Regular(id, Marks) => \A s \in Sides : id \in unsynced[s]
=============================================================================
