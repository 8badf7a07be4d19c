---------------------------- MODULE ReconcileProofs ----------------------------
(***************************************************************************)
(* Proofs about Reconcile: what is saved of a mapping stays true, and no   *)
(* run invents, repeats or loses a change, for any records, contents,      *)
(* encodings, edits, failures and crashes.                                 *)
(***************************************************************************)
EXTENDS ReconcileInv, TLAPS

USE DEF vars, runVars, history

LEMMA SidesAre ==
    /\ Sides = {"source", "target"} /\ "source" \in Sides /\ "target" \in Sides
    /\ \A s \in Sides : Other(s) \in Sides /\ Other(s) # s /\ Other(Other(s)) = s
    /\ Other("source") = "target" /\ Other("target") = "source"
  BY DEF Sides, Other

(* A content hashes to a positive number, each side's in its own way.      *)
LEMMA HashFacts ==
    /\ 0 \in Held /\ Held \subseteq Nat
    /\ \A s \in Sides : 0 \in HashesIn(s) /\ HashesIn(s) \subseteq AnyHash
    /\ AnyHash \subseteq Nat /\ 0 \in AnyHash
    /\ \A s \in Sides, c \in Held :
          /\ Hash(s, c) \in Nat /\ Hash(s, c) \in HashesIn(s)
          /\ Hash(s, c) = 0 <=> c = Absent
    /\ \A s \in Sides, c, d \in Held : Hash(s, c) = Hash(s, d) => c = d
<1>1. Held \subseteq Nat /\ 0 \in Held /\ \A c \in Held : c # Absent => c > 0
  BY ContentsArePositive DEF Held, Absent
<1>2. ASSUME NEW s \in Sides, NEW c \in Held
      PROVE  /\ Hash(s, c) \in Nat /\ Hash(s, c) \in HashesIn(s)
             /\ Hash(s, c) = 0 <=> c = Absent
             /\ \A d \in Held : Hash(s, c) = Hash(s, d) => c = d
  BY <1>1, TargetCodingAssumption DEF Hash, HashesIn, Absent
<1>3. \A s \in Sides : Hash(s, 0) = 0
  BY DEF Hash, Absent
<1>4. \A s \in Sides : HashesIn(s) \subseteq Nat /\ 0 \in HashesIn(s)
  BY <1>1, <1>2, <1>3 DEF HashesIn
<1>5. AnyHash = HashesIn("source") \cup HashesIn("target")
  BY DEF AnyHash
<1>. QED
  BY <1>1, <1>2, <1>4, <1>5, SidesAre

(***************************************************************************)
(* The diff of one id: perRecordDiff().                                    *)
(***************************************************************************)
SChanged(s, b) == Hash("source", s) # b.source
TChanged(t, b) == Hash("target", t) # b.target

LEMMA DiffCases ==
    ASSUME NEW s, NEW t, NEW b
    PROVE  \/ /\ DiffOp(s, t, b) = NoOp
              /\ \/ s = Absent /\ t = Absent
                 \/ b # NoRow /\ s # Absent /\ t # Absent /\ ~SChanged(s, b) /\ ~TChanged(t, b)
                 \/ b = NoRow /\ s # Absent /\ s = t
           \/ /\ DiffOp(s, t, b) = Conflict
              /\ \/ b # NoRow /\ s # Absent /\ t # Absent /\ SChanged(s, b) /\ TChanged(t, b)
                 \/ b # NoRow /\ s = Absent /\ t # Absent /\ TChanged(t, b)
                 \/ b # NoRow /\ s # Absent /\ t = Absent /\ SChanged(s, b)
                 \/ b = NoRow /\ s # Absent /\ t # Absent /\ s # t
           \/ /\ DiffOp(s, t, b) = Op("update", "target")
              /\ b # NoRow /\ s # Absent /\ t # Absent /\ SChanged(s, b) /\ ~TChanged(t, b)
           \/ /\ DiffOp(s, t, b) = Op("update", "source")
              /\ b # NoRow /\ s # Absent /\ t # Absent /\ ~SChanged(s, b) /\ TChanged(t, b)
           \/ /\ DiffOp(s, t, b) = Op("delete", "target")
              /\ b # NoRow /\ s = Absent /\ t # Absent /\ ~TChanged(t, b)
           \/ /\ DiffOp(s, t, b) = Op("delete", "source")
              /\ b # NoRow /\ s # Absent /\ t = Absent /\ ~SChanged(s, b)
           \/ /\ DiffOp(s, t, b) = Op("create", "target")
              /\ b = NoRow /\ s # Absent /\ t = Absent
           \/ /\ DiffOp(s, t, b) = Op("create", "source")
              /\ b = NoRow /\ s = Absent /\ t # Absent
<1>1. CASE s = Absent /\ t = Absent
  BY <1>1 DEF DiffOp
<1>2. CASE b # NoRow /\ s # Absent /\ t # Absent
  BY <1>2 DEF DiffOp, SChanged, TChanged
<1>3. CASE b # NoRow /\ s = Absent /\ t # Absent
  BY <1>3 DEF DiffOp, TChanged
<1>4. CASE b # NoRow /\ s # Absent /\ t = Absent
  BY <1>4 DEF DiffOp, SChanged
<1>5. CASE b = NoRow /\ (s # Absent \/ t # Absent)
  BY <1>5 DEF DiffOp
<1>. QED
  BY <1>1, <1>2, <1>3, <1>4, <1>5

LEMMA OpsDiffer ==
    /\ \A k1, k2, w1, w2 : Op(k1, w1) = Op(k2, w2) <=> k1 = k2 /\ w1 = w2
    /\ \A k, w : Op(k, w).kind = k /\ Op(k, w).to = w
    /\ NoOp = Op("none", "target") /\ Conflict = Op("conflict", "target")
<1>1. \A k, w : Op(k, w).kind = k /\ Op(k, w).to = w
  BY DEF Op
<1>2. \A k1, k2, w1, w2 : k1 = k2 /\ w1 = w2 => Op(k1, w1) = Op(k2, w2)
  OBVIOUS
<1>. QED
  BY <1>1, <1>2 DEF NoOp, Conflict

LEMMA NoOpIs ==
    ASSUME NEW s, NEW t, NEW b, DiffOp(s, t, b) = NoOp
    PROVE  \/ s = Absent /\ t = Absent
           \/ b # NoRow /\ s # Absent /\ t # Absent /\ ~SChanged(s, b) /\ ~TChanged(t, b)
           \/ b = NoRow /\ s # Absent /\ s = t
<1>1. /\ NoOp # Conflict /\ NoOp # Op("update", "target") /\ NoOp # Op("update", "source")
      /\ NoOp # Op("delete", "target") /\ NoOp # Op("delete", "source")
      /\ NoOp # Op("create", "target") /\ NoOp # Op("create", "source")
  BY OpsDiffer
<1>. QED
  BY <1>1, DiffCases

(***************************************************************************)
(* The merge of one id: what is planned for it.                            *)
(***************************************************************************)
LEMMA WriteIs == ASSUME NEW s \in Sides, NEW c, NEW h
                 PROVE  /\ Write(s, c, h)[s] = c /\ Write(s, c, h)[Other(s)] = Keep
                        /\ Write(s, c, h).upd = h
<1>1. CASE s = "source"
  BY <1>1 DEF Write, NoWrite, Other
<1>2. CASE s = "target"
  BY <1>2 DEF Write, NoWrite, Other
<1>. QED
  BY <1>1, <1>2, SidesAre

(* A merge leaves an id alone or makes one side equal to the other.        *)
Makes(m, id, w) ==
    /\ m[Other(w)] = Keep
    /\ \/ /\ m[w] \in {Refused, Absent} /\ seen[Other(w)][id] = Absent /\ m.upd = 0
       \/ /\ m[w] = seen[Other(w)][id] /\ seen[Other(w)][id] # Absent
          /\ m.upd = Hash(Other(w), seen[Other(w)][id])

LEMMA PushMakes == ASSUME NEW s \in Sides, NEW id \in Ids
                   PROVE  /\ Makes(Push(s, id), id, Other(s)) /\ Push(s, id)[Other(s)] # Absent
                          /\ Makes(Take(s, id), id, Other(s))
                          /\ Take(s, id)[Other(s)] = Absent => seen[s][id] = Absent
<1>1. Other(s) \in Sides /\ Other(Other(s)) = s
  BY SidesAre
<1>2. CASE seen[s][id] = Absent
  BY <1>1, <1>2, WriteIs DEF Push, Take, Makes, Absent, Refused
<1>3. CASE seen[s][id] # Absent
  BY <1>1, <1>3, WriteIs DEF Push, Take, Makes
<1>. QED
  BY <1>2, <1>3

LEMMA DoomMakes == ASSUME NEW w \in Sides, NEW id \in Ids, seen[Other(w)][id] = Absent
                   PROVE  Makes(Doom(w), id, w) /\ Doom(w)[w] = Absent
  BY WriteIs DEF Doom, Makes

(* What is done about a conflict: nothing, if it is to be skipped or no    *)
(* answer is there, else one side wins.                                    *)
LEMMA Resolved == ASSUME Typed, NEW id \in Ids
                  PROVE  \/ Resolve(id) = NoWrite /\ config.policy \in {"Skip", "AskUser"}
                         \/ /\ config.policy \notin {"Skip", "AskUser"}
                            /\ \E s \in Sides : Resolve(id) = Take(s, id)
<1>1. config.policy \in {"AskUser", "SourceWins", "TargetWins", "LastWriteWins", "Skip"}
  BY ConfigsAssumption DEF Typed, TypeOK
<1>2. CASE config.policy \in {"AskUser", "Skip"}
  BY <1>2 DEF Resolve
<1>3. CASE config.policy \in {"SourceWins", "TargetWins"}
  BY <1>3, SidesAre DEF Resolve
<1>4. CASE config.policy = "LastWriteWins"
  BY <1>4, SidesAre DEF Resolve
<1>. QED
  BY <1>1, <1>2, <1>3, <1>4

LEMMA AnsweredIs == ASSUME NEW id \in Ids, NEW answer \in Answers \cup {"none"}
                    PROVE  \/ Answered(answer, id) = NoWrite /\ answer = "none"
                           \/ \E s \in Sides : Answered(answer, id) = Push(s, id)
<1>1. answer \in {"SourceWins", "TargetWins", "LastWriteWins", "none"}
  BY AnswersAssumption
<1>2. CASE answer = "none"
  BY <1>2 DEF Answered
<1>3. CASE answer \in {"SourceWins", "TargetWins"}
  BY <1>3, SidesAre DEF Answered
<1>4. CASE answer = "LastWriteWins"
  BY <1>4, SidesAre DEF Answered
<1>. QED
  BY <1>1, <1>2, <1>3, <1>4

Unsettled(id, answer) ==
    /\ OpOf(id) = Conflict /\ Direction = "Default"
    /\ config.policy = "Skip" \/ (config.policy = "AskUser" /\ answer[id] = "none")

(* The op of an id is to the side that lacks what the other one has.       *)
LEMMA OpKinds == ASSUME NEW id \in Ids
                 PROVE  \/ OpOf(id) \in {NoOp, Conflict}
                        \/ /\ OpOf(id) \in {Op("update", "target"), Op("create", "target"),
                                            Op("update", "source"), Op("create", "source")}
                        \/ /\ OpOf(id) = Op("delete", "target") /\ seen.source[id] = Absent
                        \/ /\ OpOf(id) = Op("delete", "source") /\ seen.target[id] = Absent
<1>1. OpOf(id) = DiffOp(seen.source[id], seen.target[id], Known(id))
  BY DEF OpOf
<1>. QED
  BY <1>1, DiffCases

LEMMA MergeOutcome ==
    ASSUME Typed, NEW id \in Ids, NEW answer \in [Conflicts -> Answers \cup {"none"}]
    PROVE  LET m == Merge(id, answer)
           IN \/ /\ m = NoWrite
                 /\ \/ OpOf(id) = NoOp
                    \/ OpOf(id) # Conflict /\ (Direction # "Default" \/ config.mode # "TwoWay")
                    \/ Unsettled(id, answer)
              \/ \E w \in Sides : /\ Makes(m, id, w) /\ OpOf(id) # NoOp
                                  /\ Direction = "Default" => OpOf(id).to = w \/ OpOf(id) = Conflict
                                  /\ Direction = "MirrorAToB" => w = "target"
<1>. DEFINE m == Merge(id, answer)
            op == OpOf(id)
<1>1. Direction \in {"Default", "MirrorAToB", "MirrorBToA"}
  BY DEF Typed, Overrides, Direction
<1>2. \A s \in Sides : Makes(Push(s, id), id, Other(s)) /\ Makes(Take(s, id), id, Other(s))
  BY PushMakes
<1>3. Other("source") = "target" /\ Other("target") = "source" /\ "source" \in Sides /\ "target" \in Sides
  BY SidesAre
<1>4. op = Op("delete", "target") \/ op = Op("create", "source") => Makes(Doom("target"), id, "target")
  <2>1. op = Op("delete", "target") \/ op = Op("create", "source") => seen.source[id] = Absent
    BY DiffCases, OpsDiffer DEF OpOf
  <2>. QED
    BY <2>1, <1>3, DoomMakes
<1>5. op = Op("delete", "source") \/ op = Op("create", "target") => Makes(Doom("source"), id, "source")
  <2>1. op = Op("delete", "source") \/ op = Op("create", "target") => seen.target[id] = Absent
    BY DiffCases, OpsDiffer DEF OpOf
  <2>. QED
    BY <2>1, <1>3, DoomMakes
<1>6. op \in {NoOp, Conflict, Op("update", "target"), Op("create", "target"), Op("update", "source"),
              Op("create", "source"), Op("delete", "target"), Op("delete", "source")}
  BY OpKinds
<1>. HIDE DEF m, op
<1>7. CASE Direction = "Default"
  <2>1. m = MergeDefault(id, answer)
    BY <1>7 DEF m, Merge
  <2>2. CASE op = NoOp
    BY <2>1, <2>2, OpsDiffer DEF MergeDefault, m, op
  <2>3. CASE op = Conflict
    <3>1. op # NoOp
      BY <2>3, OpsDiffer
    <3>2. CASE config.policy = "AskUser"
      <4>1. m = Answered(answer[id], id)
        BY <2>1, <2>3, <3>1, <3>2 DEF MergeDefault, op
      <4>2. id \in Conflicts
        BY <2>3 DEF op, Conflicts
      <4>3. answer[id] \in Answers \cup {"none"}
        BY <4>2
      <4>4. CASE m = NoWrite /\ answer[id] = "none"
        BY <1>7, <2>3, <3>2, <4>4 DEF Unsettled, m, op
      <4>5. CASE \E s \in Sides : m = Push(s, id)
        BY <1>2, <1>7, <2>3, <3>1, <4>5, SidesAre DEF m, op
      <4>. QED
        BY <4>1, <4>3, <4>4, <4>5, AnsweredIs
    <3>3. CASE config.policy # "AskUser"
      <4>1. m = Resolve(id)
        BY <2>1, <2>3, <3>1, <3>3 DEF MergeDefault, op
      <4>2. CASE m = NoWrite /\ config.policy = "Skip"
        BY <1>7, <2>3, <4>2 DEF Unsettled, m, op
      <4>3. CASE \E s \in Sides : m = Take(s, id)
        BY <1>2, <1>7, <2>3, <3>1, <4>3, SidesAre DEF m, op
      <4>. QED
        BY <3>3, <4>1, <4>2, <4>3, Resolved
    <3>. QED
      BY <3>2, <3>3
  <2>4. CASE op \notin {NoOp, Conflict} /\ Filtered(op)
    <3>1. m = NoWrite
      BY <2>1, <2>4 DEF MergeDefault, op
    <3>2. config.mode # "TwoWay"
      BY <2>4 DEF Filtered
    <3>. QED
      BY <2>4, <3>1, <3>2 DEF m, op
  <2>5. CASE op \notin {NoOp, Conflict} /\ ~Filtered(op)
    <3>1. m = IF op.kind = "delete" THEN Doom(op.to) ELSE Push(Other(op.to), id)
      BY <2>1, <2>5 DEF MergeDefault, op
    <3>2. CASE op = Op("delete", "target")
      BY <2>5, <1>3, <1>4, <1>7, <3>1, <3>2, OpsDiffer DEF m, op
    <3>3. CASE op = Op("delete", "source")
      BY <2>5, <1>3, <1>5, <1>7, <3>1, <3>3, OpsDiffer DEF m, op
    <3>4. CASE op \in {Op("update", "target"), Op("create", "target")}
      <4>1. op.to = "target" /\ op.kind # "delete"
        BY <3>4, OpsDiffer
      <4>. QED
        BY <1>2, <1>3, <1>7, <2>5, <3>1, <4>1 DEF m, op
    <3>5. CASE op \in {Op("update", "source"), Op("create", "source")}
      <4>1. op.to = "source" /\ op.kind # "delete"
        BY <3>5, OpsDiffer
      <4>. QED
        BY <1>2, <1>3, <1>7, <2>5, <3>1, <4>1 DEF m, op
    <3>. QED
      BY <1>6, <2>5, <3>2, <3>3, <3>4, <3>5
  <2>. QED
    BY <2>2, <2>3, <2>4, <2>5
<1>8. CASE Direction = "MirrorAToB"
  <2>1. m = MergeMirrorAToB(id)
    BY <1>8 DEF m, Merge
  <2>2. \/ m = NoWrite /\ op # Conflict
        \/ m = Doom("target") /\ op \in {Op("delete", "target"), Op("create", "source")}
        \/ m = Push("source", id) /\ op # NoOp
    <3>1. CASE op = NoOp
      BY <2>1, <3>1, OpsDiffer DEF MergeMirrorAToB, op
    <3>2. CASE op # NoOp /\ op.to = "target"
      <4>1. op.kind = "delete" => op = Op("delete", "target")
        BY <1>6, <3>2, OpsDiffer
      <4>. QED
        BY <2>1, <3>2, <4>1 DEF MergeMirrorAToB, op
    <3>3. CASE op # NoOp /\ op.to # "target"
      <4>1. op.kind = "create" => op = Op("create", "source")
        BY <1>6, <3>3, OpsDiffer
      <4>2. op # Conflict
        BY <3>3, OpsDiffer
      <4>. QED
        BY <2>1, <3>3, <4>1, <4>2 DEF MergeMirrorAToB, op
    <3>. QED
      BY <3>1, <3>2, <3>3
  <2>. QED
    BY <1>2, <1>3, <1>4, <1>8, <2>2, OpsDiffer DEF m, op
<1>9. CASE Direction = "MirrorBToA"
  <2>1. m = MergeMirrorBToA(id)
    BY <1>9 DEF m, Merge
  <2>2. \/ m = NoWrite /\ op # Conflict
        \/ m = Doom("source") /\ op \in {Op("delete", "source"), Op("create", "target")}
        \/ m = Push("target", id) /\ op # NoOp
    <3>1. CASE op = NoOp
      BY <2>1, <3>1, OpsDiffer DEF MergeMirrorBToA, op
    <3>2. CASE op # NoOp /\ op.to = "source"
      <4>1. op.kind = "delete" => op = Op("delete", "source")
        BY <1>6, <3>2, OpsDiffer
      <4>. QED
        BY <2>1, <3>2, <4>1 DEF MergeMirrorBToA, op
    <3>3. CASE op # NoOp /\ op.to # "source"
      <4>1. op.kind = "create" => op = Op("create", "target")
        BY <1>6, <3>3, OpsDiffer
      <4>2. op = Conflict => op.kind = "conflict"
        BY OpsDiffer
      <4>. QED
        BY <2>1, <3>3, <4>1, <4>2 DEF MergeMirrorBToA, op
    <3>. QED
      BY <3>1, <3>2, <3>3
  <2>. QED
    BY <1>2, <1>3, <1>5, <1>9, <2>2, OpsDiffer DEF m, op
<1>. QED
  BY <1>1, <1>7, <1>8, <1>9
(***************************************************************************)
(* Ids a step leaves alone.                                                *)
(***************************************************************************)
LEMMA Blank == ASSUME NEW id \in Ids
               PROVE  /\ \A s \in Sides : NoPlan[s][id] = Keep /\ Empty[s][id] = 0
                      /\ Nothing[id] = 0 /\ NoPlan.source[id] = Keep /\ NoPlan.target[id] = Keep
                      /\ Empty.source = Nothing /\ Empty.target = Nothing
  BY SidesAre DEF NoPlan, Empty, Nothing, Absent

(* Marks only take from what is promised.                                  *)
LEMMA Still ==
    ASSUME NEW id \in Ids, IdInv(id), got \subseteq Sides, side \in Sides,
           UNCHANGED <<config, stage, request, got, wiped, plan, side>>,
           failed => failed', marks[id] \subseteq marks'[id],
           \A s \in Sides : /\ data'[s][id] = data[s][id] /\ seen'[s][id] = seen[s][id]
                            /\ back'[s][id] = back[s][id]
                            /\ id \in unsynced'[s] <=> id \in unsynced[s]
                            /\ id \in gone'[s] <=> id \in gone[s],
           rows'[id] = rows[id], upd'[id] = upd[id],
           id \in touched' <=> id \in touched, id \in todo' <=> id \in todo
    PROVE  IdInv(id)'
<1>1. /\ Undisturbed(id)' => Undisturbed(id)
      /\ Carried(id)' => Carried(id)
      /\ \A S : Regular(id, S)' => Regular(id, S)
  BY DEF Undisturbed, Carried, Regular
<1>2. /\ Equal(id)' <=> Equal(id)
      /\ RowOk(id)' <=> RowOk(id)
      /\ PlainRun' <=> PlainRun
      /\ TwoWay' <=> TwoWay
  BY SidesAre DEF Equal, RowOk, PlainRun, TwoWay
<1>3. \A s \in Sides : Other(s) \in Sides
  BY SidesAre
<1>4. Fetched(id) => Fetched(id)'
  BY DEF Fetched
<1>5. PlanSound(id) => PlanSound(id)'
  BY <1>3 DEF PlanSound, PlanMade
<1>6. BackSound(id) => BackSound(id)'
  BY SidesAre DEF BackSound
<1>7. QuickSound(id) => QuickSound(id)'
  BY <1>2, SidesAre DEF QuickSound
<1>8. Clobbered(id) => Clobbered(id)'
  BY SidesAre DEF Clobbered
<1>9. WrittenSound(id) => WrittenSound(id)'
  BY DEF WrittenSound
<1>10. UpdSound(id) => UpdSound(id)'
  BY <1>2, <1>3, SidesAre DEF UpdSound, Pushed
<1>11. QuickCarried(id) => QuickCarried(id)'
  BY <1>2 DEF QuickCarried
<1>12. Paired(id) => Paired(id)'
  BY DEF Paired
<1>13. GoneKnown(id) => GoneKnown(id)'
  BY <1>3 DEF GoneKnown
<1>14. DeletionCaused(id) => DeletionCaused(id)'
  BY <1>2, <1>3 DEF DeletionCaused
<1>15. Covered(id) => Covered(id)'
  BY <1>2 DEF Covered
<1>16. Base(id) => Base(id)'
  <2>1. ASSUME NEW s \in Sides PROVE Clean(id, s) => Clean(id, s)'
    BY <1>3 DEF Clean
  <2>. QED
    BY <1>2, <2>1 DEF Base
<1>17. TouchedSound(id) => TouchedSound(id)'
  BY <1>2, SidesAre DEF TouchedSound
<1>18. Calm(id) => Calm(id)'
  BY <1>2, SidesAre DEF Calm
<1>19. Caused(id) => Caused(id)'
  BY <1>2, <1>3 DEF Caused
<1>. QED
  BY <1>1, <1>4, <1>5, <1>6, <1>7, <1>8, <1>9, <1>10, <1>11, <1>12, <1>13, <1>14, <1>15, <1>16,
     <1>17, <1>18, <1>19 DEF IdInv

(* Where no run has planned anything yet, this is left of the invariant.   *)
AtRest == plan = NoPlan /\ upd = Nothing /\ back = Empty /\ stage \in {"idle", "fetch"}
Kept(id) ==
    /\ Regular(id, {"raced", "recreated", "withheld"}) => Paired(id)
    /\ Regular(id, {"raced", "recreated", "withheld", "wiped"}) => GoneKnown(id)
Rest(id) ==
    /\ Undisturbed(id) => /\ Fetched(id) /\ QuickSound(id)
                          /\ request.clobber =>
                                /\ wiped /\ stage = "fetch" => data.target[id] = Absent
                                /\ "target" \in got => wiped
    /\ Kept(id)
    /\ Regular(id, Marks) => (id \notin touched => Base(id)) /\ TouchedSound(id)

LEMMA Resting == \A id \in Ids : AtRest /\ Rest(id) => IdInv(id)
<1>. SUFFICES ASSUME NEW id \in Ids, AtRest, Rest(id) PROVE IdInv(id)
  OBVIOUS
<1>1. /\ \A s \in Sides : plan[s][id] = Keep /\ back[s][id] = 0
      /\ plan.source[id] = Keep /\ plan.target[id] = Keep /\ upd[id] = 0
      /\ stage \in {"idle", "fetch"}
  BY Blank DEF AtRest
<1>2. PlanSound(id) /\ BackSound(id) /\ UpdSound(id) /\ WrittenSound(id) /\ QuickCarried(id)
  BY <1>1 DEF PlanSound, PlanMade, BackSound, UpdSound, WrittenSound, QuickCarried
<1>3. Undisturbed(id) => Clobbered(id)
  BY <1>1 DEF Rest, Clobbered
<1>4. DeletionCaused(id) /\ Caused(id) /\ Covered(id) /\ Calm(id)
  BY <1>1 DEF DeletionCaused, Caused, Covered, Calm, Keep, Absent
<1>. QED
  BY <1>2, <1>3, <1>4 DEF Rest, Kept, IdInv

LEMMA RestingNext == (\A id \in Ids : AtRest /\ Rest(id) => IdInv(id))'
BY Resting, PTL

Forgot == /\ stage = "idle" /\ request = Default /\ got = {} /\ touched = {} /\ failed = FALSE
          /\ wiped = FALSE /\ seen = Empty /\ plan = NoPlan /\ upd = Nothing /\ back = Empty
          /\ todo = {} /\ known = {} /\ side = "target"
LEMMA IdleRest == \A id \in Ids :
    Forgot /\ Kept(id) /\ (Regular(id, Marks) => Base(id)) => IdInv(id)
<1>. SUFFICES ASSUME NEW id \in Ids, Forgot, Kept(id), Regular(id, Marks) => Base(id)
              PROVE  IdInv(id)
  OBVIOUS
<1>1. AtRest
  BY DEF AtRest, Forgot
<1>2. ~request.clobber /\ ~request.quick
  BY DEF Default, Forgot
<1>3. Rest(id)
  BY <1>2 DEF Rest, Fetched, QuickSound, TouchedSound, Forgot
<1>. QED
  BY <1>1, <1>3, Resting

LEMMA IdlePhases == Forgot => Phases
  BY Blank DEF Forgot, Phases, Default

LEMMA IdleRestNext == (\A id \in Ids :
    Forgot /\ Kept(id) /\ (Regular(id, Marks) => Base(id)) => IdInv(id))'
BY IdleRest, PTL

LEMMA IdlePhasesNext == Forgot' => Phases'
BY IdlePhases, PTL

LEMMA Forgets == ASSUME ForgetRun, stage' = "idle" PROVE Forgot'
  BY DEF ForgetRun, Forgot

LEMMA ForgotTyped == ASSUME Forgot'
                     PROVE  /\ (request \in Overrides)' /\ got' \subseteq Sides /\ wiped' \in BOOLEAN
                            /\ (seen \in PerSide(Held))'
                            /\ (plan \in PerSide(Held \cup {Keep, Refused}))' /\ (upd \in [Ids -> AnyHash])'
                            /\ side' \in Sides /\ todo' = {} /\ known' = {} /\ failed' \in BOOLEAN
                            /\ touched' = {} /\ stage' = "idle"
                            /\ request'.direction \in {"Default", "MirrorAToB", "MirrorBToA"}
                            /\ \A s \in Sides : back'[s] \in [Ids -> HashesIn(s)]
                            /\ (back \in PerSide(AnyHash))'
<1>1. Default \in Overrides /\ Default.direction = "Default"
  BY DEF Default, Overrides
<1>2. Empty \in PerSide(Held) /\ Empty \in PerSide(AnyHash) /\ NoPlan \in PerSide(Held \cup {Keep, Refused})
  BY HashFacts DEF Empty, NoPlan, PerSide, Nothing, Absent
<1>3. Nothing \in [Ids -> AnyHash] /\ \A s \in Sides : Empty[s] \in [Ids -> HashesIn(s)]
  BY HashFacts DEF Empty, Nothing, Absent
<1>. QED
  BY <1>1, <1>2, <1>3, SidesAre DEF Forgot

(***************************************************************************)
(* The steps.                                                              *)
(***************************************************************************)
LEMMA NoRowIs == NoRow \in [Sides -> AnyHash] /\ \A s \in Sides : NoRow[s] = 0
  BY HashFacts, SidesAre DEF NoRow

LEMMA Starts == ASSUME Init PROVE IInv
<1>1. Forgot
  BY DEF Init, Forgot
<1>2. Typed
  <2>1. /\ (request \in Overrides) /\ got \subseteq Sides /\ wiped \in BOOLEAN
        /\ request.direction \in {"Default", "MirrorAToB", "MirrorBToA"}
        /\ stage = "idle" /\ side \in Sides /\ todo = {} /\ known = {} /\ failed \in BOOLEAN
        /\ touched = {}
    BY SidesAre DEF Init, Default, Overrides
  <2>2. (seen \in PerSide(Held)) /\ (plan \in PerSide(Held \cup {Keep, Refused}))
    BY HashFacts DEF Init, Empty, NoPlan, PerSide, Nothing, Absent
  <2>3. /\ upd \in [Ids -> AnyHash] /\ back \in PerSide(AnyHash)
        /\ \A s \in Sides : back[s] \in [Ids -> HashesIn(s)]
    BY HashFacts DEF Init, Empty, Nothing, Absent, PerSide
  <2>4. /\ config \in Configs /\ data \in PerSide(Held) /\ writable \in [Sides -> BOOLEAN]
        /\ edits \in 0..MaxEdits /\ faults \in 0..MaxFaults
    BY BoundsAssumption DEF Init, PerSide, Held
  <2>5. rows \in [Ids -> [Sides -> AnyHash]] /\ \A id \in Ids : (rows[id].source = 0) = (rows[id].target = 0)
    BY NoRowIs, SidesAre DEF Init
  <2>6. /\ unsynced \in [Sides -> SUBSET Ids] /\ gone \in [Sides -> SUBSET Ids]
        /\ marks \in [Ids -> SUBSET Marks]
    BY DEF Init
  <2>. QED
    BY <2>1, <2>2, <2>3, <2>4, <2>5, <2>6 DEF Typed, TypeOK
<1>3. Phases
  BY <1>1, IdlePhases
<1>4. ASSUME NEW id \in Ids PROVE IdInv(id)
  <2>1. rows[id] = NoRow
    BY DEF Init
  <2>2. Kept(id)
    BY <2>1 DEF Kept, Paired, GoneKnown
  <2>3. \A s \in Sides : id \notin unsynced[s] => data[s][id] = Absent
    BY DEF Init
  <2>4. Base(id)
    BY <2>1, <2>3, SidesAre DEF Base, Clean, Equal
  <2>. QED
    BY <1>1, <2>2, <2>4, IdleRest
<1>. QED
  BY <1>2, <1>3, <1>4 DEF IInv

(* A step that forgets the run: what the rows say is all there is to show. *)
LEMMA Ended ==
    ASSUME IInv, ForgetRun, stage' = "idle",
           UNCHANGED config, (data \in PerSide(Held))', (writable \in [Sides -> BOOLEAN])',
           (rows \in [Ids -> [Sides -> AnyHash]])',
           \A id \in Ids : (rows'[id].source = 0) = (rows'[id].target = 0),
           (unsynced \in [Sides -> SUBSET Ids])', (gone \in [Sides -> SUBSET Ids])',
           (marks \in [Ids -> SUBSET Marks])', (edits \in 0..MaxEdits)', (faults \in 0..MaxFaults)',
           \A id \in Ids : Kept(id)' /\ (Regular(id, Marks)' => Base(id)')
    PROVE  IInv'
<1>1. Forgot'
  BY Forgets
<1>2. Typed'
  BY <1>1, ForgotTyped DEF IInv, Typed, TypeOK
<1>3. Phases'
  BY <1>1, IdlePhasesNext
<1>4. \A id \in Ids : IdInv(id)'
  BY <1>1, IdleRestNext
<1>. QED
  BY <1>2, <1>3, <1>4 DEF IInv

(* What an id keeps when a run ends without saving.                        *)
LEMMA MarksGrow == ASSUME Typed, NEW ids, NEW mark \in Marks, Marked(ids, mark)
                   PROVE  /\ (marks \in [Ids -> SUBSET Marks])'
                          /\ \A id \in Ids : /\ marks[id] \subseteq marks'[id]
                                             /\ id \in ids => mark \in marks'[id]
                                             /\ id \notin ids => marks'[id] = marks[id]
<1>1. marks \in [Ids -> SUBSET Marks]
  BY DEF Typed, TypeOK
<1>2. marks' = [id \in Ids |-> IF id \in ids THEN marks[id] \cup {mark} ELSE marks[id]]
  BY DEF Marked
<1>. QED
  BY <1>1, <1>2

LEMMA Unfinished ==
    ASSUME NEW id \in Ids, IdInv(id), marks \in [Ids -> SUBSET Marks],
           marks[id] \subseteq marks'[id], id \in touched => marks'[id] \cap Marks # {},
           \A s \in Sides : /\ data'[s][id] = data[s][id]
                            /\ id \in unsynced'[s] <=> id \in unsynced[s]
                            /\ id \in gone'[s] <=> id \in gone[s],
           rows'[id] = rows[id]
    PROVE  Kept(id)' /\ (Regular(id, Marks)' => Base(id)')
<1>1. \A S : Regular(id, S)' => Regular(id, S)
  BY DEF Regular
<1>2. \A s \in Sides : Other(s) \in Sides
  BY SidesAre
<1>3. (Paired(id) => Paired(id)') /\ (GoneKnown(id) => GoneKnown(id)')
  BY <1>2 DEF Paired, GoneKnown
<1>4. Equal(id)' <=> Equal(id)
  BY SidesAre DEF Equal
<1>5. Base(id) => Base(id)'
  <2>1. ASSUME NEW s \in Sides PROVE Clean(id, s) => Clean(id, s)'
    BY <1>2 DEF Clean
  <2>. QED
    BY <1>4, <2>1 DEF Base
<1>6. Regular(id, Marks)' => id \notin touched
  BY DEF Regular
<1>. QED
  BY <1>1, <1>3, <1>5, <1>6 DEF Kept, IdInv

LEMMA GivesUp == ASSUME IInv, GiveUp(touched), UNCHANGED data, (faults \in 0..MaxFaults)'
                 PROVE  IInv'
<1>1. Typed /\ Marked(touched, "interrupted") /\ ForgetRun /\ stage' = "idle"
      /\ UNCHANGED <<config, writable, rows, unsynced, gone, edits>>
  BY DEF IInv, GiveUp, Unsaved
<1>2. "interrupted" \in Marks
  BY DEF Marks
<1>3. /\ (marks \in [Ids -> SUBSET Marks])'
      /\ \A id \in Ids : marks[id] \subseteq marks'[id]
                         /\ (id \in touched => "interrupted" \in marks'[id])
  BY <1>1, <1>2, MarksGrow
<1>4. \A id \in Ids : Kept(id)' /\ (Regular(id, Marks)' => Base(id)')
  BY <1>1, <1>2, <1>3, Unfinished DEF IInv, Typed, TypeOK
<1>. QED
  BY <1>1, <1>3, <1>4, Ended DEF IInv, Typed, TypeOK

LEMMA Aborts == ASSUME IInv, Abort PROVE IInv'
<1>1. (faults \in 0..MaxFaults)'
  BY BoundsAssumption DEF Abort, Fault, IInv, Typed, TypeOK
<1>. QED
  BY <1>1, GivesUp DEF Abort

LEMMA FailsBatch == ASSUME IInv, BatchFailed PROVE IInv'
  BY GivesUp DEF BatchFailed, IInv, Typed, TypeOK

LEMMA FailsToSave == ASSUME IInv, SaveFails PROVE IInv'
<1>1. (faults \in 0..MaxFaults)'
  BY BoundsAssumption DEF SaveFails, Fault, IInv, Typed, TypeOK
<1>2. GiveUp(touched) /\ UNCHANGED data
  BY DEF SaveFails, GiveUp
<1>. QED
  BY <1>1, <1>2, GivesUp

LEMMA WipesPartly == ASSUME IInv, WipeFails PROVE IInv'
<1>1. /\ Typed /\ Phases /\ ForgetRun /\ stage' = "idle" /\ stage = "fetch"
      /\ UNCHANGED <<config, writable, rows, unsynced, gone, edits>>
  BY DEF IInv, WipeFails, CanWipe
<1>2. PICK lost \in SUBSET Present("target") :
          /\ data' = [data EXCEPT !.target = [id \in Ids |-> IF id \in lost THEN Absent ELSE @[id]]]
          /\ Marked(lost, "wiped")
  BY DEF WipeFails
<1>3. "wiped" \in Marks /\ lost \subseteq Ids
  BY DEF Marks, Present
<1>4. /\ (marks \in [Ids -> SUBSET Marks])'
      /\ \A id \in Ids : /\ marks[id] \subseteq marks'[id]
                         /\ id \in lost => "wiped" \in marks'[id]
                         /\ id \notin lost => marks'[id] = marks[id]
  BY <1>1, <1>2, <1>3, MarksGrow
<1>5. /\ data \in [Sides -> [Ids -> Held]] /\ (data \in PerSide(Held))'
      /\ \A id \in Ids : /\ data'.source[id] = data.source[id]
                         /\ data'.target[id] = IF id \in lost THEN Absent ELSE data.target[id]
  <2>1. data \in [Sides -> [Ids -> Held]]
    BY <1>1 DEF Typed, TypeOK, PerSide
  <2>. QED
    BY <1>2, <2>1, HashFacts, SidesAre DEF PerSide, Absent
<1>6. (faults \in 0..MaxFaults)'
  BY <1>1, BoundsAssumption DEF WipeFails, Fault, Typed, TypeOK
<1>7. ASSUME NEW id \in Ids PROVE Kept(id)' /\ (Regular(id, Marks)' => Base(id)')
  <2>1. IdInv(id)
    BY DEF IInv
  <2>2. CASE id \notin lost
    <3>1. id \in touched => "wiped" \in marks[id]
      BY <1>1 DEF Phases
    <3>2. \A s \in Sides : data'[s][id] = data[s][id]
      BY <1>5, <2>2, SidesAre
    <3>. QED
      BY <1>1, <1>3, <1>4, <2>1, <2>2, <3>1, <3>2, Unfinished DEF Typed, TypeOK
  <2>3. CASE id \in lost
    <3>1. "wiped" \in marks'[id]
      BY <1>4, <2>3
    <3>2. Regular(id, {"raced", "recreated", "withheld"})' => Paired(id)
      BY <1>4, <2>1 DEF Regular, IdInv
    <3>3. Paired(id) => Paired(id)'
      BY <1>1, <1>5, <2>3, SidesAre DEF Paired
    <3>. QED
      BY <1>3, <3>1, <3>2, <3>3 DEF Kept, Regular
  <2>. QED
    BY <2>2, <2>3
<1>. QED
  BY <1>1, <1>4, <1>5, <1>6, <1>7, Ended DEF IInv, Typed, TypeOK

LEMMA StartsRun == ASSUME IInv, NEW o, o \in config.overrides, StartRun(o) \/ StartFirstSync(o)
                   PROVE  IInv'
<1>1. /\ Typed /\ Phases /\ stage = "idle" /\ stage' = "fetch"
      /\ UNCHANGED <<config, data, writable, rows, got, wiped, seen, plan, upd, side,
                     todo, known, failed, back, touched, history, edits, faults>>
  BY DEF IInv, StartRun, StartFirstSync
<1>2. o \in [direction : {"Default", "MirrorAToB", "MirrorBToA"}, clobber : BOOLEAN]
  BY <1>1, ConfigsAssumption DEF Typed, TypeOK
<1>3. /\ request' \in Overrides
      /\ request'.quick => /\ ~request'.clobber /\ config.mode = "OneWayUpload"
                           /\ \A id \in Ids : rows[id] = NoRow /\ data.target[id] = Absent
  <2>1. CASE StartRun(o)
    BY <1>2, <2>1 DEF StartRun, Overrides
  <2>2. CASE StartFirstSync(o)
    BY <1>2, <2>2 DEF StartFirstSync, Overrides
  <2>. QED
    BY <2>1, <2>2
<1>4. Typed'
  BY <1>1, <1>3 DEF Typed, TypeOK, Overrides
<1>5. /\ plan = NoPlan /\ upd = Nothing /\ back = Empty /\ side = "target" /\ todo = {}
      /\ got = {} /\ touched = {} /\ failed = FALSE /\ request = Default
  BY <1>1 DEF Phases, Typed, TypeOK
<1>6. ~wiped
  BY <1>1, <1>5 DEF Phases, Default
<1>7. Planned("source")' = {}
  BY <1>1, <1>5, Blank DEF Planned
<1>8. Phases'
  BY <1>1, <1>3, <1>5, <1>6, <1>7 DEF Phases
<1>9. ASSUME NEW id \in Ids PROVE IdInv(id)'
  <2>1. IdInv(id)
    BY DEF IInv
  <2>2. Fetched(id)' /\ QuickSound(id)'
    BY <1>1, <1>3, <1>5 DEF Fetched, QuickSound
  <2>3. Rest(id)'
    BY <1>1, <1>5, <1>6, <2>1, <2>2
    DEF Rest, Kept, Regular, Paired, GoneKnown, Base, Clean, Equal, TouchedSound, IdInv
  <2>4. AtRest'
    BY <1>1, <1>5 DEF AtRest
  <2>. QED
    BY <2>3, <2>4, RestingNext
<1>. QED
  BY <1>4, <1>8, <1>9 DEF IInv

LEMMA Fetches == ASSUME IInv, NEW s \in Sides, Fetch(s) PROVE IInv'
<1>1. /\ Typed /\ Phases /\ stage = "fetch" /\ got' = got \cup {s}
      /\ seen' = [seen EXCEPT ![s] = data[s]]
      /\ s = "target" /\ request.clobber => wiped
      /\ UNCHANGED <<config, data, writable, rows, stage, request, wiped, plan, upd, side,
                     todo, known, failed, back, touched, history, edits, faults>>
  BY DEF IInv, Fetch
<1>2. seen \in [Sides -> [Ids -> Held]] /\ data \in [Sides -> [Ids -> Held]] /\ got \subseteq Sides
  BY <1>1 DEF Typed, TypeOK, PerSide
<1>3. (seen \in PerSide(Held))' /\ got' \subseteq Sides
  BY <1>1, <1>2 DEF PerSide
<1>4. Typed'
  BY <1>1, <1>3 DEF Typed, TypeOK
<1>5. Phases'
  BY <1>1 DEF Phases, Planned
<1>6. ASSUME NEW id \in Ids PROVE IdInv(id)'
  <2>1. IdInv(id)
    BY DEF IInv
  <2>2. Fetched(id) => Fetched(id)'
    BY <1>1, <1>2 DEF Fetched
  <2>3. Undisturbed(id) => /\ QuickSound(id)'
                           /\ request.clobber =>
                                /\ wiped /\ stage = "fetch" => data.target[id] = Absent
                                /\ "target" \in got' => wiped
    BY <1>1, <2>1 DEF QuickSound, Equal, Clobbered, IdInv
  <2>4. Rest(id)'
    BY <1>1, <2>1, <2>2, <2>3
    DEF Rest, Kept, Regular, Paired, GoneKnown, Base, Clean, Equal, TouchedSound, Undisturbed, IdInv
  <2>5. AtRest'
    BY <1>1 DEF AtRest, Phases
  <2>. QED
    BY <2>4, <2>5, RestingNext
<1>. QED
  BY <1>4, <1>5, <1>6 DEF IInv

LEMMA Wipes == ASSUME IInv, Wipe PROVE IInv'
<1>1. /\ Typed /\ Phases /\ stage = "fetch" /\ request.clobber /\ got = {"source"} /\ ~wiped /\ wiped'
      /\ data' = [data EXCEPT !.target = Nothing]
      /\ touched' = touched \cup Present("target") /\ Marked(Present("target"), "wiped")
      /\ wiped' = TRUE
      /\ UNCHANGED <<config, writable, rows, stage, request, got, seen, plan, upd, side,
                     todo, known, failed, back, unsynced, gone, edits, faults>>
  BY DEF IInv, Wipe, CanWipe
<1>2. "wiped" \in Marks /\ Present("target") \subseteq Ids
  BY DEF Marks, Present
<1>3. /\ (marks \in [Ids -> SUBSET Marks])'
      /\ \A id \in Ids : /\ marks[id] \subseteq marks'[id]
                         /\ id \in Present("target") => "wiped" \in marks'[id]
                         /\ id \notin Present("target") => marks'[id] = marks[id]
  BY <1>1, <1>2, MarksGrow
<1>4. data \in [Sides -> [Ids -> Held]]
  BY <1>1 DEF Typed, TypeOK, PerSide
<1>5. /\ (data \in PerSide(Held))'
      /\ \A id \in Ids : data'.source[id] = data.source[id] /\ data'.target[id] = Absent
  BY <1>1, <1>4, HashFacts, SidesAre DEF PerSide, Nothing, Absent
<1>6. Typed'
  BY <1>1, <1>2, <1>3, <1>5 DEF Typed, TypeOK
<1>7. Phases'
  <2>1. ASSUME NEW id \in touched' PROVE "wiped" \in marks'[id]
    <3>1. id \in Ids /\ (id \in touched \/ id \in Present("target"))
      BY <1>1, <1>2 DEF Typed, TypeOK
    <3>2. id \in touched => "wiped" \in marks[id]
      BY <1>1 DEF Phases
    <3>. QED
      BY <1>3, <3>1, <3>2
  <2>. QED
    BY <1>1, <2>1 DEF Phases, Planned
<1>8. ASSUME NEW id \in Ids PROVE IdInv(id)'
  <2>1. IdInv(id) /\ marks[id] \subseteq marks'[id]
    BY <1>3 DEF IInv
  <2>2. Fetched(id) => Fetched(id)'
    BY <1>1, <1>5 DEF Fetched
  <2>3. QuickSound(id)'
    BY <1>5 DEF QuickSound
  <2>4. Undisturbed(id)' => Undisturbed(id)
    BY <2>1 DEF Undisturbed
  <2>5. Kept(id)'
    <3>1. Regular(id, {"raced", "recreated", "withheld"})' => Paired(id)
      BY <2>1 DEF Regular, IdInv
    <3>2. Paired(id) => Paired(id)'
      BY <1>1, <1>5, SidesAre DEF Paired
    <3>3. Regular(id, {"raced", "recreated", "withheld", "wiped"})' => GoneKnown(id)'
      <4>. SUFFICES ASSUME Regular(id, {"raced", "recreated", "withheld", "wiped"})'
                    PROVE  GoneKnown(id)'
        OBVIOUS
      <4>1. id \notin Present("target") /\ GoneKnown(id)
        BY <1>3, <2>1 DEF Regular, IdInv
      <4>2. data.target[id] = Absent
        BY <4>1 DEF Present
      <4>. QED
        BY <1>1, <1>5, <4>1, <4>2, SidesAre DEF GoneKnown
    <3>. QED
      BY <3>1, <3>2, <3>3 DEF Kept
  <2>6. Regular(id, Marks)' => (id \notin touched' => Base(id)') /\ TouchedSound(id)'
    <3>. SUFFICES ASSUME Regular(id, Marks)'
                  PROVE  (id \notin touched' => Base(id)') /\ TouchedSound(id)'
      OBVIOUS
    <3>1. id \notin Present("target") /\ Regular(id, Marks)
      BY <1>2, <1>3, <2>1 DEF Regular
    <3>2. data.target[id] = Absent /\ id \notin touched
      BY <1>1, <1>2, <3>1 DEF Present, Phases, Regular
    <3>3. Base(id)
      BY <2>1, <3>1, <3>2 DEF IdInv
    <3>4. \A s \in Sides : data'[s][id] = data[s][id]
      BY <1>5, <3>2, SidesAre
    <3>5. Base(id)'
      BY <1>1, <3>3, <3>4, SidesAre DEF Base, Clean, Equal
    <3>. QED
      BY <1>1, <3>1, <3>2, <3>5 DEF TouchedSound
  <2>7. Rest(id)'
    BY <1>1, <1>5, <2>1, <2>2, <2>3, <2>4, <2>5, <2>6 DEF Rest, IdInv
  <2>8. AtRest'
    BY <1>1 DEF AtRest, Phases
  <2>. QED
    BY <2>7, <2>8, RestingNext
<1>. QED
  BY <1>6, <1>7, <1>8 DEF IInv

LEMMA WriteAccessChanges == ASSUME IInv, NEW s \in Sides, SetWritable(s) PROVE IInv'
<1>1. /\ Typed /\ Phases /\ writable' = [writable EXCEPT ![s] = ~@]
      /\ UNCHANGED <<config, data, rows, stage, runVars, history, edits>>
  BY DEF IInv, SetWritable
<1>2. (faults \in 0..MaxFaults)'
  BY <1>1, BoundsAssumption DEF SetWritable, Fault, Typed, TypeOK
<1>3. Typed'
  BY <1>1, <1>2 DEF Typed, TypeOK
<1>4. Phases'
  BY <1>1 DEF Phases, Planned
<1>5. ASSUME NEW id \in Ids PROVE IdInv(id)'
  BY <1>1, Still DEF IInv, Typed, TypeOK
<1>. QED
  BY <1>3, <1>4, <1>5 DEF IInv

LEMMA RefusesRecord == ASSUME IInv, NEW x \in Ids, RefuseRecord(x) PROVE IInv'
<1>1. /\ Typed /\ Phases /\ stage = "write" /\ failed' = TRUE /\ todo' = todo \ {x}
      /\ UNCHANGED <<config, data, writable, rows, stage, request, got, wiped, seen, plan,
                     upd, side, known, back, touched, history, edits>>
  BY DEF IInv, RefuseRecord
<1>2. (faults \in 0..MaxFaults)'
  BY <1>1, BoundsAssumption DEF RefuseRecord, Fault, Typed, TypeOK
<1>3. Typed'
  BY <1>1, <1>2 DEF Typed, TypeOK
<1>4. Phases'
  BY <1>1 DEF Phases, Planned
<1>5. ASSUME NEW id \in Ids PROVE IdInv(id)'
  <2>1. IdInv(id)
    BY DEF IInv
  <2>2. CASE id # x
    BY <1>1, <2>1, <2>2, Still DEF Typed, TypeOK
  <2>3. WrittenSound(id)'
    BY <1>1 DEF WrittenSound
  <2>4. CASE id = x
    <3>1. (Undisturbed(id)' <=> Undisturbed(id)) /\ (Carried(id)' <=> Carried(id))
          /\ \A S : Regular(id, S)' <=> Regular(id, S)
      BY <1>1 DEF Undisturbed, Carried, Regular
    <3>2. /\ Fetched(id)' <=> Fetched(id)
          /\ PlanSound(id)' <=> PlanSound(id)
          /\ BackSound(id)' <=> BackSound(id)
          /\ QuickSound(id)' <=> QuickSound(id)
          /\ Clobbered(id)' <=> Clobbered(id)
          /\ UpdSound(id)' <=> UpdSound(id)
          /\ QuickCarried(id)' <=> QuickCarried(id)
      BY <1>1 DEF Fetched, PlanSound, PlanMade, BackSound, QuickSound, Equal, Clobbered, UpdSound,
                  Pushed, QuickCarried
    <3>3. /\ Paired(id)' <=> Paired(id)
          /\ GoneKnown(id)' <=> GoneKnown(id)
          /\ DeletionCaused(id)' <=> DeletionCaused(id)
          /\ Covered(id)' <=> Covered(id)
      BY <1>1 DEF Paired, GoneKnown, DeletionCaused, PlainRun, Covered, TwoWay, Equal
    <3>4. /\ Base(id)' <=> Base(id)
          /\ TouchedSound(id)' <=> TouchedSound(id)
          /\ Calm(id)' <=> Calm(id)
          /\ Caused(id)' <=> Caused(id)
          /\ id \in touched' <=> id \in touched
      BY <1>1 DEF Base, Clean, Equal, TouchedSound, Calm, RowOk, Caused, PlainRun
    <3>. QED
      BY <2>1, <2>3, <3>1, <3>2, <3>3, <3>4 DEF IdInv
  <2>. QED
    BY <2>2, <2>4
<1>. QED
  BY <1>3, <1>4, <1>5 DEF IInv

(* A record is written: from now on the sides are equal there.             *)
LEMMA WritesRecord == ASSUME IInv, NEW x \in Ids, WriteRecord(x) PROVE IInv'
<1>1. /\ Typed /\ Phases /\ stage = "write" /\ x \in todo /\ Possible(x)
      /\ data' = [data EXCEPT ![side][x] = plan[side][x]]
      /\ todo' = todo \ {x} /\ touched' = touched \cup {x}
      /\ UNCHANGED <<config, writable, rows, stage, request, got, wiped, seen, plan, upd,
                     side, known, failed, back, history, edits, faults>>
  BY DEF IInv, WriteRecord
<1>2. /\ data \in [Sides -> [Ids -> Held]] /\ side \in Sides /\ plan[side][x] # Keep
      /\ plan[side][x] # Refused /\ got = {} /\ plan[side][x] \in Held
  BY <1>1 DEF Typed, TypeOK, PerSide, Phases, Possible
<1>3. /\ (data \in PerSide(Held))'
      /\ \A s \in Sides, id \in Ids :
            data'[s][id] = IF s = side /\ id = x THEN plan[side][x] ELSE data[s][id]
  BY <1>1, <1>2 DEF PerSide
<1>4. Typed'
  BY <1>1, <1>3 DEF Typed, TypeOK
<1>5. Phases'
  BY <1>1 DEF Phases, Planned
<1>6. ASSUME NEW id \in Ids, id # x PROVE IdInv(id)'
  BY <1>1, <1>2, <1>3, <1>6, Still DEF IInv, Typed, TypeOK
<1>7. IdInv(x)'
  <2>. DEFINE w == side
              o == Other(side)
              v == plan[side][x]
  <2>1. IdInv(x)
    BY DEF IInv
  <2>2. /\ w \in Sides /\ o \in Sides /\ o # w /\ Other(o) = w /\ Other(w) = o
        /\ \A s \in Sides : s = w \/ s = o
    BY <1>2, SidesAre
  <2>3. data'[w][x] = v /\ data'[o][x] = data[o][x] /\ v # Keep /\ v # Refused
    BY <1>2, <1>3, <2>2
  <2>. HIDE DEF w, o, v
  <2>4. /\ Undisturbed(x)' <=> Undisturbed(x)
        /\ Carried(x)' <=> Carried(x)
        /\ \A S : Regular(x, S)' <=> Regular(x, S)
        /\ PlainRun' <=> PlainRun
        /\ TwoWay' <=> TwoWay
    BY <1>1 DEF Undisturbed, Carried, Regular, PlainRun, TwoWay
  <2>5. Undisturbed(x) => /\ plan[o][x] = Keep /\ v = data[o][x]
                          /\ v = Absent => upd[x] = 0
                          /\ v # Absent => (~request.quick => upd[x] = Hash(o, v))
    <3>. SUFFICES ASSUME PlanMade(x, w)
                  PROVE  /\ plan[o][x] = Keep /\ v = data[o][x]
                         /\ v = Absent => upd[x] = 0
                         /\ v # Absent => (~request.quick => upd[x] = Hash(o, v))
      BY <2>1, <2>2 DEF IdInv, PlanSound
    <3>1. v = plan[w][x]
      BY DEF v, w
    <3>. QED
      BY <2>2, <2>3, <3>1 DEF PlanMade
  <2>6. Undisturbed(x) => /\ data'[w][x] = data'[o][x] /\ Equal(x)'
    BY <2>2, <2>3, <2>5, SidesAre DEF Equal
  <2>7. Undisturbed(x) => PlanSound(x)'
    <3>. SUFFICES ASSUME Undisturbed(x), PlanMade(x, w) PROVE PlanSound(x)'
      BY <2>1, <2>2 DEF IdInv, PlanSound
    <3>1. ASSUME NEW u \in Sides, u = w PROVE PlanMade(x, u)'
      BY <1>1, <2>2, <2>3, <3>1 DEF PlanMade
    <3>2. ASSUME NEW u \in Sides, u = o PROVE PlanMade(x, u)'
      BY <1>1, <2>5, <3>2 DEF PlanMade
    <3>. QED
      BY <2>2, <3>1, <3>2 DEF PlanSound
  <2>8. Undisturbed(x) => BackSound(x)'
    <3>1. back[w][x] = 0
      BY <1>1, <2>2, Blank, SidesAre DEF Phases, w
    <3>. QED
      BY <1>1, <2>1, <2>2, <2>3, <3>1 DEF BackSound, IdInv
  <2>9. Undisturbed(x) => Fetched(x)' /\ QuickSound(x)' /\ Clobbered(x)'
    BY <1>1, <1>2, <2>1, <2>6 DEF Fetched, QuickSound, Clobbered, IdInv
  <2>10. Carried(x) => Undisturbed(x)
    BY DEF Carried, Undisturbed
  <2>11. WrittenSound(x)'
    BY <1>1, <2>3 DEF WrittenSound, w, v
  <2>12. UpdSound(x)' /\ QuickCarried(x)'
    <3>1. plan'[w][x] # Keep
      BY <1>1, <2>3 DEF v, w
    <3>2. UpdSound(x)'
      BY <2>2, <3>1 DEF UpdSound
    <3>3. request.quick => w = "target"
      BY <1>1 DEF Phases, w
    <3>. QED
      BY <1>1, <3>1, <3>2, <3>3 DEF QuickCarried
  <2>13. ASSUME Undisturbed(x), Paired(x) PROVE Paired(x)'
    BY <1>1, <2>2, <2>3, <2>5, <2>13 DEF Paired
  <2>14. ASSUME Undisturbed(x) PROVE GoneKnown(x)'
    BY <2>2, <2>6, <2>14 DEF GoneKnown
  <2>15. ASSUME Undisturbed(x) PROVE DeletionCaused(x)' /\ Caused(x)'
    <3>1. plan'[o][x] = Keep /\ plan'[w][x] = data'[w][x] /\ Keep # Absent
      BY <1>1, <2>3, <2>5, <2>15 DEF v, w, Keep, Absent
    <3>. QED
      BY <2>2, <3>1 DEF DeletionCaused, Caused
  <2>16. ASSUME Undisturbed(x) PROVE Covered(x)'
    BY <2>6, <2>16 DEF Covered
  <2>17. ASSUME Undisturbed(x) PROVE Calm(x)' /\ TouchedSound(x)'
    <3>1. ~request.quick /\ data'.source[x] # Absent => upd[x] # 0
      <4>. SUFFICES ASSUME ~request.quick, upd[x] = 0, data'.source[x] # Absent PROVE FALSE
        OBVIOUS
      <4>1. v # Absent /\ v \in Held
        BY <1>2, <2>2, <2>3, <2>5, <2>17, SidesAre DEF v
      <4>. QED
        BY <2>2, <2>5, <2>17, <4>1, HashFacts
    <3>. QED
      BY <1>1, <2>6, <2>17, <3>1 DEF Calm, TouchedSound
  <2>18. x \in touched'
    BY <1>1
  <2>19. \A S : Regular(x, S) /\ "raced" \in S => Undisturbed(x)
    BY DEF Regular, Undisturbed
  <2>20. "raced" \in Marks
    BY DEF Marks
  <2>. QED
    BY <2>1, <2>4, <2>7, <2>8, <2>9, <2>10, <2>11, <2>12, <2>13, <2>14, <2>15, <2>16, <2>17, <2>18,
       <2>19, <2>20 DEF IdInv
<1>. QED
  BY <1>4, <1>5, <1>6, <1>7 DEF IInv

(* A user's edit: during a run it frees the run of its promises about the  *)
(* id, between runs it is a change to carry over.                          *)
LEMMA Edits == ASSUME IInv, NEW s0 \in Sides, NEW x \in config.ids, NEW c \in Held, Edit(s0, x, c)
               PROVE  IInv'
<1>1. /\ Typed /\ Phases /\ data' = [data EXCEPT ![s0][x] = c]
      /\ unsynced' = [unsynced EXCEPT ![s0] = @ \cup {x}]
      /\ gone' = [gone EXCEPT ![s0] = IF c = Absent THEN @ \cup {x} ELSE @ \ {x}]
      /\ UNCHANGED <<config, writable, rows, stage, runVars, faults>>
  BY DEF IInv, Edit
<1>2. /\ x \in Ids /\ data \in [Sides -> [Ids -> Held]]
      /\ unsynced \in [Sides -> SUBSET Ids] /\ gone \in [Sides -> SUBSET Ids]
      /\ marks \in [Ids -> SUBSET Marks]
  BY <1>1, ConfigsAssumption DEF Typed, TypeOK, PerSide
<1>3. /\ (marks \in [Ids -> SUBSET Marks])'
      /\ \A id \in Ids : marks[id] \subseteq marks'[id]
      /\ stage # "idle" => "raced" \in marks'[x]
      /\ rows[x] # NoRow /\ (\A s \in Sides : data[s][x] = Absent) => "recreated" \in marks'[x]
  <2>1. marks' = [marks EXCEPT ![x] =
          @ \cup (IF stage # "idle" THEN {"raced"} ELSE {})
            \cup (IF rows[x] # NoRow /\ \A s \in Sides : data[s][x] = Absent
                  THEN {"recreated"} ELSE {})]
    BY DEF Edit
  <2>. DEFINE more == (IF stage # "idle" THEN {"raced"} ELSE {})
            \cup (IF rows[x] # NoRow /\ \A s \in Sides : data[s][x] = Absent
                  THEN {"recreated"} ELSE {})
  <2>2. more \subseteq Marks
    BY DEF Marks
  <2>3. /\ stage # "idle" => "raced" \in more
        /\ rows[x] # NoRow /\ (\A s \in Sides : data[s][x] = Absent) => "recreated" \in more
    OBVIOUS
  <2>4. marks' = [marks EXCEPT ![x] = @ \cup more]
    BY <1>2, <2>1
  <2>. HIDE DEF more
  <2>. QED
    BY <1>2, <2>2, <2>3, <2>4
<1>4. /\ (data \in PerSide(Held))' /\ (unsynced \in [Sides -> SUBSET Ids])'
      /\ (gone \in [Sides -> SUBSET Ids])'
      /\ \A s \in Sides, id \in Ids :
            /\ data'[s][id] = IF s = s0 /\ id = x THEN c ELSE data[s][id]
            /\ id \in unsynced'[s] <=> id \in unsynced[s] \/ (s = s0 /\ id = x)
            /\ id # x => (id \in gone'[s] <=> id \in gone[s])
            /\ s # s0 => (id \in gone'[s] <=> id \in gone[s])
      /\ c = Absent => x \in gone'[s0]
  BY <1>1, <1>2 DEF PerSide
<1>5. (edits \in 0..MaxEdits)'
  BY <1>1, BoundsAssumption DEF Edit, Typed, TypeOK
<1>6. Typed'
  BY <1>1, <1>3, <1>4, <1>5 DEF Typed, TypeOK
<1>7. Phases'
  BY <1>1, <1>3 DEF Phases, Planned, Typed, TypeOK
<1>8. ASSUME NEW id \in Ids, id # x PROVE IdInv(id)'
  <2>1. IdInv(id) /\ got \subseteq Sides /\ side \in Sides
    BY <1>1 DEF IInv, Typed, TypeOK
  <2>2. \A s \in Sides : /\ data'[s][id] = data[s][id]
                         /\ id \in unsynced'[s] <=> id \in unsynced[s]
                         /\ id \in gone'[s] <=> id \in gone[s]
    BY <1>4, <1>8
  <2>3. marks[id] \subseteq marks'[id]
    BY <1>3
  <2>. QED
    BY <1>1, <2>1, <2>2, <2>3, Still
<1>9. IdInv(x)'
  <2>1. IdInv(x)
    BY <1>2 DEF IInv
  <2>2. CASE stage # "idle"
    BY <1>3, <2>2 DEF IdInv, Undisturbed, Carried, Regular, Marks
  <2>3. CASE stage = "idle"
    <3>. DEFINE o == Other(s0)
    <3>1. o \in Sides /\ o # s0 /\ Other(o) = s0 /\ \A s \in Sides : s = s0 \/ s = o
      BY SidesAre
    <3>. HIDE DEF o
    <3>2. /\ data'[s0][x] = c /\ data'[o][x] = data[o][x] /\ rows'[x] = rows[x]
          /\ x \in unsynced'[s0] /\ (x \in unsynced'[o] <=> x \in unsynced[o])
          /\ (x \in gone'[o] <=> x \in gone[o])
      BY <1>1, <1>2, <1>4, <3>1
    <3>3. \A S : Regular(x, S)' => Regular(x, S)
      BY <1>2, <1>3 DEF Regular
    <3>4. \A S : "recreated" \in S /\ Regular(x, S)' =>
             rows[x] = NoRow \/ data[s0][x] # Absent \/ data[o][x] # Absent
      BY <1>3, <3>1 DEF Regular
    <3>5. Regular(x, {"raced", "recreated", "withheld"})' => Paired(x)'
      BY <2>1, <3>1, <3>2, <3>3, <3>4 DEF Paired, IdInv
    <3>6. ASSUME Regular(x, {"raced", "recreated", "withheld", "wiped"})', NEW s \in Sides,
                 rows[x] # NoRow, data'[s][x] = Absent, x \notin gone'[s]
          PROVE  FALSE \/ data'[Other(s)][x] = Absent
      <4>1. GoneKnown(x) /\ (data[s0][x] # Absent \/ data[o][x] # Absent)
        BY <2>1, <3>3, <3>4, <3>6 DEF IdInv
      <4>2. s = o
        BY <1>4, <3>1, <3>2, <3>6
      <4>. QED
        BY <3>1, <3>2, <3>6, <4>1, <4>2 DEF GoneKnown
    <3>7. Kept(x)'
      BY <3>2, <3>5, <3>6 DEF Kept, GoneKnown
    <3>8. ASSUME Regular(x, Marks)' PROVE Base(x)'
      <4>1. Base(x)
        BY <1>1, <2>1, <2>3, <3>3, <3>8 DEF IdInv, Phases
      <4>2. rows[x] = NoRow \/ data[s0][x] # Absent \/ data[o][x] # Absent
        BY <3>4, <3>8 DEF Marks
      <4>3. ASSUME NEW s \in Sides PROVE Clean(x, s)'
        <5>1. s = s0 => Clean(x, s)'
          BY <3>2 DEF Clean
        <5>2. s = o => Clean(x, s)'
          BY <3>1, <3>2, <4>1, <4>2 DEF Clean, Base
        <5>. QED
          BY <3>1, <5>1, <5>2
      <4>. QED
        BY <3>2, <4>3 DEF Base
    <3>9. ~request.quick /\ ~request.clobber /\ got = {} /\ touched = {}
      BY <1>1, <2>3 DEF Phases, Default
    <3>10. Rest(x)'
      BY <1>1, <3>7, <3>8, <3>9 DEF Rest, Fetched, QuickSound, TouchedSound
    <3>11. AtRest'
      BY <1>1, <2>3 DEF AtRest, Phases
    <3>. QED
      BY <1>2, <3>10, <3>11, RestingNext
  <2>. QED
    BY <2>2, <2>3
<1>. QED
  BY <1>6, <1>7, <1>8, <1>9 DEF IInv

(* A batch begins: what it leaves out is withheld, or a deletion that is   *)
(* denied.                                                                 *)
LEMMA BeginsBatch == ASSUME IInv, BeginBatch PROVE IInv'
<1>1. /\ Typed /\ Phases /\ stage = "apply" /\ stage' = "write" /\ known' = Present(side)
      /\ UNCHANGED <<config, data, writable, rows, request, got, wiped, seen, plan, upd,
                     side, failed, back, touched, unsynced, gone, edits, faults>>
  BY DEF IInv, BeginBatch
<1>2. /\ marks \in [Ids -> SUBSET Marks] /\ side \in Sides /\ ~failed /\ ~request.quick
      /\ Planned(side) \subseteq Ids
  BY <1>1 DEF Typed, TypeOK, Phases, Planned
<1>3. /\ (marks \in [Ids -> SUBSET Marks])' /\ todo' \subseteq Planned(side)
      /\ \A id \in Ids :
            /\ marks[id] \subseteq marks'[id]
            /\ id \in Planned(side) \ todo' =>
                  \/ "withheld" \in marks'[id]
                  \/ (plan[side][id] = Absent /\ "denied" \in marks'[id])
  <2>1. CASE todo' = {} /\ Marked(Planned(side), "withheld")
    <3>1. "withheld" \in Marks
      BY DEF Marks
    <3>2. /\ (marks \in [Ids -> SUBSET Marks])'
          /\ \A id \in Ids : /\ marks[id] \subseteq marks'[id]
                             /\ id \in Planned(side) => "withheld" \in marks'[id]
      BY <1>1, <2>1, <3>1, MarksGrow
    <3>. QED
      BY <1>2, <2>1, <3>2
  <2>2. CASE todo' = Planned(side) /\ UNCHANGED marks
    BY <1>2, <2>2
  <2>3. CASE LET deletes == {id \in Ids : plan[side][id] = Absent}
             IN todo' = Planned(side) \ deletes /\ Marked(deletes, "denied")
    <3>1. "denied" \in Marks
      BY DEF Marks
    <3>. QED
      BY <1>1, <1>2, <2>3, <3>1, MarksGrow
  <2>. QED
    BY <2>1, <2>2, <2>3 DEF BeginBatch
<1>4. Present(side) \subseteq Ids
  BY DEF Present
<1>5. Typed'
  BY <1>1, <1>2, <1>3, <1>4 DEF Typed, TypeOK, Planned
<1>6. Phases'
  BY <1>1, <1>2 DEF Phases, Planned
<1>7. ASSUME NEW id \in Ids PROVE IdInv(id)'
  <2>1. IdInv(id)
    BY DEF IInv
  <2>2. /\ Undisturbed(id)' => Undisturbed(id)
        /\ Carried(id)' => Carried(id)
        /\ \A S : Regular(id, S)' => Regular(id, S)
    BY <1>3 DEF Undisturbed, Carried, Regular
  <2>3. Carried(id)' => WrittenSound(id)'
    BY <1>1, <1>2, <1>3 DEF Carried, WrittenSound, Planned
  <2>4. /\ Fetched(id)' <=> Fetched(id)
        /\ PlanSound(id)' <=> PlanSound(id)
        /\ BackSound(id)' <=> BackSound(id)
        /\ QuickSound(id)' <=> QuickSound(id)
        /\ Clobbered(id) => Clobbered(id)'
        /\ UpdSound(id)' <=> UpdSound(id)
        /\ QuickCarried(id)'
    BY <1>1, <1>2 DEF Fetched, PlanSound, PlanMade, BackSound, QuickSound, Equal, Clobbered, UpdSound,
                      Pushed, QuickCarried
  <2>5. /\ Paired(id)' <=> Paired(id)
        /\ GoneKnown(id)' <=> GoneKnown(id)
        /\ DeletionCaused(id)' <=> DeletionCaused(id)
        /\ Covered(id)' <=> Covered(id)
    BY <1>1 DEF Paired, GoneKnown, DeletionCaused, PlainRun, Covered, TwoWay, Equal
  <2>6. /\ Base(id)' <=> Base(id)
        /\ TouchedSound(id)' <=> TouchedSound(id)
        /\ Calm(id)' <=> Calm(id)
        /\ Caused(id)' <=> Caused(id)
        /\ id \in touched' <=> id \in touched
    BY <1>1 DEF Base, Clean, Equal, TouchedSound, Calm, RowOk, Caused, PlainRun
  <2>. QED
    BY <2>1, <2>2, <2>3, <2>4, <2>5, <2>6 DEF IdInv
<1>. QED
  BY <1>5, <1>6, <1>7 DEF IInv

LEMMA SkipsSide == ASSUME IInv, SkipSide PROVE IInv'
<1>1. /\ Typed /\ Phases /\ stage = "apply" /\ stage' = NextStage /\ side' = "source"
      /\ Planned(side) = {}
      /\ UNCHANGED <<config, data, writable, rows, request, got, wiped, seen, plan, upd,
                     todo, known, failed, back, touched, history, edits, faults>>
  BY DEF IInv, SkipSide
<1>2. /\ side \in Sides /\ ~failed /\ ~request.quick /\ stage' \in {"apply", "save"} /\ todo = {}
      /\ stage' = "save" => side = "source"
  BY <1>1, SidesAre DEF Typed, TypeOK, Phases, NextStage
<1>3. Typed'
  BY <1>1, <1>2, SidesAre DEF Typed, TypeOK
<1>4. Phases'
  <2>1. Planned("target") = {} /\ (stage' = "save" => Planned("source") = {})
    BY <1>1, <1>2, SidesAre DEF Phases
  <2>2. \A s \in Sides : Planned(s)' = Planned(s)
    BY <1>1 DEF Planned
  <2>. QED
    BY <1>1, <1>2, <2>1, <2>2, SidesAre DEF Phases
<1>5. ASSUME NEW id \in Ids PROVE IdInv(id)'
  <2>1. IdInv(id)
    BY DEF IInv
  <2>2. /\ Undisturbed(id)' <=> Undisturbed(id)
        /\ Carried(id)' <=> Carried(id)
        /\ \A S : Regular(id, S)' <=> Regular(id, S)
    BY <1>1 DEF Undisturbed, Carried, Regular
  <2>3. WrittenSound(id)' /\ QuickCarried(id)'
    BY <1>1, <1>2 DEF WrittenSound, QuickCarried
  <2>4. /\ Fetched(id)' <=> Fetched(id)
        /\ PlanSound(id)' <=> PlanSound(id)
        /\ BackSound(id)' <=> BackSound(id)
        /\ QuickSound(id)' <=> QuickSound(id)
        /\ Clobbered(id) => Clobbered(id)'
        /\ UpdSound(id)' <=> UpdSound(id)
    BY <1>1, <1>2 DEF Fetched, PlanSound, PlanMade, BackSound, QuickSound, Equal, Clobbered, UpdSound,
                      Pushed
  <2>5. /\ Paired(id)' <=> Paired(id)
        /\ GoneKnown(id)' <=> GoneKnown(id)
        /\ DeletionCaused(id)' <=> DeletionCaused(id)
        /\ Covered(id)' <=> Covered(id)
    BY <1>1, <1>2 DEF Paired, GoneKnown, DeletionCaused, PlainRun, Covered, TwoWay, Equal
  <2>6. /\ Base(id)' <=> Base(id)
        /\ TouchedSound(id)' <=> TouchedSound(id)
        /\ Calm(id)' <=> Calm(id)
        /\ Caused(id)' <=> Caused(id)
        /\ id \in touched' <=> id \in touched
    BY <1>1, <1>2 DEF Base, Clean, Equal, TouchedSound, Calm, RowOk, Caused, PlainRun
  <2>. QED
    BY <2>1, <2>2, <2>3, <2>4, <2>5, <2>6 DEF IdInv
<1>. QED
  BY <1>3, <1>4, <1>5 DEF IInv

(* A batch is over: all of it that was not withheld or denied is written.  *)
LEMMA EndsBatch == ASSUME IInv, EndBatch PROVE IInv'
<1>. DEFINE read == IF request.quick THEN "source" ELSE side
<1>1. /\ Typed /\ Phases /\ stage = "write" /\ todo = {} /\ ~failed
      /\ back' = [back EXCEPT ![read] = HashesOf(read)]
      /\ stage' = NextStage /\ side' = "source" /\ known' = {}
      /\ plan' = [plan EXCEPT ![side] = NoPlan[side]]
      /\ UNCHANGED <<config, data, writable, rows, request, got, wiped, seen, upd,
                     todo, failed, touched, history, edits, faults>>
  BY DEF IInv, EndBatch, BatchOk
<1>2. /\ side \in Sides /\ read \in Sides /\ stage' \in {"apply", "save"}
      /\ stage' = "apply" => side = "target" /\ ~request.quick
      /\ stage' = "save" => request.quick \/ side = "source"
      /\ request.quick => side = "target"
      /\ plan \in [Sides -> [Ids -> Held \cup {Keep, Refused}]] /\ data \in [Sides -> [Ids -> Held]]
      /\ back \in [Sides -> [Ids -> AnyHash]]
      /\ \A s \in Sides : back[s] \in [Ids -> HashesIn(s)]
  BY <1>1, SidesAre DEF Typed, TypeOK, PerSide, Phases, NextStage
<1>3. /\ \A s \in Sides : \A id \in Ids : plan'[s][id] = IF s = side THEN Keep ELSE plan[s][id]
      /\ (plan \in PerSide(Held \cup {Keep, Refused}))'
  BY <1>1, <1>2 DEF NoPlan, PerSide
<1>4. ASSUME NEW s \in Sides
      PROVE  /\ HashesOf(s) \in [Ids -> HashesIn(s)] /\ HashesOf(s) \in [Ids -> AnyHash]
             /\ \A id \in Ids : HashesOf(s)[id] = Hash(s, data[s][id])
  <2>1. \A id \in Ids : data[s][id] \in Held
    BY <1>2
  <2>2. \A id \in Ids : Hash(s, data[s][id]) \in HashesIn(s) /\ Hash(s, data[s][id]) \in AnyHash
    BY <2>1, HashFacts
  <2>3. HashesOf(s) = [id \in Ids |-> Hash(s, data[s][id])]
    BY DEF HashesOf
  <2>. HIDE DEF HashesOf
  <2>. QED
    BY <2>2, <2>3
<1>5. /\ \A s \in Sides : back'[s] = IF s = read THEN HashesOf(read) ELSE back[s]
      /\ (back \in PerSide(AnyHash))' /\ \A s \in Sides : back'[s] \in [Ids -> HashesIn(s)]
  BY <1>1, <1>2, <1>4 DEF PerSide
<1>6. read = IF request.quick THEN "source" ELSE side
  OBVIOUS
<1>. HIDE DEF read
<1>7. Typed'
  BY <1>1, <1>2, <1>3, <1>5, SidesAre DEF Typed, TypeOK
<1>8. Phases'
  <2>1. /\ \A u \in Sides : u = side => Planned(u)' = {}
        /\ side = "source" => Planned("target")' = {}
        /\ request.quick => Planned("source")' = {}
    <3>1. /\ \A id \in Ids : plan'[side][id] = Keep
          /\ \A s \in Sides, id \in Ids : plan[s][id] = Keep => plan'[s][id] = Keep
      BY <1>2, <1>3
    <3>2. ASSUME NEW u \in Sides, u = side PROVE Planned(u)' = {}
      BY <1>1, <3>1, <3>2 DEF Planned
    <3>3. side = "source" => Planned("target")' = {}
      <4>1. side = "source" => Planned("target") = {}
        BY <1>1 DEF Phases
      <4>. QED
        BY <3>1, <4>1, SidesAre DEF Planned
    <3>4. request.quick => Planned("source")' = {}
      <4>1. request.quick => Planned("source") = {}
        BY <1>1 DEF Phases
      <4>. QED
        BY <3>1, <4>1, SidesAre DEF Planned
    <3>. QED
      BY <3>2, <3>3, <3>4
  <2>2. stage' = "apply" => back'.source = Nothing
    BY <1>1, <1>2, <1>5, <1>6, SidesAre DEF Phases
  <2>3. Planned("target")' = {}
    <3>1. side = "target" \/ side = "source"
      BY <1>2, SidesAre
    <3>. QED
      BY <2>1, <3>1, SidesAre
  <2>4. stage' = "save" => \A s \in Sides : Planned(s)' = {}
    <3>1. stage' = "save" => Planned("source")' = {}
      BY <1>2, <2>1, SidesAre
    <3>. QED
      BY <2>3, <3>1, SidesAre
  <2>5. request'.quick => /\ ~request'.clobber /\ config'.mode = "OneWayUpload"
                          /\ stage' # "apply" /\ upd' = Nothing /\ Planned("source")' = {}
                          /\ \A id \in Ids : rows'[id] = NoRow
                          /\ stage' \notin {"fetch", "write"}
    BY <1>1, <1>2, <2>1 DEF Phases
  <2>6. got' = {} /\ todo' = {} /\ ~failed' /\ (wiped' => request'.clobber)
    BY <1>1 DEF Phases
  <2>. QED
    BY <1>1, <1>2, <2>2, <2>3, <2>4, <2>5, <2>6 DEF Phases
<1>9. ASSUME NEW id \in Ids PROVE IdInv(id)'
  <2>1. IdInv(id)
    BY DEF IInv
  <2>2. /\ Undisturbed(id)' <=> Undisturbed(id)
        /\ Carried(id)' <=> Carried(id)
        /\ \A S : Regular(id, S)' <=> Regular(id, S)
    BY <1>1 DEF Undisturbed, Carried, Regular
  <2>3. \E o \in Sides : o = Other(side) /\ o # side /\ Other(o) = side
                          /\ (\A s \in Sides : s = side \/ s = o)
    BY <1>2, SidesAre
  <2>4. PICK o \in Sides : o = Other(side) /\ o # side /\ Other(o) = side
                           /\ (\A s \in Sides : s = side \/ s = o)
    BY <2>3
  <2>5. /\ plan'[side][id] = Keep /\ plan'[o][id] = plan[o][id]
        /\ \A s \in Sides : plan'[s][id] # Keep => plan[s][id] # Keep /\ plan'[s][id] = plan[s][id]
    BY <1>2, <1>3, <2>4
  <2>6. \A s \in Sides : back'[s][id] = IF s = read THEN Hash(s, data[s][id]) ELSE back[s][id]
    BY <1>4, <1>5
  (* What the batch was to write of this id, it has written.               *)
  <2>7. ASSUME Carried(id), plan[side][id] # Keep
        PROVE  \/ Equal(id) /\ (plan[side][id] # Absent => data[side][id] # Absent)
               \/ plan[side][id] = Absent /\ "denied" \in marks[id] /\ data[o][id] = Absent
    <3>1. Undisturbed(id) /\ WrittenSound(id)
      BY <2>1, <2>7 DEF Carried, Undisturbed, IdInv
    <3>2. PlanMade(id, side)
      BY <1>2, <2>1, <3>1 DEF IdInv, PlanSound
    <3>3. data[side][id] \in Held /\ Refused \notin Held
      BY <1>2, HashFacts DEF Refused
    <3>4. CASE data[side][id] = plan[side][id]
      BY <2>4, <2>7, <3>2, <3>3, <3>4, SidesAre DEF PlanMade, Equal
    <3>5. CASE plan[side][id] = Absent /\ "denied" \in marks[id]
      BY <2>4, <2>7, <3>2, <3>5 DEF PlanMade
    <3>. QED
      BY <1>1, <2>7, <3>1, <3>4, <3>5 DEF WrittenSound
  <2>8. Fetched(id)' /\ (QuickSound(id)' <=> QuickSound(id)) /\ (Clobbered(id) => Clobbered(id)')
    BY <1>1, <1>2, <2>5, SidesAre DEF Phases, Fetched, QuickSound, Equal, Clobbered
  <2>9. PlanSound(id) => PlanSound(id)'
    <3>1. ASSUME NEW w \in Sides PROVE PlanMade(id, w) => PlanMade(id, w)'
      <4>1. CASE plan'[w][id] = Keep
        BY <4>1 DEF PlanMade
      <4>2. CASE plan'[w][id] # Keep
        <5>1. plan'[w][id] = plan[w][id] /\ plan[w][id] # Keep
              /\ (plan[Other(w)][id] = Keep => plan'[Other(w)][id] = Keep)
          BY <2>5, <4>2, SidesAre
        <5>. QED
          BY <1>1, <5>1 DEF PlanMade
      <4>. QED
        BY <4>1, <4>2
    <3>. QED
      BY <3>1 DEF PlanSound
  <2>10. BackSound(id) => BackSound(id)'
    BY <1>1, <1>6, <2>6, SidesAre DEF BackSound
  <2>11. WrittenSound(id)'
    BY <1>2 DEF WrittenSound
  <2>12. Carried(id) => UpdSound(id)'
    <3>. SUFFICES ASSUME Carried(id), upd[id] # 0
                  PROVE  \E w \in Sides : plan'[w][id] # Keep \/ Pushed(id, w)'
      BY <1>1 DEF UpdSound
    <3>1. Undisturbed(id) /\ ~request.quick
      <4>1. request.quick => upd[id] = 0
        BY <1>1, Blank DEF Phases
      <4>. QED
        BY <4>1 DEF Carried, Undisturbed
    <3>2. CASE plan[o][id] # Keep
      BY <2>4, <2>5, <3>2
    <3>3. CASE plan[side][id] # Keep
      <4>1. PlanMade(id, side)
        BY <1>2, <2>1, <3>1 DEF IdInv, PlanSound
      <4>2. plan[side][id] \notin {Refused, Absent} /\ upd[id] = Hash(o, data[o][id])
        BY <2>4, <3>1, <3>3, <4>1 DEF PlanMade
      <4>3. Equal(id) /\ data[side][id] # Absent
        BY <2>7, <3>3, <4>2
      <4>4. ASSUME NEW w \in Sides, w = side PROVE Pushed(id, w)'
        BY <1>1, <1>6, <2>4, <2>6, <3>1, <4>2, <4>3, <4>4, SidesAre DEF Pushed, Equal
      <4>. QED
        BY <1>2, <4>4
    <3>4. CASE \E w \in Sides : Pushed(id, w)
      <4>1. PICK w \in Sides : Pushed(id, w)
        BY <3>4
      <4>2. back'[w][id] = Hash(w, data[w][id])
        BY <2>6, <4>1 DEF Pushed
      <4>3. Pushed(id, w)'
        BY <1>1, <4>1, <4>2 DEF Pushed, Equal
      <4>. QED
        BY <4>3
    <3>. QED
      BY <2>1, <2>4, <3>2, <3>3, <3>4 DEF IdInv, UpdSound
  <2>13. Carried(id) => QuickCarried(id)'
    <3>. SUFFICES ASSUME Carried(id), request.quick PROVE Equal(id)
      BY <1>1 DEF QuickCarried, Equal
    <3>1. Undisturbed(id) /\ side = "target" /\ o = "source"
      BY <1>2, <2>4, SidesAre DEF Carried, Undisturbed
    <3>2. Equal(id) \/ plan[side][id] # Keep
      BY <1>1, <2>1, <3>1 DEF IdInv, QuickCarried
    <3>3. data.target[id] = Absent \/ Equal(id)
      BY <2>1, <3>1 DEF IdInv, QuickSound
    <3>. QED
      BY <2>7, <3>1, <3>2, <3>3 DEF Equal
  <2>14. /\ Paired(id)' <=> Paired(id)
         /\ GoneKnown(id)' <=> GoneKnown(id)
         /\ Base(id)' <=> Base(id)
         /\ TouchedSound(id)' <=> TouchedSound(id)
         /\ id \in touched' <=> id \in touched
    BY <1>1 DEF Paired, GoneKnown, Base, Clean, Equal, TouchedSound
  <2>15. (DeletionCaused(id) => DeletionCaused(id)') /\ (Caused(id) => Caused(id)')
    <3>1. \A w \in Sides : plan'[w][id] = plan[w][id] \/ plan'[w][id] = Keep
      BY <2>5
    <3>2. Keep # Absent
      BY DEF Keep, Absent
    <3>. QED
      BY <1>1, <3>1, <3>2 DEF DeletionCaused, Caused, PlainRun
  <2>16. Calm(id) => Calm(id)'
    BY <1>1 DEF Calm, Equal, RowOk
  <2>17. Regular(id, {"raced", "recreated", "withheld", "denied"}) => Covered(id)'
    <3>. SUFFICES ASSUME Regular(id, {"raced", "recreated", "withheld", "denied"}), TwoWay
                  PROVE  Equal(id) \/ \E w \in Sides : plan'[w][id] # Keep
      BY <1>1 DEF Covered, TwoWay, PlainRun, Equal
    <3>1. Carried(id) /\ "denied" \notin marks[id]
      BY DEF Carried, Regular
    <3>2. Equal(id) \/ \E w \in Sides : plan[w][id] # Keep
      BY <1>1, <2>1 DEF IdInv, Covered
    <3>3. plan[side][id] # Keep => Equal(id)
      BY <2>7, <3>1
    <3>4. plan[o][id] # Keep => plan'[o][id] # Keep
      BY <2>5
    <3>. QED
      BY <2>4, <3>2, <3>3, <3>4
  <2>. QED
    BY <2>1, <2>2, <2>8, <2>9, <2>10, <2>11, <2>12, <2>13, <2>14, <2>15, <2>16, <2>17 DEF IdInv
<1>. QED
  BY <1>7, <1>8, <1>9 DEF IInv

(* The mirror of a first sync: what differs is written to a target found   *)
(* empty.                                                                  *)
LEMMA Mirrors == ASSUME IInv, MirrorAll PROVE IInv'
<1>. DEFINE differ == {id \in Ids : Hash("source", seen.source[id]) # Hash("target", seen.target[id])}
<1>1. /\ Typed /\ Phases /\ stage = "fetch" /\ got = Sides /\ request.quick
      /\ plan' = [NoPlan EXCEPT !.target = [id \in Ids |-> IF id \in differ THEN seen.source[id] ELSE Keep]]
      /\ todo' = IF writable.target THEN differ ELSE {}
      /\ Marked(differ \ todo', "withheld")
      /\ known' = {id \in Ids : seen.target[id] # Absent}
      /\ stage' = "write" /\ got' = {} /\ wiped' = FALSE /\ seen' = Empty
      /\ UNCHANGED <<config, data, writable, rows, request, upd, side,
                     failed, back, touched, unsynced, gone, edits, faults>>
  BY DEF IInv, MirrorAll, DropFetched
<1>2. /\ side = "target" /\ ~failed /\ upd = Nothing /\ back = Empty /\ ~request.clobber
      /\ config.mode = "OneWayUpload" /\ \A id \in Ids : rows[id] = NoRow
      /\ \A id \in touched : "wiped" \in marks[id]
  BY <1>1 DEF Phases
<1>3. /\ seen \in [Sides -> [Ids -> Held]] /\ data \in [Sides -> [Ids -> Held]]
      /\ marks \in [Ids -> SUBSET Marks]
  BY <1>1 DEF Typed, TypeOK, PerSide
<1>4. \A id \in Ids : /\ seen.source[id] \in Held /\ seen.target[id] \in Held
                      /\ seen.source[id] # Keep /\ seen.source[id] # Refused
                      /\ id \notin differ => (seen.source[id] = Absent <=> seen.target[id] = Absent)
  BY <1>3, HashFacts, SidesAre DEF Keep, Refused
<1>5. /\ \A id \in Ids : /\ plan'.source[id] = Keep
                         /\ plan'.target[id] = IF id \in differ THEN seen.source[id] ELSE Keep
      /\ (plan \in PerSide(Held \cup {Keep, Refused}))'
  <2>1. NoPlan \in [Sides -> [Ids -> Held \cup {Keep, Refused}]]
    BY DEF NoPlan
  <2>2. [id \in Ids |-> IF id \in differ THEN seen.source[id] ELSE Keep] \in [Ids -> Held \cup {Keep, Refused}]
    BY <1>4
  <2>. QED
    BY <1>1, <2>1, <2>2, Blank, SidesAre DEF PerSide
<1>6. differ \subseteq Ids /\ todo' \subseteq differ
  BY <1>1
<1>7. (seen \in PerSide(Held))' /\ seen' = Empty
  BY <1>1, HashFacts DEF Empty, Nothing, PerSide, Absent
<1>8. /\ (marks \in [Ids -> SUBSET Marks])'
      /\ \A id \in Ids : /\ marks[id] \subseteq marks'[id]
                         /\ id \in differ \ todo' => "withheld" \in marks'[id]
  <2>1. "withheld" \in Marks
    BY DEF Marks
  <2>. QED
    BY <1>1, <2>1, MarksGrow
<1>. HIDE DEF differ
<1>9. Typed'
  <2>1. \A id \in todo' : plan'[side][id] # Keep
    BY <1>2, <1>4, <1>5, <1>6
  <2>2. known' \subseteq Ids
    BY <1>1
  <2>. QED
    BY <1>1, <1>5, <1>6, <1>7, <1>8, <2>1, <2>2 DEF Typed, TypeOK
<1>10. Phases'
  <2>1. Planned("source")' = {}
    BY <1>5 DEF Planned
  <2>2. stage' = "write" /\ got' = {} /\ side' = "target" /\ back' = Empty /\ upd' = Nothing
        /\ ~wiped' /\ ~request'.clobber /\ config'.mode = "OneWayUpload"
        /\ \A id \in Ids : rows'[id] = NoRow
    BY <1>1, <1>2
  <2>3. back'.source = Nothing
    BY <2>2, SidesAre DEF Empty
  <2>. QED
    BY <2>1, <2>2, <2>3 DEF Phases
<1>11. ASSUME NEW id \in Ids PROVE IdInv(id)'
  <2>1. IdInv(id)
    BY DEF IInv
  <2>2. /\ Undisturbed(id)' => Undisturbed(id)
        /\ Carried(id)' => Undisturbed(id)
        /\ \A S : Regular(id, S)' => Regular(id, S)
    BY <1>8 DEF Undisturbed, Carried, Regular
  (* What was fetched stands, and the target is empty or the same.         *)
  <2>3. ASSUME Undisturbed(id)
        PROVE  /\ seen.source[id] = data.source[id] /\ seen.target[id] = data.target[id]
               /\ data.target[id] = Absent \/ Equal(id)
    BY <1>1, <2>1, <2>3, SidesAre DEF IdInv, Fetched, QuickSound
  <2>4. \A s \in Sides : s = "source" \/ s = "target"
    BY SidesAre
  <2>5. Undisturbed(id) => PlanSound(id)'
    <3>1. ASSUME Undisturbed(id), NEW w \in Sides PROVE PlanMade(id, w)'
      <4>1. CASE w = "source"
        BY <1>5, <4>1 DEF PlanMade
      <4>2. CASE w = "target"
        <5>1. upd'[id] = 0
          BY <1>1, <1>2, Blank
        <5>. QED
          BY <1>1, <1>4, <1>5, <2>3, <3>1, <4>2, <5>1, SidesAre DEF PlanMade
      <4>. QED
        BY <2>4, <4>1, <4>2
    <3>. QED
      BY <3>1 DEF PlanSound
  <2>6. BackSound(id)' /\ UpdSound(id)' /\ Fetched(id)'
    BY <1>1, <1>2, Blank DEF BackSound, UpdSound, Fetched
  <2>7. (QuickSound(id) => QuickSound(id)') /\ Clobbered(id)'
    BY <1>1, <1>2 DEF QuickSound, Equal, Clobbered
  <2>8. Carried(id)' => WrittenSound(id)'
    <3>. SUFFICES ASSUME Carried(id)' PROVE ~(id \notin todo' /\ plan'[side][id] # Keep)
      BY <1>1 DEF WrittenSound
    <3>1. "withheld" \notin marks'[id]
      BY DEF Carried
    <3>. QED
      BY <1>2, <1>5, <1>8, <3>1
  <2>9. Carried(id)' => QuickCarried(id)'
    <3>1. ASSUME Undisturbed(id) PROVE Equal(id) \/ plan'.target[id] # Keep
      <4>1. CASE id \in differ
        BY <1>4, <1>5, <4>1
      <4>2. CASE id \notin differ
        BY <1>4, <2>3, <3>1, <4>2 DEF Equal
      <4>. QED
        BY <4>1, <4>2
    <3>. QED
      BY <1>1, <2>2, <3>1 DEF QuickCarried, Equal
  <2>10. /\ Paired(id)' /\ GoneKnown(id)' /\ Covered(id)'
    BY <1>1, <1>2 DEF Paired, GoneKnown, Covered, TwoWay
  <2>11. Calm(id)' /\ (TouchedSound(id) => TouchedSound(id)') /\ (Base(id) => Base(id)')
         /\ (id \in touched' <=> id \in touched)
    BY <1>1 DEF Calm, TouchedSound, Equal, Base, Clean
  <2>12. Regular(id, {"raced", "recreated", "withheld", "wiped"})' => DeletionCaused(id)'
    <3>1. Regular(id, {"raced", "recreated", "withheld", "wiped"})' => Undisturbed(id)
      BY <2>2 DEF Regular, Undisturbed
    <3>2. Undisturbed(id) => \A w \in Sides : plan'[w][id] = Absent => data[w][id] = Absent
      BY <1>4, <1>5, <2>3, <2>4 DEF Equal, Keep, Absent
    <3>. QED
      BY <1>1, <3>1, <3>2 DEF DeletionCaused
  <2>13. Regular(id, Marks)' => Caused(id)'
    <3>. SUFFICES ASSUME Regular(id, Marks)', NEW w \in Sides, plan'[w][id] # Keep,
                         data[w][id] # plan'[w][id]
                  PROVE  id \in unsynced[Other(w)]
      BY <1>1 DEF Caused
    <3>1. Regular(id, Marks) /\ Undisturbed(id) /\ id \notin touched
      <4>1. Regular(id, Marks)
        BY <2>2
      <4>2. "raced" \notin marks[id] /\ "wiped" \notin marks[id]
        BY <4>1 DEF Regular, Marks
      <4>. QED
        BY <1>2, <4>1, <4>2 DEF Undisturbed
    <3>2. Base(id) /\ w = "target"
      BY <1>5, <2>1, <2>4, <3>1 DEF IdInv
    <3>3. data.target[id] # data.source[id]
      BY <1>5, <2>3, <3>1, <3>2
    <3>4. data.source[id] # Absent
      BY <2>3, <3>1, <3>3 DEF Equal
    <3>. QED
      BY <1>2, <3>2, <3>4, SidesAre DEF Base, Clean
  <2>. QED
    BY <2>1, <2>2, <2>5, <2>6, <2>7, <2>8, <2>9, <2>10, <2>11, <2>12, <2>13 DEF IdInv
<1>. QED
  BY <1>9, <1>10, <1>11 DEF IInv
(* A record found equal on both sides gets its row.                        *)
LEMMA Seeds ==
    ASSUME Typed, NEW id \in Ids, Fetched(id) \/ ~Undisturbed(id), got = Sides,
           rows'[id] = Seeded(id), UNCHANGED <<data, unsynced, gone>>
    PROVE  /\ rows'[id] \in [Sides -> AnyHash]
           /\ (rows'[id].source = 0) = (rows'[id].target = 0)
           /\ Undisturbed(id) => /\ Paired(id) => Paired(id)'
                                 /\ GoneKnown(id) => GoneKnown(id)'
                                 /\ Base(id) => Base(id)'
<1>1. /\ seen \in [Sides -> [Ids -> Held]] /\ data \in [Sides -> [Ids -> Held]]
      /\ rows \in [Ids -> [Sides -> AnyHash]]
      /\ (rows[id].source = 0) = (rows[id].target = 0)
  BY DEF Typed, TypeOK, PerSide
<1>2. CASE rows'[id] = rows[id]
  <2>1. /\ Paired(id)' <=> Paired(id)
        /\ GoneKnown(id)' <=> GoneKnown(id)
        /\ Base(id)' <=> Base(id)
    BY <1>2 DEF Paired, GoneKnown, Base, Clean, Equal
  <2>. QED
    BY <1>1, <1>2, <2>1
<1>3. CASE rows'[id] # rows[id]
  <2>1. /\ seen.source[id] # Absent /\ seen.source[id] = seen.target[id]
        /\ rows'[id] = [s \in Sides |-> Hash(s, seen[s][id])]
    BY <1>3 DEF Seeded
  <2>2. \A s \in Sides : /\ seen[s][id] \in Held /\ seen[s][id] # Absent
                         /\ seen[s][id] = seen.source[id]
    BY <1>1, <2>1, SidesAre
  <2>3. \A s \in Sides : /\ Hash(s, seen[s][id]) \in AnyHash /\ Hash(s, seen[s][id]) # 0
    BY <2>2, HashFacts
  <2>4. \A s \in Sides : rows'[id][s] = Hash(s, seen[s][id])
    BY <2>1
  <2>5. rows'[id] \in [Sides -> AnyHash]
    BY <2>1, <2>3
  <2>6. (rows'[id].source = 0) = (rows'[id].target = 0)
    BY <2>3, <2>4, SidesAre
  <2>7. ASSUME Undisturbed(id) PROVE Paired(id)' /\ GoneKnown(id)' /\ (Base(id) => Base(id)')
    <3>1. \A s \in Sides : data[s][id] = seen.source[id]
      BY <2>2, <2>7 DEF Fetched
    <3>2. seen.source[id] \in Contents
      BY <2>2, SidesAre DEF Held
    <3>3. Paired(id)'
      BY <2>2, <2>4, <3>2 DEF Paired
    <3>4. GoneKnown(id)'
      BY <2>1, <3>1 DEF GoneKnown
    <3>5. \A s \in Sides : Clean(id, s)'
      <4>1. rows'[id] # NoRow
        BY <2>3, <2>4, NoRowIs, SidesAre
      <4>. QED
        BY <2>1, <2>2, <2>4, <3>1, <4>1 DEF Clean
    <3>6. Base(id) => Base(id)'
      BY <3>5 DEF Base, Equal
    <3>. QED
      BY <3>3, <3>4, <3>6
  <2>. QED
    BY <2>5, <2>6, <2>7
<1>. QED
  BY <1>2, <1>3

(* The row of an id that was found as it is: the same content on both      *)
(* sides.                                                                  *)
LEMMA PairedRow ==
    ASSUME Typed, NEW id \in Ids, Paired(id), rows[id] # NoRow, NEW s \in Sides, data[s][id] # Absent
    PROVE  /\ Equal(id) => (rows[id].source = Hash("source", data.source[id])
                              <=> rows[id].target = Hash("target", data.target[id]))
           /\ RowOk(id) => Equal(id)
<1>1. PICK c \in Contents : \A u \in Sides : rows[id][u] = Hash(u, c)
  BY DEF Paired
<1>2. c \in Held /\ \A u \in Sides : data[u][id] \in Held
  BY DEF Typed, TypeOK, PerSide, Held
<1>3. \A u \in Sides : rows[id][u] = Hash(u, data[u][id]) <=> data[u][id] = c
  BY <1>1, <1>2, HashFacts
<1>. QED
  BY <1>3, SidesAre DEF Equal, RowOk
(* A side that is as the row says is not written back: what is to be done  *)
(* is done to it, if anything.                                             *)
LEMMA CleanSide ==
    ASSUME NEW id \in Ids, NEW s \in Sides, ~request.clobber, got = Sides, Fetched(id),
           Clean(id, s), id \notin unsynced[s]
    PROVE  OpOf(id) \in {NoOp, Op("create", s), Op("update", s), Op("delete", s)}
<1>1. /\ OpOf(id) = DiffOp(seen.source[id], seen.target[id], rows[id])
      /\ \A u \in Sides : seen[u][id] = data[u][id]
  BY DEF OpOf, Known, Fetched
<1>2. Other(s) \in Sides /\ (s = "source" \/ s = "target")
  BY SidesAre
<1>3. CASE rows[id] = NoRow
  <2>1. seen[s][id] = Absent
    BY <1>1, <1>3 DEF Clean
  <2>2. CASE s = "target"
    BY <1>1, <1>3, <2>1, <2>2, DiffCases
  <2>3. CASE s = "source"
    BY <1>1, <1>3, <2>1, <2>3, DiffCases
  <2>. QED
    BY <1>2, <2>2, <2>3
<1>4. CASE rows[id] # NoRow /\ data[s][id] = Absent
  <2>1. seen.source[id] = Absent /\ seen.target[id] = Absent
    BY <1>1, <1>2, <1>4, SidesAre DEF Clean
  <2>. QED
    BY <1>1, <2>1, DiffCases
<1>5. CASE rows[id] # NoRow /\ data[s][id] # Absent
  <2>1. seen[s][id] # Absent /\ Hash(s, seen[s][id]) = rows[id][s]
    BY <1>1, <1>5 DEF Clean
  <2>2. CASE s = "source"
    <3>1. seen.source[id] # Absent /\ ~SChanged(seen.source[id], rows[id])
      BY <2>1, <2>2 DEF SChanged
    <3>. QED
      BY <1>1, <1>5, <2>2, <3>1, DiffCases
  <2>3. CASE s = "target"
    <3>1. seen.target[id] # Absent /\ ~TChanged(seen.target[id], rows[id])
      BY <2>1, <2>3 DEF TChanged
    <3>. QED
      BY <1>1, <1>5, <2>3, <3>1, DiffCases
  <2>. QED
    BY <1>2, <2>2, <2>3
<1>. QED
  BY <1>3, <1>4, <1>5

(* What the diff and the conflict walk plan for an id keeps its promises:  *)
(* a plan has a cause in what users did, and an id without one is equal on *)
(* both sides.                                                             *)
LEMMA Decides ==
    ASSUME Typed, Phases, NEW id \in Ids, IdInv(id), stage = "fetch", got = Sides, ~request.quick,
           NEW answer \in [Conflicts -> Answers \cup {"none"}],
           ~(/\ config.policy = "AskUser" /\ Direction = "Default"
             /\ \E x \in Conflicts : answer[x] = "none"),
           stage' = "apply", rows'[id] = Seeded(id), upd'[id] = Merge(id, answer).upd,
           \A s \in Sides : plan'[s][id] = Merge(id, answer)[s],
           got' = {}, wiped' = FALSE,
           UNCHANGED <<config, data, request, side, todo, failed, back, touched, marks, unsynced, gone>>
    PROVE  IdInv(id)'
<1>. DEFINE m == Merge(id, answer)
<1>1. /\ seen \in [Sides -> [Ids -> Held]] /\ data \in [Sides -> [Ids -> Held]]
      /\ rows \in [Ids -> [Sides -> AnyHash]] /\ back = Empty
      /\ \A x \in touched : "wiped" \in marks[x]
  BY DEF Typed, TypeOK, PerSide, Phases
<1>2. /\ Undisturbed(id)' <=> Undisturbed(id)
      /\ Carried(id)' => Undisturbed(id)
      /\ \A S : Regular(id, S)' <=> Regular(id, S)
      /\ \A S : "raced" \in S /\ Regular(id, S) => Undisturbed(id)
  BY DEF Undisturbed, Carried, Regular
<1>3. \A s \in Sides : /\ seen[s][id] \in Held /\ seen[s][id] # Keep /\ seen[s][id] # Refused
                       /\ Other(s) \in Sides /\ Other(s) # s /\ Other(Other(s)) = s
                       /\ s = "source" \/ s = "target"
  BY <1>1, HashFacts, SidesAre DEF Keep, Refused
<1>4. ASSUME Undisturbed(id)
      PROVE  /\ \A s \in Sides : seen[s][id] = data[s][id]
             /\ seen.source[id] = data.source[id] /\ seen.target[id] = data.target[id]
             /\ request.clobber => data.target[id] = Absent
  BY <1>4, SidesAre DEF IdInv, Fetched, Clobbered
<1>5. \/ /\ m = NoWrite
         /\ \/ OpOf(id) = NoOp
            \/ OpOf(id) # Conflict /\ (Direction # "Default" \/ config.mode # "TwoWay")
            \/ Unsettled(id, answer)
      \/ \E w \in Sides : /\ Makes(m, id, w) /\ OpOf(id) # NoOp
                          /\ Direction = "Default" => OpOf(id).to = w \/ OpOf(id) = Conflict
                          /\ Direction = "MirrorAToB" => w = "target"
  BY MergeOutcome
<1>6. Unsettled(id, answer) => config.policy = "Skip"
  BY DEF Unsettled, Conflicts
<1>7. \A s \in Sides : plan'[s][id] = m[s]
  OBVIOUS
<1>8. upd'[id] = m.upd
  OBVIOUS
<1>9. m = NoWrite => upd'[id] = 0 /\ \A s \in Sides : plan'[s][id] = Keep
  BY <1>3, <1>7, <1>8 DEF NoWrite
<1>10. OpOf(id) = DiffOp(seen.source[id], seen.target[id], Known(id))
  BY DEF OpOf
<1>11. (PlainRun => ~request.clobber /\ Direction = "Default") /\ (request.clobber => Direction = "Default")
       /\ (~request.clobber => Known(id) = rows[id]) /\ (request.clobber => Known(id) = NoRow)
  BY DEF PlainRun, Direction, Known
<1>. HIDE DEF m
<1>12. Undisturbed(id) => PlanSound(id)'
  <2>. SUFFICES ASSUME Undisturbed(id), NEW v \in Sides, plan'[v][id] # Keep
                PROVE  PlanMade(id, v)'
    BY <1>2 DEF PlanSound, PlanMade
  <2>1. PICK w \in Sides : Makes(m, id, w)
    BY <1>5, <1>9
  <2>2. v = w
    BY <1>3, <1>7, <2>1 DEF Makes
  <2>3. /\ plan'[Other(v)][id] = Keep
        /\ \/ plan'[v][id] \in {Refused, Absent} /\ data[Other(v)][id] = Absent /\ upd'[id] = 0
           \/ /\ plan'[v][id] = data[Other(v)][id] /\ data[Other(v)][id] \notin {Refused, Absent}
              /\ upd'[id] = Hash(Other(v), data[Other(v)][id])
    BY <1>3, <1>4, <1>7, <1>8, <2>1, <2>2 DEF Makes
  <2>. QED
    BY <2>3 DEF PlanMade
<1>13. BackSound(id)' /\ QuickSound(id)' /\ Fetched(id)' /\ WrittenSound(id)' /\ QuickCarried(id)'
  BY <1>1, Blank DEF BackSound, QuickSound, Fetched, WrittenSound, QuickCarried
<1>14. UpdSound(id)'
  <2>. SUFFICES ASSUME upd'[id] # 0 PROVE \E w \in Sides : plan'[w][id] # Keep
    BY DEF UpdSound
  <2>. QED
    BY <1>3, <1>5, <1>7, <1>8, <1>9 DEF Makes
<1>15. Undisturbed(id) => Clobbered(id)'
  <2>. SUFFICES ASSUME Undisturbed(id), request.clobber PROVE plan'.source[id] = Keep
    BY DEF Clobbered
  <2>1. seen.target[id] = Absent /\ Known(id) = NoRow /\ Direction = "Default"
    BY <1>4, <1>11
  <2>2. OpOf(id) = NoOp \/ OpOf(id) = Op("create", "target")
    BY <1>10, <2>1, DiffCases
  <2>3. OpOf(id).to = "target" /\ OpOf(id) # Conflict
    BY <2>2, OpsDiffer
  <2>4. ASSUME NEW w \in Sides, Makes(m, id, w), w = "target" PROVE m.source = Keep
    BY <2>4, SidesAre DEF Makes
  <2>5. m = NoWrite \/ m.source = Keep
    BY <1>5, <2>1, <2>3, <2>4
  <2>. QED
    BY <1>7, <1>9, <2>5, SidesAre
<1>16. ASSUME Undisturbed(id)
       PROVE  /\ Paired(id) => Paired(id)'
              /\ GoneKnown(id) => GoneKnown(id)'
              /\ Base(id) => Base(id)'
  BY <1>4, <1>16, Seeds DEF Fetched
(* The side a plan is for did not change, or the op is a conflict.         *)
<1>17. ASSUME NEW w \in Sides, PlainRun, Makes(m, id, w)
       PROVE  OpOf(id).to = w \/ OpOf(id) = Conflict
  <2>1. m # NoWrite
    <3>1. NoWrite.source = Keep /\ NoWrite.target = Keep
      BY DEF NoWrite
    <3>2. m[w] # Keep
      BY <1>3, <1>17 DEF Makes, Keep, Refused, Absent
    <3>. QED
      BY <1>3, <3>1, <3>2
  <2>2. PICK u \in Sides : Makes(m, id, u) /\ (OpOf(id).to = u \/ OpOf(id) = Conflict)
    BY <1>5, <1>11, <1>17, <2>1
  <2>3. m[w] # Keep /\ m[Other(u)] = Keep
    BY <1>3, <1>17, <2>2 DEF Makes, Keep, Refused, Absent
  <2>4. u = w
    BY <1>3, <2>3
  <2>. QED
    BY <2>2, <2>4
<1>18. Undisturbed(id) /\ GoneKnown(id) => DeletionCaused(id)'
  <2>. SUFFICES ASSUME Undisturbed(id), GoneKnown(id), PlainRun, NEW w \in Sides,
                       plan'[w][id] = Absent, data[w][id] # Absent
                PROVE  id \in gone[Other(w)]
    BY DEF DeletionCaused, PlainRun
  <2>1. PICK u \in Sides : Makes(m, id, u)
    BY <1>5, <1>9 DEF Keep, Absent
  <2>2. u = w
    BY <1>3, <1>7, <2>1 DEF Makes, Keep, Absent
  <2>3. seen[Other(w)][id] = Absent /\ seen[w][id] # Absent
    BY <1>4, <1>7, <2>1, <2>2 DEF Makes
  <2>4. OpOf(id).to = w \/ OpOf(id) = Conflict
    BY <1>17, <2>1, <2>2
  <2>5. rows[id] # NoRow
    <3>. SUFFICES ASSUME rows[id] = NoRow PROVE FALSE
      OBVIOUS
    <3>1. Known(id) = NoRow
      BY <1>11
    <3>2. OpOf(id) = Op("create", Other(w))
      <4>1. CASE w = "target"
        BY <1>10, <2>3, <3>1, <4>1, DiffCases, SidesAre
      <4>2. CASE w = "source"
        BY <1>10, <2>3, <3>1, <4>2, DiffCases, SidesAre
      <4>. QED
        BY <1>3, <4>1, <4>2
    <3>. QED
      BY <1>3, <2>4, <3>2, OpsDiffer
  <2>. QED
    BY <1>3, <1>4, <2>3, <2>5 DEF GoneKnown
<1>19. Undisturbed(id) /\ Base(id) => Caused(id)'
  <2>. SUFFICES ASSUME Undisturbed(id), Base(id), PlainRun, NEW w \in Sides,
                       plan'[w][id] \notin {Keep, Refused}, data[w][id] # plan'[w][id],
                       id \notin unsynced[Other(w)]
                PROVE  FALSE
    BY DEF Caused, PlainRun
  <2>1. PICK u \in Sides : Makes(m, id, u) /\ OpOf(id) # NoOp
    BY <1>5, <1>9
  <2>2. u = w
    BY <1>3, <1>7, <2>1 DEF Makes
  <2>3. OpOf(id).to = w \/ OpOf(id) = Conflict
    BY <1>17, <2>1, <2>2
  <2>4. Clean(id, Other(w)) /\ Other(w) \in Sides /\ Fetched(id)
    BY <1>3, <1>4 DEF Base, Fetched
  <2>5. OpOf(id) \in {NoOp, Op("create", Other(w)), Op("update", Other(w)), Op("delete", Other(w))}
    BY <1>11, <2>4, CleanSide
  <2>. QED
    BY <1>3, <2>1, <2>3, <2>5, OpsDiffer
<1>20. Undisturbed(id) /\ Paired(id) => Covered(id)'
  <2>. SUFFICES ASSUME Undisturbed(id), Paired(id), TwoWay, \A w \in Sides : plan'[w][id] = Keep
                PROVE  Equal(id)
    BY DEF Covered, TwoWay, PlainRun, Equal
  <2>1. ASSUME NEW w \in Sides PROVE ~Makes(m, id, w)
    BY <1>3, <1>7 DEF Makes, Keep, Refused, Absent
  <2>2. OpOf(id) = NoOp
    BY <1>5, <1>6, <1>11, <2>1 DEF TwoWay
  <2>4. \/ seen.source[id] = Absent /\ seen.target[id] = Absent
        \/ /\ Known(id) # NoRow /\ seen.source[id] # Absent
           /\ ~SChanged(seen.source[id], Known(id)) /\ ~TChanged(seen.target[id], Known(id))
        \/ seen.source[id] = seen.target[id]
    <3>1. DiffOp(seen.source[id], seen.target[id], Known(id)) = NoOp
      BY <1>10, <2>2
    <3>. HIDE DEF NoOp
    <3>. QED
      BY <3>1, NoOpIs
  <2>5. CASE Known(id) # NoRow /\ seen.source[id] # Absent
             /\ ~SChanged(seen.source[id], Known(id)) /\ ~TChanged(seen.target[id], Known(id))
    <3>1. Known(id) = rows[id]
      BY <1>11, <2>5
    <3>2. RowOk(id) /\ rows[id] # NoRow /\ data.source[id] # Absent
      BY <1>3, <1>4, <2>5, <3>1 DEF RowOk, SChanged, TChanged
    <3>. QED
      BY <3>2, PairedRow, SidesAre
  <2>. QED
    BY <1>4, <2>4, <2>5 DEF Equal
<1>21. Undisturbed(id) /\ Paired(id) => Calm(id)'
  <2>. SUFFICES ASSUME Undisturbed(id), Paired(id), upd'[id] = 0, config.policy # "Skip", Equal(id),
                       data.source[id] # Absent
                PROVE  RowOk(id)'
    BY DEF Calm, Equal
  <2>1. seen.source[id] # Absent /\ seen.target[id] # Absent /\ seen.source[id] = seen.target[id]
    BY <1>4 DEF Equal
  <2>2. CASE Known(id) = NoRow
    <3>1. rows'[id] = [s \in Sides |-> Hash(s, seen[s][id])]
      BY <2>1, <2>2 DEF Seeded
    <3>. QED
      BY <1>4, <3>1 DEF RowOk
  <2>3. CASE Known(id) # NoRow
    <3>1. Known(id) = rows[id] /\ rows[id] # NoRow /\ rows'[id] = rows[id]
      BY <1>11, <2>3 DEF Seeded
    <3>2. \A w \in Sides : ~Makes(m, id, w)
      <4>. SUFFICES ASSUME NEW w \in Sides, Makes(m, id, w) PROVE FALSE
        OBVIOUS
      <4>1. seen[Other(w)][id] \in Held /\ seen[Other(w)][id] # Absent
        BY <1>3, <2>1
      <4>2. Hash(Other(w), seen[Other(w)][id]) # 0
        BY <1>3, <4>1, HashFacts
      <4>. QED
        BY <1>8, <4>1, <4>2 DEF Makes
    <3>3. OpOf(id) # Conflict
      BY <1>5, <1>6, <3>2, OpsDiffer
    <3>4. ~SChanged(seen.source[id], Known(id)) \/ ~TChanged(seen.target[id], Known(id))
      BY <1>10, <2>1, <2>3, <3>3, DiffCases, OpsDiffer
    <3>5. \/ rows[id].source = Hash("source", data.source[id])
          \/ rows[id].target = Hash("target", data.target[id])
      BY <1>4, <3>1, <3>4 DEF SChanged, TChanged
    <3>6. rows[id].source = Hash("source", data.source[id]) <=> rows[id].target = Hash("target", data.target[id])
      BY <3>1, PairedRow, SidesAre
    <3>. QED
      BY <1>3, <3>1, <3>5, <3>6 DEF RowOk
  <2>. QED
    BY <2>2, <2>3
<1>22. Regular(id, Marks) => id \notin touched /\ Regular(id, {"raced", "recreated", "withheld"})
                             /\ Undisturbed(id)
  BY <1>1 DEF Regular, Marks, Undisturbed
<1>23. id \notin touched => TouchedSound(id)'
  BY DEF TouchedSound
<1>24. /\ Regular(id, {"raced", "recreated", "withheld", "denied"}) =>
             Undisturbed(id) /\ Regular(id, {"raced", "recreated", "withheld"})
       /\ Regular(id, {"raced", "recreated", "withheld", "wiped"}) => Undisturbed(id)
       /\ Regular(id, {"raced", "recreated", "withheld"}) => Undisturbed(id)
  BY DEF Regular, Undisturbed
<1>25. Regular(id, Marks)' => Base(id)' /\ TouchedSound(id)' /\ Calm(id)' /\ Caused(id)'
  BY <1>2, <1>16, <1>19, <1>21, <1>22, <1>23 DEF IdInv
<1>26. Regular(id, {"raced", "recreated", "withheld", "denied"})' => Covered(id)'
  BY <1>2, <1>20, <1>24 DEF IdInv
<1>27. Regular(id, {"raced", "recreated", "withheld", "wiped"})' => GoneKnown(id)' /\ DeletionCaused(id)'
  BY <1>2, <1>16, <1>18, <1>24 DEF IdInv
<1>28. Regular(id, {"raced", "recreated", "withheld"})' => Paired(id)'
  BY <1>2, <1>16, <1>24 DEF IdInv
<1>. QED
  BY <1>2, <1>12, <1>13, <1>14, <1>15, <1>25, <1>26, <1>27, <1>28 DEF IdInv
LEMMA MergeTyped ==
    ASSUME Typed, NEW id \in Ids, NEW answer \in [Conflicts -> Answers \cup {"none"}]
    PROVE  /\ \A s \in Sides : Merge(id, answer)[s] \in Held \cup {Keep, Refused}
           /\ Merge(id, answer).upd \in AnyHash
<1>. DEFINE m == Merge(id, answer)
<1>1. CASE m = NoWrite
  BY <1>1, HashFacts, SidesAre DEF NoWrite
<1>2. CASE \E w \in Sides : Makes(m, id, w)
  <2>1. PICK w \in Sides : Makes(m, id, w)
    BY <1>2
  <2>2. /\ Other(w) \in Sides /\ seen[Other(w)][id] \in Held /\ \A s \in Sides : s = w \/ s = Other(w)
    BY SidesAre DEF Typed, TypeOK, PerSide
  <2>3. Hash(Other(w), seen[Other(w)][id]) \in AnyHash /\ 0 \in AnyHash /\ Absent \in Held
    <3>1. 0 \in AnyHash /\ Absent \in Held
      BY HashFacts DEF Absent
    <3>2. \A s \in Sides, c \in Held : Hash(s, c) \in AnyHash
      <4>1. ASSUME NEW s \in Sides, NEW c \in Held PROVE Hash(s, c) \in AnyHash
        <5>1. Hash(s, c) \in HashesIn(s) /\ HashesIn(s) \subseteq AnyHash
          BY HashFacts
        <5>. QED
          BY <5>1
      <4>. QED
        BY <4>1
    <3>. QED
      BY <2>2, <3>1, <3>2
  <2>. HIDE DEF m
  <2>4. m[w] \in Held \cup {Keep, Refused} /\ m[Other(w)] \in Held \cup {Keep, Refused} /\ m.upd \in AnyHash
    BY <2>1, <2>2, <2>3 DEF Makes
  <2>. QED
    BY <2>2, <2>4 DEF m
<1>. QED
  BY <1>1, <1>2, MergeOutcome

LEMMA Diffs == ASSUME IInv, Diff PROVE IInv'
<1>1. /\ Typed /\ Phases /\ stage = "fetch" /\ got = Sides /\ ~request.quick
      /\ rows' = [id \in Ids |-> Seeded(id)]
      /\ UNCHANGED <<config, data, writable, unsynced, gone, edits, faults>>
  BY DEF IInv, Diff
<1>2. /\ marks \in [Ids -> SUBSET Marks] /\ \A x \in touched : "wiped" \in marks[x]
      /\ \A id \in Ids : rows'[id] = Seeded(id)
  BY <1>1 DEF Typed, TypeOK, Phases
<1>3. ASSUME NEW id \in Ids
      PROVE  /\ rows'[id] \in [Sides -> AnyHash]
             /\ (rows'[id].source = 0) = (rows'[id].target = 0)
             /\ Undisturbed(id) => /\ Paired(id) => Paired(id)'
                                   /\ GoneKnown(id) => GoneKnown(id)'
                                   /\ Base(id) => Base(id)'
  <2>1. Fetched(id) \/ ~Undisturbed(id)
    BY DEF IInv, IdInv
  <2>. QED
    BY <1>1, <1>2, <2>1, Seeds
<1>4. /\ (rows \in [Ids -> [Sides -> AnyHash]])'
      /\ \A id \in Ids : (rows'[id].source = 0) = (rows'[id].target = 0)
  <2>1. \A id \in Ids : Seeded(id) \in [Sides -> AnyHash]
    BY <1>2, <1>3
  <2>. QED
    BY <1>1, <1>3, <2>1
<1>5. PICK answer \in [Conflicts -> Answers \cup {"none"}] :
          IF /\ config.policy = "AskUser" /\ Direction = "Default"
             /\ \E id \in Conflicts : answer[id] = "none"
          THEN /\ stage' = "idle" /\ ForgetRun
               /\ Unsaved(touched)
          ELSE /\ stage' = "apply"
               /\ plan' = [s \in Sides |-> [id \in Ids |-> Merge(id, answer)[s]]]
               /\ upd' = [id \in Ids |-> Merge(id, answer).upd]
               /\ DropFetched
               /\ UNCHANGED <<request, side, todo, known, failed, back, touched, marks>>
  BY DEF Diff
<1>6. CASE stage' = "idle" /\ ForgetRun /\ Unsaved(touched)
  <2>1. /\ (marks \in [Ids -> SUBSET Marks])'
        /\ \A id \in Ids : marks[id] \subseteq marks'[id]
                           /\ (id \in touched => "interrupted" \in marks'[id])
    <3>1. "interrupted" \in Marks /\ Marked(touched, "interrupted")
      BY <1>6 DEF Marks, Unsaved
    <3>. QED
      BY <1>1, <3>1, MarksGrow
  <2>2. ASSUME NEW id \in Ids PROVE Kept(id)' /\ (Regular(id, Marks)' => Base(id)')
    <3>1. IdInv(id)
      BY DEF IInv
    <3>2. \A S : Regular(id, S)' => Regular(id, S)
      BY <2>1 DEF Regular
    <3>3. \A S : "raced" \in S /\ Regular(id, S) => Undisturbed(id)
      BY DEF Regular, Undisturbed
    <3>4. Regular(id, Marks)' => id \notin touched
      BY <2>1 DEF Regular, Marks
    <3>5. Regular(id, {"raced", "recreated", "withheld"})' => Paired(id)'
      BY <1>3, <3>1, <3>2, <3>3 DEF IdInv
    <3>6. Regular(id, {"raced", "recreated", "withheld", "wiped"})' => GoneKnown(id)'
      BY <1>3, <3>1, <3>2, <3>3 DEF IdInv
    <3>7. Regular(id, Marks)' => Base(id)'
      <4>1. "raced" \in Marks
        BY DEF Marks
      <4>. QED
        BY <1>3, <3>1, <3>2, <3>3, <3>4, <4>1 DEF IdInv
    <3>. QED
      BY <3>5, <3>6, <3>7 DEF Kept
  <2>. QED
    BY <1>1, <1>4, <1>6, <2>1, <2>2, Ended DEF Typed, TypeOK
<1>7. CASE /\ ~(/\ config.policy = "AskUser" /\ Direction = "Default"
                /\ \E id \in Conflicts : answer[id] = "none")
           /\ stage' = "apply"
           /\ plan' = [s \in Sides |-> [id \in Ids |-> Merge(id, answer)[s]]]
           /\ upd' = [id \in Ids |-> Merge(id, answer).upd]
           /\ got' = {} /\ wiped' = FALSE /\ seen' = Empty
           /\ UNCHANGED <<request, side, todo, known, failed, back, touched, marks>>
  <2>1. /\ (plan \in PerSide(Held \cup {Keep, Refused}))' /\ upd' \in [Ids -> AnyHash]
        /\ \A id \in Ids : upd'[id] = Merge(id, answer).upd
        /\ \A id \in Ids, s \in Sides : plan'[s][id] = Merge(id, answer)[s]
    <3>1. \A id \in Ids : /\ Merge(id, answer).upd \in AnyHash
                          /\ \A s \in Sides : Merge(id, answer)[s] \in Held \cup {Keep, Refused}
      BY <1>1, MergeTyped
    <3>. HIDE DEF Merge
    <3>. QED
      BY <1>7, <3>1 DEF PerSide
  <2>2. (seen \in PerSide(Held))'
    BY <1>7, HashFacts DEF Empty, Nothing, PerSide, Absent
  <2>3. todo = {} /\ side = "target" /\ back = Empty /\ ~failed
    BY <1>1 DEF Phases
  <2>4. Typed'
    BY <1>1, <1>4, <1>7, <2>1, <2>2, <2>3, SidesAre DEF Typed, TypeOK
  <2>5. Phases'
    <3>1. back'.source = Nothing
      BY <1>7, <2>3, SidesAre DEF Empty
    <3>. QED
      BY <1>1, <1>7, <2>3, <3>1 DEF Phases
  <2>6. \A id \in Ids : IdInv(id)'
    BY <1>1, <1>2, <1>7, <2>1, Decides DEF IInv
  <2>. QED
    BY <2>4, <2>5, <2>6 DEF IInv
<1>. QED
  BY <1>5, <1>6, <1>7 DEF DropFetched
(* The run saves its rows: where a record was written or found equal they  *)
(* are right, and what the users did there is made up for.                 *)
LEMMA InStepIs ==
    ASSUME Typed, NEW id \in Ids, (data \in PerSide(Held))', InStep(id)',
           \A s \in Sides : id \notin unsynced'[s] /\ id \notin gone'[s]
    PROVE  Kept(id)' /\ Base(id)'
<1>1. \A s \in Sides : data'[s][id] \in Held /\ data'[s][id] = data'.source[id] /\ Other(s) \in Sides
  BY SidesAre DEF InStep, Equal, PerSide
<1>2. data'.source[id] # Absent =>
         \A s \in Sides : rows'[id][s] = Hash(s, data'[s][id]) /\ rows'[id][s] # 0
  <2>. SUFFICES ASSUME data'.source[id] # Absent, NEW s \in Sides
                PROVE  rows'[id][s] = Hash(s, data'[s][id]) /\ rows'[id][s] # 0
    OBVIOUS
  <2>1. rows'[id][s] = Hash(s, data'[s][id])
    BY DEF InStep, RowOk
  <2>2. Hash(s, data'[s][id]) # 0
    BY <1>1, HashFacts
  <2>. QED
    BY <2>1, <2>2
<1>3. Paired(id)'
  <2>. SUFFICES ASSUME data'.source[id] # Absent
                PROVE  \E c \in Contents : \A s \in Sides : rows'[id][s] = Hash(s, c)
    BY <1>1 DEF Paired
  <2>1. data'.source[id] \in Contents
    BY <1>1, SidesAre DEF Held
  <2>2. \A s \in Sides : rows'[id][s] = Hash(s, data'.source[id])
    BY <1>1, <1>2
  <2>. QED
    BY <2>1, <2>2
<1>4. GoneKnown(id)'
  BY <1>1 DEF GoneKnown
<1>5. \A s \in Sides : Clean(id, s)'
  BY <1>1, <1>2, NoRowIs DEF Clean
<1>. QED
  BY <1>3, <1>4, <1>5 DEF Kept, Base, InStep

LEMMA RowsSaved ==
    ASSUME IInv, NEW id \in Ids, stage = "save", UNCHANGED data,
           rows'[id] = IF request.quick THEN HarvestedRow(id) ELSE NewRow(id)
    PROVE  /\ rows'[id] \in [Sides -> AnyHash]
           /\ (rows'[id].source = 0) = (rows'[id].target = 0)
           /\ Carried(id) /\ (request.quick \/ upd[id] # 0) => InStep(id)'
           /\ ~request.quick /\ upd[id] = 0 => rows'[id] = rows[id]
<1>1. /\ Typed /\ Phases /\ IdInv(id)
      /\ data \in [Sides -> [Ids -> Held]] /\ rows \in [Ids -> [Sides -> AnyHash]]
      /\ (rows[id].source = 0) = (rows[id].target = 0)
      /\ upd \in [Ids -> AnyHash] /\ back \in [Sides -> [Ids -> AnyHash]]
      /\ \A s \in Sides : back[s] \in [Ids -> HashesIn(s)]
  BY DEF IInv, Typed, TypeOK, PerSide
<1>2. \A s \in Sides : plan[s][id] = Keep
  BY <1>1 DEF Phases, Planned
<1>3. /\ Carried(id) => Undisturbed(id)
      /\ Undisturbed(id) => BackSound(id)
  BY <1>1 DEF Carried, Undisturbed, IdInv
<1>4. \A s \in Sides : /\ Hash(s, data[s][id]) \in AnyHash
                       /\ Hash(s, data[s][id]) = 0 <=> data[s][id] = Absent
  <2>1. \A s \in Sides : data[s][id] \in Held
    BY <1>1
  <2>2. \A s \in Sides : Hash(s, data[s][id]) \in HashesIn(s) /\ HashesIn(s) \subseteq AnyHash
    BY <2>1, HashFacts
  <2>. QED
    BY <2>1, <2>2, HashFacts
<1>5. CASE request.quick
  <2>1. rows'[id] = HarvestedRow(id)
    BY <1>5
  <2>2. CASE back.source[id] = 0
    <3>1. rows'[id] = rows[id]
      BY <2>1, <2>2 DEF HarvestedRow
    <3>2. Carried(id) => Equal(id) /\ data.source[id] = Absent
      BY <1>1, <1>2, <1>3, <1>4, <1>5, <2>2, SidesAre DEF QuickCarried, BackSound, IdInv
    <3>. QED
      BY <1>1, <1>5, <3>1, <3>2 DEF InStep, Equal
  <2>3. CASE back.source[id] # 0
    <3>1. /\ rows'[id] \in [Sides -> AnyHash]
          /\ rows'[id].source = back.source[id]
          /\ rows'[id].target = IF data.target[id] # Absent THEN Hash("target", data.target[id])
                                ELSE back.source[id]
      <4>1. rows'[id] = [source |-> back.source[id],
                         target |-> IF data.target[id] # Absent THEN Hash("target", data.target[id])
                                    ELSE back.source[id]]
        BY <2>1, <2>3 DEF HarvestedRow
      <4>2. back.source[id] \in AnyHash /\ Hash("target", data.target[id]) \in AnyHash
        BY <1>1, <1>4, SidesAre
      <4>. QED
        BY <4>1, <4>2, SidesAre
    <3>2. rows'[id].source # 0 /\ rows'[id].target # 0
      BY <1>4, <2>3, <3>1, SidesAre
    <3>3. Carried(id) => InStep(id)'
      <4>. SUFFICES ASSUME Carried(id) PROVE InStep(id)'
        OBVIOUS
      <4>1. Equal(id) /\ back.source[id] = Hash("source", data.source[id])
        BY <1>1, <1>2, <1>3, <1>5, SidesAre DEF QuickCarried, BackSound, IdInv
      <4>2. data.target[id] # Absent
        BY <1>4, <2>3, <4>1, SidesAre DEF Equal
      <4>. QED
        BY <3>1, <4>1, <4>2, SidesAre DEF InStep, Equal, RowOk
    <3>. QED
      BY <1>5, <3>1, <3>2, <3>3
  <2>. QED
    BY <2>2, <2>3
<1>6. CASE ~request.quick
  <2>1. rows'[id] = NewRow(id)
    BY <1>6
  <2>2. CASE upd[id] = 0
    BY <1>1, <1>6, <2>1, <2>2 DEF NewRow
  <2>3. CASE upd[id] # 0
    <3>1. /\ rows'[id] \in [Sides -> AnyHash]
          /\ \A s \in Sides : rows'[id][s] = IF back[s][id] # 0 THEN back[s][id] ELSE upd[id]
      <4>1. rows'[id] = [s \in Sides |-> IF back[s][id] # 0 THEN back[s][id] ELSE upd[id]]
        BY <2>1, <2>3 DEF NewRow
      <4>2. \A s \in Sides : back[s][id] \in AnyHash /\ upd[id] \in AnyHash
        BY <1>1
      <4>. QED
        BY <4>1, <4>2
    <3>2. rows'[id].source # 0 /\ rows'[id].target # 0
      BY <2>3, <3>1, SidesAre
    <3>3. Carried(id) => InStep(id)'
      <4>. SUFFICES ASSUME Carried(id) PROVE InStep(id)'
        OBVIOUS
      <4>1. PICK w \in Sides : Pushed(id, w)
        BY <1>1, <1>2, <2>3 DEF IdInv, UpdSound
      <4>2. /\ Other(w) \in Sides /\ \A s \in Sides : s = w \/ s = Other(w)
            /\ data[w][id] # Absent /\ Equal(id)
        BY <4>1, SidesAre DEF Pushed, Equal
      <4>3. back[w][id] # 0 /\ rows'[id][w] = Hash(w, data[w][id])
        BY <1>4, <3>1, <4>1, <4>2 DEF Pushed
      <4>4. rows'[id][Other(w)] = Hash(Other(w), data[Other(w)][id])
        BY <1>3, <3>1, <4>1, <4>2 DEF Pushed, BackSound
      <4>. QED
        BY <4>2, <4>3, <4>4 DEF InStep, Equal, RowOk
    <3>. QED
      BY <2>3, <3>1, <3>2, <3>3
  <2>. QED
    BY <2>2, <2>3
<1>. QED
  BY <1>5, <1>6

LEMMA Saves == ASSUME IInv, Save PROVE IInv'
<1>1. /\ Typed /\ Phases /\ stage = "save" /\ stage' = "idle" /\ ForgetRun
      /\ rows' = [id \in Ids |-> IF request.quick THEN HarvestedRow(id) ELSE NewRow(id)]
      /\ UNCHANGED <<config, data, writable, edits, faults>>
      /\ Settle
  BY DEF IInv, Save
<1>2. \A id \in Ids : rows'[id] = IF request.quick THEN HarvestedRow(id) ELSE NewRow(id)
  BY <1>1
<1>3. ASSUME NEW id \in Ids
      PROVE  /\ rows'[id] \in [Sides -> AnyHash]
             /\ (rows'[id].source = 0) = (rows'[id].target = 0)
             /\ Carried(id) /\ (request.quick \/ upd[id] # 0) => InStep(id)'
             /\ ~request.quick /\ upd[id] = 0 => rows'[id] = rows[id]
  BY <1>1, <1>2, RowsSaved
<1>4. (rows \in [Ids -> [Sides -> AnyHash]])'
  <2>. DEFINE row(id) == IF request.quick THEN HarvestedRow(id) ELSE NewRow(id)
  <2>1. \A id \in Ids : row(id) \in [Sides -> AnyHash]
    BY <1>2, <1>3
  <2>2. rows' = [id \in Ids |-> row(id)]
    BY <1>1
  <2>. HIDE DEF row
  <2>. QED
    BY <2>1, <2>2
<1>5. /\ marks \in [Ids -> SUBSET Marks] /\ unsynced \in [Sides -> SUBSET Ids]
      /\ gone \in [Sides -> SUBSET Ids] /\ (data \in PerSide(Held))'
  BY <1>1 DEF Typed, TypeOK
<1>. DEFINE settled(id) == InStep(id)' \/ (Equal(id)' /\ marks[id] = {} /\ config.policy # "Skip")
<1>6. /\ \A id \in Ids : marks'[id] = IF InStep(id)' THEN {} ELSE marks[id]
      /\ \A id \in Ids, s \in Sides : /\ id \in unsynced'[s] <=> id \in unsynced[s] /\ ~settled(id)
                                      /\ id \in gone'[s] <=> id \in gone[s] /\ ~settled(id)
  <2>. HIDE DEF InStep, Equal
  <2>. QED
    BY <1>1, <1>5 DEF Settle
<1>7. (marks \in [Ids -> SUBSET Marks])' /\ (unsynced \in [Sides -> SUBSET Ids])'
      /\ (gone \in [Sides -> SUBSET Ids])'
  BY <1>1, <1>5 DEF Settle
<1>8. ASSUME NEW id \in Ids PROVE Kept(id)' /\ (Regular(id, Marks)' => Base(id)')
  <2>1. CASE InStep(id)'
    BY <1>1, <1>5, <1>6, <2>1, InStepIs
  <2>2. CASE ~InStep(id)'
    <3>1. /\ IdInv(id) /\ marks'[id] = marks[id]
          /\ \A S : Regular(id, S)' <=> Regular(id, S)
      BY <1>6, <2>2 DEF IInv, Regular
    <3>2. /\ Regular(id, {"raced", "recreated", "withheld"}) => Carried(id)
          /\ Regular(id, {"raced", "recreated", "withheld", "wiped"}) => Carried(id)
          /\ Regular(id, Marks) => Carried(id) /\ marks[id] = {}
      BY <1>5 DEF Regular, Carried, Marks
    <3>3. CASE ~Carried(id)
      BY <3>1, <3>2, <3>3 DEF Kept
    <3>4. CASE Carried(id)
      <4>1. ~request.quick /\ upd[id] = 0 /\ rows'[id] = rows[id]
        BY <1>3, <2>2, <3>4
      <4>2. Equal(id)' <=> Equal(id)
        BY <1>1 DEF Equal
      <4>3. Equal(id) => data.source[id] # Absent
        BY <1>1, <2>2 DEF InStep, Equal
      <4>4. ~settled(id)
        <5>. SUFFICES ASSUME Equal(id), marks[id] = {}, config.policy # "Skip" PROVE FALSE
          BY <2>2, <4>2
        <5>1. Regular(id, Marks)
          BY DEF Regular
        <5>2. Calm(id)
          BY <3>1, <5>1 DEF IdInv
        <5>3. RowOk(id)
          BY <1>1, <4>1, <4>3, <5>2 DEF Calm
        <5>. QED
          BY <1>1, <2>2, <4>1, <4>2, <5>3 DEF InStep, RowOk
      <4>5. \A s \in Sides : /\ id \in unsynced'[s] <=> id \in unsynced[s]
                             /\ id \in gone'[s] <=> id \in gone[s]
        BY <1>6, <4>4
      <4>6. (Paired(id) => Paired(id)') /\ (GoneKnown(id) => GoneKnown(id)')
        BY <1>1, <4>1, <4>5, SidesAre DEF Paired, GoneKnown
      <4>7. Regular(id, Marks) => id \notin touched
        BY <3>1, <4>1, <4>3 DEF IdInv, TouchedSound
      <4>8. Base(id) => Base(id)'
        <5>1. ASSUME NEW s \in Sides PROVE Clean(id, s) => Clean(id, s)'
          BY <1>1, <4>1, <4>5, SidesAre DEF Clean
        <5>. QED
          BY <4>2, <4>5, <5>1 DEF Base
      <4>. QED
        BY <3>1, <4>6, <4>7, <4>8 DEF Kept, IdInv
    <3>. QED
      BY <3>3, <3>4
  <2>. QED
    BY <2>1, <2>2
<1>. QED
  BY <1>1, <1>3, <1>4, <1>7, <1>8, Ended DEF IInv, Typed, TypeOK
(***************************************************************************)
(* The invariant.                                                          *)
(***************************************************************************)
LEMMA EngineKeeps == ASSUME IInv, EngineNext PROVE IInv'
<1>1. CASE \E o \in config.overrides : StartRun(o) \/ StartFirstSync(o)
  BY <1>1, StartsRun
<1>2. CASE \E s \in Sides : Fetch(s)
  BY <1>2, Fetches
<1>3. CASE Wipe \/ WipeFails
  BY <1>3, Wipes, WipesPartly
<1>4. CASE Diff \/ MirrorAll
  BY <1>4, Diffs, Mirrors
<1>5. CASE \E id \in Ids : WriteRecord(id) \/ RefuseRecord(id)
  BY <1>5, WritesRecord, RefusesRecord
<1>6. CASE BeginBatch \/ EndBatch \/ BatchFailed \/ SkipSide
  BY <1>6, BeginsBatch, EndsBatch, FailsBatch, SkipsSide
<1>7. CASE Save \/ SaveFails \/ Abort
  BY <1>7, Saves, FailsToSave, Aborts
<1>. QED
  BY <1>1, <1>2, <1>3, <1>4, <1>5, <1>6, <1>7 DEF EngineNext

LEMMA Keeps == IInv /\ [Next]_vars => IInv'
<1>. SUFFICES ASSUME IInv, [Next]_vars PROVE IInv'
  OBVIOUS
<1>1. CASE EngineNext
  BY <1>1, EngineKeeps
<1>2. CASE \E s \in Sides, id \in config.ids, c \in Contents \cup {Absent} : Edit(s, id, c)
  BY <1>2, Edits DEF Held
<1>3. CASE \E s \in Sides : SetWritable(s)
  BY <1>3, WriteAccessChanges
<1>4. CASE UNCHANGED vars
  <2>1. Typed' /\ Phases'
    BY <1>4 DEF IInv, Typed, TypeOK, Phases, Planned
  <2>2. ASSUME NEW id \in Ids PROVE IdInv(id)'
    BY <1>4, Still DEF IInv, Typed, TypeOK
  <2>. QED
    BY <2>1, <2>2 DEF IInv
<1>. QED
  BY <1>1, <1>2, <1>3, <1>4 DEF Next

(* Every reachable state satisfies the inductive invariant: among it the   *)
(* types, plans that are sound for what was fetched, and rows that are     *)
(* right for every id nothing untoward has happened to.                    *)
THEOREM Invariance == Spec => []IInv
<1>1. Init => IInv
  BY Starts
<1>. QED
  BY <1>1, Keeps, PTL DEF Spec

(* Between runs a side no user has changed is as its row says, and an id   *)
(* nobody has changed is equal on both sides and has its row.              *)
THEOREM RowsTrue == Spec => []RowsTellTheTruth
<1>1. IInv => RowsTellTheTruth
  <2>. SUFFICES ASSUME IInv, stage = "idle", NEW id \in Ids, Regular(id, Marks)
                PROVE  /\ \A s \in Sides : id \notin unsynced[s] /\ rows[id] # NoRow /\ data[s][id] # Absent
                                              => rows[id][s] = Hash(s, data[s][id])
                       /\ (\A s \in Sides : id \notin unsynced[s]) => InStep(id)
    BY DEF RowsTellTheTruth
  <2>1. Base(id)
    BY DEF IInv, Phases, IdInv
  <2>2. ASSUME NEW s \in Sides, id \notin unsynced[s], data[s][id] # Absent
        PROVE  rows[id][s] = Hash(s, data[s][id])
    BY <2>1, <2>2 DEF Base, Clean
  <2>3. ASSUME \A s \in Sides : id \notin unsynced[s] PROVE InStep(id)
    <3>1. Equal(id)
      BY <2>1, <2>3 DEF Base
    <3>2. data.source[id] # Absent => RowOk(id)
      BY <2>2, <2>3, <3>1, SidesAre DEF RowOk, Equal
    <3>. QED
      BY <3>1, <3>2 DEF InStep
  <2>. QED
    BY <2>2, <2>3
<1>. QED
  BY <1>1, Invariance, PTL

(* A conflict is one only where both users changed the record: what the    *)
(* engine wrote, at whatever run, never looks like a user's change.        *)
THEOREM RealConflicts == Spec => []ConflictsAreReal
<1>1. IInv => ConflictsAreReal
  <2>. SUFFICES ASSUME IInv, stage = "fetch", got = Sides, ~request.clobber,
                       NEW id \in Conflicts, Regular(id, Marks), NEW s \in Sides, id \notin unsynced[s]
                PROVE  FALSE
    BY DEF ConflictsAreReal
  <2>1. id \in Ids /\ OpOf(id) = Conflict
    BY DEF Conflicts
  <2>2. "raced" \notin marks[id] /\ "wiped" \notin marks[id]
    BY DEF Regular, Marks
  <2>3. Fetched(id) /\ Base(id)
    BY <2>1, <2>2 DEF IInv, Phases, IdInv, Undisturbed
  <2>4. OpOf(id) \in {NoOp, Op("create", s), Op("update", s), Op("delete", s)}
    BY <2>1, <2>3, CleanSide DEF Base
  <2>. QED
    BY <2>1, <2>4, OpsDiffer
<1>. QED
  BY <1>1, Invariance, PTL

(***************************************************************************)
(* What a step may do.                                                     *)
(***************************************************************************)
LEMMA WritesPlanned ==
    ASSUME IInv, [Next]_vars, NEW s \in Sides, NEW id \in Ids, Writes(s, id)
    PROVE  /\ data'[s][id] = plan[s][id]
           /\ plan[s][id] \notin {Keep, Refused}
<1>1. /\ stage = "write" /\ edits' = edits /\ data'[s][id] # data[s][id] /\ edits \in Nat
      /\ data \in [Sides -> [Ids -> Held]] /\ side \in Sides
      /\ \A x \in todo : plan[side][x] # Keep
  BY BoundsAssumption DEF Writes, IInv, Typed, TypeOK, PerSide
<1>2. CASE EngineNext
  <2>1. \E x \in Ids : WriteRecord(x)
    <3>1. ~Wipe /\ ~WipeFails
      BY <1>1 DEF Wipe, WipeFails, CanWipe
    <3>2. \A o : ~StartRun(o) /\ ~StartFirstSync(o)
      BY <1>1 DEF StartRun, StartFirstSync
    <3>3. (\A u \in Sides : ~Fetch(u)) /\ ~Diff /\ ~MirrorAll /\ ~BeginBatch /\ ~SkipSide
      BY <1>1 DEF Fetch, Diff, MirrorAll, BeginBatch, SkipSide
    <3>4. ~EndBatch /\ ~BatchFailed /\ ~Save /\ ~SaveFails /\ ~Abort
      BY <1>1 DEF EndBatch, BatchFailed, Save, SaveFails, Abort
    <3>5. \A x \in Ids : ~RefuseRecord(x)
      BY <1>1 DEF RefuseRecord
    <3>. QED
      BY <1>2, <3>1, <3>2, <3>3, <3>4, <3>5 DEF EngineNext
  <2>2. PICK x \in Ids : WriteRecord(x)
    BY <2>1
  <2>3. /\ x \in todo /\ plan[side][x] # Refused
        /\ data' = [data EXCEPT ![side][x] = plan[side][x]]
    BY <2>2 DEF WriteRecord, Possible
  <2>4. s = side /\ id = x
    BY <1>1, <2>3
  <2>. QED
    BY <1>1, <2>3, <2>4
<1>3. CASE \E u \in Sides, x \in config.ids, c \in Contents \cup {Absent} : Edit(u, x, c)
  BY <1>1, <1>3 DEF Edit
<1>4. CASE \E u \in Sides : SetWritable(u)
  BY <1>1, <1>4 DEF SetWritable
<1>5. CASE UNCHANGED vars
  BY <1>1, <1>5
<1>. QED
  BY <1>2, <1>3, <1>4, <1>5 DEF Next

(* A plain run writes a record of a regular history only to carry over     *)
(* what a user did on the other side.                                      *)
THEOREM WritesHaveACause == Spec => EveryWriteHasACause
<1>1. IInv /\ [Next]_vars =>
         [\A s \in Sides, id \in Ids :
             Writes(s, id) /\ PlainRun /\ Regular(id, Marks) => id \in unsynced[Other(s)]]_vars
  <2>. SUFFICES ASSUME IInv, [Next]_vars, NEW s \in Sides, NEW id \in Ids,
                       Writes(s, id), PlainRun, Regular(id, Marks)
                PROVE  id \in unsynced[Other(s)]
    OBVIOUS
  <2>1. Caused(id)
    BY DEF IInv, IdInv
  <2>. QED
    BY <2>1, WritesPlanned DEF Caused, Writes
<1>. QED
  BY <1>1, Invariance, PTL DEF Spec, EveryWriteHasACause

(* A plain run deletes only what a user of the other side deleted.         *)
THEOREM DeletionsAreUsers == Spec => OnlyUsersDelete
<1>1. IInv /\ [Next]_vars =>
         [\A s \in Sides, id \in Ids :
             Deletes(s, id) /\ Regular(id, {"raced", "recreated", "withheld", "wiped"})
                => DeletedByUser(s, id)]_vars
  <2>. SUFFICES ASSUME IInv, [Next]_vars, NEW s \in Sides, NEW id \in Ids, Deletes(s, id),
                       Regular(id, {"raced", "recreated", "withheld", "wiped"})
                PROVE  DeletedByUser(s, id)
    OBVIOUS
  <2>1. DeletionCaused(id)
    BY DEF IInv, IdInv
  <2>2. Writes(s, id) /\ data'[s][id] = Absent /\ PlainRun
    BY DEF Deletes
  <2>3. plan[s][id] = Absent /\ data[s][id] # Absent
    BY <2>2, WritesPlanned DEF Writes
  <2>. QED
    BY <2>1, <2>2, <2>3 DEF DeletionCaused, DeletedByUser
<1>. QED
  BY <1>1, Invariance, PTL DEF Spec, OnlyUsersDelete

(* A two-way run that succeeds leaves both sides equal, but for the ids    *)
(* edited meanwhile and the writes withheld or denied.                     *)
THEOREM SuccessIsEquality == Spec => SuccessMeansEqual
<1>1. IInv /\ [Next]_vars =>
         [/\ Save \/ SaveFails
          /\ config.mode = "TwoWay" /\ config.policy # "Skip" /\ (PlainRun \/ request.clobber)
          => \A id \in Ids : data'.source[id] = data'.target[id]
                               \/ (~Regular(id, {"raced", "recreated", "withheld", "denied"}))']_vars
  <2>. SUFFICES ASSUME IInv, Save \/ SaveFails, TwoWay, NEW id \in Ids,
                       Regular(id, {"raced", "recreated", "withheld", "denied"})'
                PROVE  data'.source[id] = data'.target[id]
    BY DEF TwoWay
  <2>1. stage = "save" /\ UNCHANGED data
    BY DEF Save, SaveFails
  <2>2. \A s \in Sides : plan[s][id] = Keep
    BY <2>1 DEF IInv, Phases, Planned
  <2>3. Regular(id, {"raced", "recreated", "withheld", "denied"}) => Equal(id)
    BY <2>1, <2>2 DEF IInv, IdInv, Covered
  <2>4. InStep(id)' \/ marks[id] \subseteq marks'[id]
    <3>1. CASE Save
      <4>. HIDE DEF InStep
      <4>. QED
        BY <3>1 DEF Save, Settle
    <3>2. CASE SaveFails
      <4>1. "interrupted" \in Marks /\ Typed
        BY DEF Marks, IInv
      <4>. QED
        BY <3>2, <4>1, MarksGrow DEF SaveFails, Unsaved
    <3>. QED
      BY <3>1, <3>2
  <2>5. CASE InStep(id)'
    BY <2>5 DEF InStep, Equal
  <2>6. CASE marks[id] \subseteq marks'[id]
    BY <2>1, <2>3, <2>6 DEF Regular, Equal
  <2>. QED
    BY <2>4, <2>5, <2>6
<1>. QED
  BY <1>1, Invariance, PTL DEF Spec, SuccessMeansEqual

(* A clobber writes to the source no record but one a user changed while   *)
(* the run was going on.                                                   *)
THEOREM SourceKept == Spec => ClobberKeepsSource
<1>1. IInv /\ [Next]_vars =>
         [\A id \in Ids : request.clobber /\ Writes("source", id) => "raced" \in marks[id]]_vars
  <2>. SUFFICES ASSUME IInv, [Next]_vars, NEW id \in Ids, request.clobber, Writes("source", id),
                       "raced" \notin marks[id]
                PROVE  FALSE
    OBVIOUS
  <2>1. plan.source[id] = Keep
    BY DEF IInv, IdInv, Undisturbed, Clobbered
  <2>. QED
    BY <2>1, WritesPlanned, SidesAre
<1>. QED
  BY <1>1, Invariance, PTL DEF Spec, ClobberKeepsSource
===============================================================================
