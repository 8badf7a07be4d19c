------------------------ MODULE ConflictAnswersProofs ------------------------
(***************************************************************************)
(* Proofs about ConflictAnswers: its inductive invariant IInv and what     *)
(* follows from it.                                                        *)
(***************************************************************************)
EXTENDS ConflictAnswersInv, FiniteSetTheorems, TLAPS

USE DEF vars, engine, worker, store

RowRecs == [rec : Ids, seen : Pairs, answer : AnyAnswer, chosen : Pairs, at : Nat]

LEMMA Constants ==
    /\ 0 \in Versions /\ 1 \in Versions /\ Absent \in Versions
    /\ \A e \in 0..MaxEdits : e < MaxEdits => e + 1 \in 0..MaxEdits /\ e + 2 \in Versions
    /\ <<0, 0>> \in Pairs
    /\ 0 \in 0..MaxRows
    /\ Unanswered \notin Answers /\ Answers \subseteq AnyAnswer /\ Unanswered \in AnyAnswer
    /\ NoAnswer \in Resolutions
    /\ Nothing \in [Sides -> [Ids -> Versions]]
    /\ NoAnswers \in [Ids -> Resolutions]
BY BoundsAssumption, AnswersAssumption
   DEF Versions, Absent, Pairs, Unanswered, AnyAnswer, NoAnswer, Resolutions, Nothing, NoAnswers

LEMMA InitInv == Init => IInv
<1>. SUFFICES ASSUME Init PROVE IInv
  OBVIOUS
<1>. USE DEF Init
<1>1. TypeOK
  BY Constants, BoundsAssumption DEF TypeOK, Resolutions
<1>2. QueueTyped
  BY Constants, BoundsAssumption DEF QueueTyped
<1>3. AnswersOrdered
  BY DEF AnswersOrdered
<1>4. IdentityOfRow
  BY DEF IdentityOfRow
<1>5. PendingIsLatest /\ AllAtHand /\ WriteReady
  BY DEF PendingIsLatest, NoAnswers, AllAtHand, WriteReady
<1>. QED
  BY <1>1, <1>2, <1>3, <1>4, <1>5 DEF IInv

(* Of the answers to a record there is one last, and it is the one         *)
(* rehydratePendingResolutions() takes.                                    *)
LEMMA LastExists ==
    ASSUME TypeOK, AnswersOrdered, NEW id \in Ids, AnsweredRows(id) # {}
    PROVE  /\ Latest(id, LastAnswered(id))
           /\ \A r : Latest(id, r) => r = LastAnswered(id)
<1>1. AnsweredRows(id) \in SUBSET DOMAIN rows
  BY DEF AnsweredRows
<1>2. PICK r \in AnsweredRows(id) : \A q \in AnsweredRows(id) : rows[q].at <= rows[r].at
  BY <1>1 DEF AnswersOrdered
<1>3. Latest(id, LastAnswered(id))
  BY <1>2 DEF LastAnswered, Latest
<1>4. ASSUME NEW q, Latest(id, q) PROVE q = LastAnswered(id)
  <2>1. q \in AnsweredRows(id) /\ LastAnswered(id) \in AnsweredRows(id)
    BY <1>3, <1>4 DEF Latest
  <2>2. /\ rows[q].at \in Nat /\ rows[LastAnswered(id)].at \in Nat
        /\ rows[q].answer # Unanswered /\ rows[LastAnswered(id)].answer # Unanswered
    BY <2>1, <1>1 DEF TypeOK, AnsweredRows
  <2>3. rows[q].at = rows[LastAnswered(id)].at
    BY <2>1, <2>2, <1>3, <1>4 DEF Latest
  <2>. QED
    BY <2>1, <2>2, <2>3, <1>1 DEF AnswersOrdered
<1>. QED
  BY <1>3, <1>4

LEMMA DurableOf == IInv => AnswersDurable
<1>. SUFFICES ASSUME IInv, NEW id \in Ids, pending[id] # NoAnswer
              PROVE  AnsweredRows(id) # {} /\ pending[id] = AnswerOfRow(LastAnswered(id))
  BY DEF AnswersDurable
<1>1. Latest(id, pending[id].row) /\ pending[id] = AnswerOfRow(pending[id].row)
  BY DEF IInv, PendingIsLatest
<1>2. AnsweredRows(id) # {}
  BY <1>1 DEF Latest
<1>. QED
  BY <1>1, <1>2, LastExists DEF IInv

(* rehydratePendingResolutions() brings the last answer of every record.   *)
LEMMA StartRunStep == ASSUME IInv, StartRun PROVE IInv'
<1>. USE DEF StartRun
<1>1. ASSUME NEW id \in Ids, AnsweredRows(id) # {}
      PROVE  /\ Latest(id, LastAnswered(id))
             /\ AnswerOfRow(LastAnswered(id)) \in Resolutions
             /\ LastAnswered(id) # 0
  <2>1. Latest(id, LastAnswered(id))
    BY <1>1, LastExists DEF IInv
  <2>2. LastAnswered(id) \in DOMAIN rows
    BY <2>1 DEF Latest, AnsweredRows
  <2>3. LastAnswered(id) \in 1..MaxRows
    BY <2>2, BoundsAssumption DEF IInv, TypeOK
  <2>. QED
    BY <2>1, <2>2, <2>3, BoundsAssumption DEF IInv, TypeOK, AnswerOfRow, Resolutions
<1>2. Rehydrated \in [Ids -> Resolutions]
  BY <1>1 DEF Rehydrated, IInv, TypeOK, Resolutions
<1>3. TypeOK'
  BY <1>2, BoundsAssumption DEF IInv, TypeOK, Resolutions
<1>4. QueueTyped'
  BY DEF IInv, QueueTyped
<1>5. AnswersOrdered' /\ IdentityOfRow'
  BY DEF IInv, AnswersOrdered, IdentityOfRow
<1>6. PendingIsLatest'
  <2>. SUFFICES ASSUME NEW id \in Ids, Rehydrated[id] # NoAnswer
                PROVE  /\ Latest(id, Rehydrated[id].row)
                       /\ Rehydrated[id] = AnswerOfRow(Rehydrated[id].row)
    BY DEF PendingIsLatest, Latest, AnsweredRows, AnswerOfRow
  <2>1. CASE AnsweredRows(id) = {}
    BY <2>1 DEF IInv, PendingIsLatest, Rehydrated
  <2>2. CASE AnsweredRows(id) # {}
    BY <2>2, <1>1 DEF Rehydrated, AnswerOfRow
  <2>. QED
    BY <2>1, <2>2
<1>7. AllAtHand'
  <2>. SUFFICES ASSUME NEW id \in Ids, AnsweredRows(id) # {}
                PROVE  Rehydrated[id] # NoAnswer
    BY DEF AllAtHand, AnsweredRows
  <2>. QED
    BY <1>1 DEF Rehydrated, AnswerOfRow, NoAnswer
<1>8. WriteReady'
  BY DEF WriteReady
<1>. QED
  BY <1>3, <1>4, <1>5, <1>6, <1>7, <1>8 DEF IInv

(* The walk: what it defers is reported, what it may write is answered for *)
(* what it fetched.                                                        *)
LEMMA DispatchStep == ASSUME IInv, Dispatch PROVE IInv'
<1>. DEFINE conflicts == {id \in Ids : InConflict(version, id)}
            answered == {id \in conflicts : pending[id] # NoAnswer}
            current == {id \in answered : pending[id].seen = Both(version, id)}
            deferred == conflicts \ current
<1>1. /\ stage = "started" /\ fetched' = version /\ injected' = pending
      /\ nextRow + Cardinality(deferred) <= MaxRows + 1
      /\ stale' = {pending[id].row : id \in answered \ current}
      /\ \E order \in Orders(deferred) : mail' = [i \in DOMAIN order |-> Info(order[i])]
      /\ stage' = IF deferred = {} THEN "write" ELSE "done"
      /\ UNCHANGED <<version, base, store, engine, screen, applied, edits, faults>>
  BY DEF Dispatch, StillSeen, InConflict, Changed, Both
<1>2. Cardinality(deferred) \in Nat
  <2>1. IsFiniteSet(deferred)
    BY IdsAssumption, FS_Subset
  <2>. QED
    BY <2>1, FS_CardinalityType
<1>3. mail' \in Seq(AnyInfo) /\ Len(mail') = Cardinality(deferred)
  <2>1. PICK order \in Orders(deferred) : mail' = [i \in DOMAIN order |-> Info(order[i])]
    BY <1>1
  <2>2. order \in [1..Cardinality(deferred) -> deferred]
    BY DEF Orders
  <2>3. \A id \in Ids : Info(id) \in AnyInfo
    BY <1>1 DEF Info, AnyInfo, Both, IInv, TypeOK, Sides, Pairs
  <2>4. mail' \in [1..Cardinality(deferred) -> AnyInfo]
    BY <2>1, <2>2, <2>3
  <2>5. \A n \in Nat : \A S, q : q \in [1..n -> S] => q \in Seq(S) /\ Len(q) = n
    OBVIOUS
  <2>. QED
    BY <2>4, <2>5, <1>2
<1>4. ASSUME NEW id \in answered PROVE pending[id].row \in DOMAIN rows /\ pending[id].row # 0
  BY BoundsAssumption DEF IInv, PendingIsLatest, Latest, AnsweredRows, TypeOK
<1>5. stale' \subseteq 1..MaxRows
  BY <1>1, <1>4, BoundsAssumption DEF IInv, TypeOK
<1>6. TypeOK'
  <2>. HIDE DEF deferred, answered, current
  <2>1. \A i \in DOMAIN mail' : mail'[i] \in AnyInfo
    BY <1>3
  <2>. QED
    BY <2>1, <1>1, <1>5 DEF IInv, TypeOK
<1>7. QueueTyped'
  <2>1. deferred = {} => Cardinality(deferred) = 0
    BY FS_EmptySet
  <2>2. stage' # "done" => mail' = <<>>
    BY <2>1, <1>1, <1>3
  <2>. QED
    BY <2>2, <1>1, <1>2, <1>3 DEF IInv, QueueTyped, TypeOK, Resolutions
<1>8. AnswersOrdered' /\ IdentityOfRow'
  BY <1>1 DEF IInv, AnswersOrdered, IdentityOfRow
<1>9. PendingIsLatest'
  BY <1>1 DEF IInv, PendingIsLatest, Latest, AnsweredRows, AnswerOfRow
<1>10. AllAtHand'
  BY <1>1 DEF AllAtHand
<1>11. WriteReady'
  <2>. SUFFICES ASSUME deferred = {}, NEW id \in Ids
                PROVE  /\ InConflict(version, id) =>
                             /\ pending[id].row # 0 /\ pending[id].answer \in Answers
                             /\ pending[id].seen = Both(version, id)
                       /\ \A s \in Sides : version[s][id] = Absent => version[s][id] = Absent
    BY <1>1 DEF WriteReady, InConflict, Changed, Both
  <2>1. ASSUME InConflict(version, id) PROVE id \in current
    BY <2>1
  <2>2. ASSUME id \in current PROVE pending[id].answer \in Answers
    BY <2>2 DEF IInv, PendingIsLatest, Latest, AnsweredRows, AnswerOfRow, TypeOK, AnyAnswer
  <2>. QED
    BY <2>1, <2>2, <1>4
<1>. QED
  BY <1>6, <1>7, <1>8, <1>9, <1>10, <1>11 DEF IInv

(* Whatever was written, a record stays deleted and each side a version.   *)
LEMMA WrittenTyped ==
    ASSUME IInv, NEW ids
    PROVE  /\ After(ids) \in [Sides -> [Ids -> Versions]]
           /\ BaseAfter \in [Sides -> [Ids -> Versions]]
<1>1. \A id : Winner(id) \in Sides /\ Other(Winner(id)) \in Sides
  BY DEF Winner, Sides, Other
<1>. QED
  BY <1>1 DEF After, BaseAfter, IInv, TypeOK, QueueTyped

LEMMA WriteStep == ASSUME IInv, WriteSucceeds \/ WriteFails PROVE IInv'
<1>1. /\ stage = "write" /\ stage' = "done"
      /\ version' \in [Sides -> [Ids -> Versions]] /\ base' \in [Sides -> [Ids -> Versions]]
      /\ faults' \in 0..MaxFaults
      /\ fetched' = Nothing /\ injected' = NoAnswers
      /\ UNCHANGED <<rows, nextRow, engine, mail, stale, screen, edits>>
  <2>1. CASE WriteSucceeds
    BY <2>1, WrittenTyped DEF WriteSucceeds, IInv, QueueTyped
  <2>2. CASE WriteFails
    <3>1. faults' \in 0..MaxFaults
      BY <2>2, BoundsAssumption DEF WriteFails, IInv, QueueTyped
    <3>2. base' \in [Sides -> [Ids -> Versions]]
      BY <2>2 DEF WriteFails, IInv, TypeOK
    <3>3. version' \in [Sides -> [Ids -> Versions]]
      BY <2>2, WrittenTyped DEF WriteFails
    <3>. QED
      BY <2>2, <3>1, <3>2, <3>3 DEF WriteFails
  <2>. QED
    BY <2>1, <2>2
<1>2. applied' \subseteq 1..MaxRows
  <2>1. AnswersWritten \subseteq 1..MaxRows
    BY <1>1, BoundsAssumption
       DEF AnswersWritten, IInv, WriteReady, QueueTyped, Resolutions
  <2>. QED
    BY <2>1 DEF WriteSucceeds, WriteFails
<1>3. TypeOK'
  BY <1>1, <1>2 DEF IInv, TypeOK
<1>4. QueueTyped'
  BY <1>1, Constants DEF IInv, QueueTyped
<1>5. AnswersOrdered' /\ IdentityOfRow'
  BY <1>1 DEF IInv, AnswersOrdered, IdentityOfRow
<1>6. PendingIsLatest'
  BY <1>1 DEF IInv, PendingIsLatest, Latest, AnsweredRows, AnswerOfRow
<1>7. AllAtHand' /\ WriteReady'
  BY <1>1 DEF AllAtHand, WriteReady
<1>. QED
  BY <1>3, <1>4, <1>5, <1>6, <1>7 DEF IInv

(* A reported conflict gets a row nobody has answered: an old one of its   *)
(* record, or a new one.                                                   *)
LEMMA DetectedStep == ASSUME IInv, OnConflictDetected PROVE IInv'
<1>. DEFINE info == Head(mail)
            row == RowFor(info.rec)
            entry == [rec |-> info.rec, seen |-> info.seen, at |-> 0,
                      answer |-> Unanswered, chosen |-> <<0, 0>>]
<1>1. /\ mail # <<>>
      /\ rows' = IF info.rec = NoId THEN rows ELSE With(rows, row, entry)
      /\ nextRow' = IF row = nextRow THEN nextRow + 1 ELSE nextRow
      /\ identity' = With(identity, row, info)
      /\ waiting' = waiting \cup {[row |-> row, seen |-> info.seen]}
      /\ mail' = Tail(mail)
      /\ UNCHANGED <<version, base, pending, scheduled, fresh, passes, fetched,
                     injected, applied, stale, screen, stage, edits, faults>>
  BY DEF OnConflictDetected, Storable
<1>2. info \in AnyInfo /\ nextRow + 1 <= MaxRows + 1 /\ nextRow \in 1..MaxRows
  <2>1. Len(mail) \in Nat /\ Len(mail) >= 1 /\ info \in AnyInfo
    BY <1>1 DEF IInv, QueueTyped
  <2>. QED
    BY <2>1, BoundsAssumption DEF IInv, QueueTyped, TypeOK
<1>3. /\ row \in 1..nextRow /\ row \in 1..MaxRows
      /\ row \in DOMAIN rows => rows[row].rec = info.rec /\ rows[row].answer = Unanswered
      /\ row \notin DOMAIN rows => row = nextRow
  <2>1. CASE UnansweredRows(info.rec) # {}
    <3>1. row \in UnansweredRows(info.rec)
      BY <2>1 DEF RowFor
    <3>2. row \in DOMAIN rows /\ rows[row].rec = info.rec /\ rows[row].answer = Unanswered
      BY <3>1 DEF UnansweredRows
    <3>3. row \in 1..(nextRow - 1)
      BY <3>2 DEF IInv, TypeOK
    <3>. HIDE DEF row
    <3>. QED
      BY <3>2, <3>3, <1>2, BoundsAssumption
  <2>2. CASE UnansweredRows(info.rec) = {}
    <3>1. row = nextRow
      BY <2>2 DEF RowFor
    <3>2. nextRow \notin DOMAIN rows
      BY <1>2 DEF IInv, TypeOK
    <3>. QED
      BY <3>1, <3>2, <1>2
  <2>. QED
    BY <2>1, <2>2
<1>4. /\ info.rec = NoId => row \notin DOMAIN rows
      /\ info.rec # NoId => info.rec \in Ids /\ entry \in RowRecs
  BY <1>2, <1>3, IdsAssumption, Constants DEF AnyInfo, IInv, TypeOK, RowRecs
<1>. HIDE DEF info, row, entry
<1>5. /\ nextRow' \in 1..(MaxRows + 1) /\ nextRow <= nextRow' /\ nextRow' <= nextRow + 1
      /\ 1..(nextRow - 1) \subseteq 1..(nextRow' - 1) /\ row \in 1..(nextRow' - 1)
  BY <1>1, <1>2, <1>3, BoundsAssumption
<1>6. /\ info.rec # NoId =>
            /\ DOMAIN rows' = DOMAIN rows \cup {row}
            /\ \A r \in DOMAIN rows' : rows'[r] = IF r = row THEN entry ELSE rows[r]
      /\ info.rec = NoId => rows' = rows
      /\ DOMAIN identity' = DOMAIN identity \cup {row}
      /\ \A r \in DOMAIN identity' : identity'[r] = IF r = row THEN info ELSE identity[r]
  BY <1>1 DEF With
<1>7. entry.answer = Unanswered /\ entry.rec = info.rec /\ entry.seen = info.seen /\ entry.at = 0
  BY DEF entry
<1>8. TypeOK'
  <2>1. DOMAIN rows' \subseteq 1..(nextRow' - 1)
    BY <1>5, <1>6 DEF IInv, TypeOK
  <2>2. \A r \in DOMAIN rows' : rows'[r] \in RowRecs
    BY <1>4, <1>6 DEF IInv, TypeOK, RowRecs
  <2>3. \A r \in DOMAIN identity' : identity'[r] \in AnyInfo
    BY <1>2, <1>6 DEF IInv, TypeOK
  <2>4. waiting' \cup screen' \subseteq [row : 1..MaxRows, seen : Pairs]
    BY <1>1, <1>2, <1>3 DEF IInv, TypeOK, AnyInfo
  <2>5. \A i \in DOMAIN mail' : mail'[i] \in AnyInfo
    BY <1>1 DEF IInv, QueueTyped
  <2>. QED
    BY <1>1, <1>5, <2>1, <2>2, <2>3, <2>4, <2>5 DEF IInv, TypeOK, RowRecs
<1>9. QueueTyped'
  <2>1. mail' \in Seq(AnyInfo) /\ Len(mail') = Len(mail) - 1 /\ Len(mail) \in Nat
    BY <1>1 DEF IInv, QueueTyped
  <2>2. nextRow' + Len(mail') <= MaxRows + 1
    BY <2>1, <1>5, BoundsAssumption DEF IInv, QueueTyped, TypeOK
  <2>3. DOMAIN identity' \subseteq 1..(nextRow' - 1)
    BY <1>5, <1>6 DEF IInv, QueueTyped
  <2>4. stage = "done"
    BY <1>1 DEF IInv, QueueTyped
  <2>. QED
    BY <1>1, <2>1, <2>2, <2>3, <2>4 DEF IInv, QueueTyped, Resolutions
<1>10. AnswersOrdered'
  <2>1. CASE info.rec = NoId
    BY <2>1, <1>6 DEF IInv, AnswersOrdered
  <2>2. CASE info.rec # NoId
    <3>1. ASSUME NEW S \in SUBSET DOMAIN rows', S # {}
          PROVE  \E r \in S : \A q \in S : rows'[q].at <= rows'[r].at
      <4>1. CASE S \ {row} = {}
        BY <4>1, <3>1, <2>2, <1>6, <1>7
      <4>2. CASE S \ {row} # {}
        <5>1. S \ {row} \in SUBSET DOMAIN rows
          BY <2>2, <1>6
        <5>2. PICK r \in S \ {row} : \A q \in S \ {row} : rows[q].at <= rows[r].at
          BY <5>1, <4>2 DEF IInv, AnswersOrdered
        <5>3. rows[r].at \in Nat
          BY <5>1 DEF IInv, TypeOK
        <5>. QED
          BY <5>1, <5>2, <5>3, <2>2, <1>6, <1>7
      <4>. QED
        BY <4>1, <4>2
    <3>. QED
      BY <3>1, <2>2, <1>6, <1>7 DEF IInv, AnswersOrdered
  <2>. QED
    BY <2>1, <2>2
<1>11. IdentityOfRow'
  <2>. SUFFICES ASSUME NEW r \in DOMAIN identity', identity'[r].rec # NoId
                PROVE  /\ r \in DOMAIN rows'
                       /\ identity'[r] = [rec |-> rows'[r].rec, seen |-> rows'[r].seen]
    BY DEF IdentityOfRow
  <2>1. CASE r = row
    BY <2>1, <1>2, <1>6, <1>7 DEF AnyInfo
  <2>2. CASE r # row
    <3>1. /\ r \in DOMAIN rows
          /\ identity'[r] = [rec |-> rows[r].rec, seen |-> rows[r].seen]
      BY <2>2, <1>6 DEF IInv, IdentityOfRow
    <3>2. r \in DOMAIN rows' /\ rows'[r] = rows[r]
      BY <3>1, <2>2, <1>6
    <3>. QED
      BY <3>1, <3>2
  <2>. QED
    BY <2>1, <2>2
<1>12. \A id : /\ AnsweredRows(id)' = AnsweredRows(id)
               /\ \A r \in AnsweredRows(id) : rows'[r] = rows[r]
  BY <1>3, <1>6, <1>7 DEF AnsweredRows
<1>13. PendingIsLatest'
  BY <1>1, <1>12 DEF IInv, PendingIsLatest, Latest, AnswerOfRow
<1>14. AllAtHand' /\ WriteReady'
  <2>1. stage = "done"
    BY <1>1 DEF IInv, QueueTyped
  <2>. QED
    BY <2>1, <1>1 DEF AllAtHand, WriteReady
<1>. QED
  BY <1>8, <1>9, <1>10, <1>11, <1>13, <1>14 DEF IInv

(* consumeAppliedResolutions() forgets a row in memory and in the store.   *)
LEMMA CompletedStep == ASSUME IInv, OnSyncCompleted PROVE IInv'
<1>1. /\ mail = <<>> /\ mail' = <<>>
      /\ DOMAIN rows' = DOMAIN rows \ Consumed
      /\ \A r \in DOMAIN rows' : rows'[r] = rows[r]
      /\ DOMAIN identity' = DOMAIN identity \ Consumed
      /\ \A r \in DOMAIN identity' : identity'[r] = identity[r]
      /\ pending' = KeptPending
      /\ fetched' = Nothing /\ injected' = NoAnswers /\ applied' = {} /\ stale' = {}
      /\ UNCHANGED <<version, base, nextRow, waiting, screen, edits, faults>>
  BY DEF OnSyncCompleted, KeptRows, Drop
<1>2. /\ stage' \in {"idle", "started"} /\ passes' \in 0..MaxPasses
      /\ stage' = "started" => passes' # 0
  BY BoundsAssumption DEF OnSyncCompleted, IInv, TypeOK
<1>3. \A id \in Ids : pending'[id] # NoAnswer =>
         pending[id] # NoAnswer /\ pending'[id] = pending[id] /\ pending[id].row \notin Consumed
  BY <1>1 DEF KeptPending
<1>4. TypeOK'
  BY <1>1, <1>2, Constants DEF IInv, TypeOK, KeptPending, Resolutions
<1>5. QueueTyped'
  BY <1>1, <1>2, Constants DEF IInv, QueueTyped
<1>6. AnswersOrdered'
  <2>1. \A S : S \in SUBSET DOMAIN rows' =>
          S \in SUBSET DOMAIN rows /\ \A r \in S : rows'[r] = rows[r]
    BY <1>1
  <2>2. \A S \in SUBSET DOMAIN rows' :
          S # {} => \E r \in S : \A q \in S : rows'[q].at <= rows'[r].at
    BY <2>1 DEF IInv, AnswersOrdered
  <2>. QED
    BY <1>1, <2>2 DEF IInv, AnswersOrdered
<1>7. IdentityOfRow'
  BY <1>1 DEF IInv, IdentityOfRow
<1>8. PendingIsLatest'
  <2>. SUFFICES ASSUME NEW id \in Ids, pending'[id] # NoAnswer
                PROVE  (/\ Latest(id, pending[id].row)
                        /\ pending[id] = AnswerOfRow(pending[id].row))'
    BY DEF PendingIsLatest
  <2>1. /\ Latest(id, pending[id].row) /\ pending[id] = AnswerOfRow(pending[id].row)
        /\ pending'[id] = pending[id] /\ pending[id].row \notin Consumed
    BY <1>3 DEF IInv, PendingIsLatest
  <2>2. pending[id].row \in DOMAIN rows'
    BY <2>1, <1>1 DEF Latest, AnsweredRows
  <2>. QED
    BY <2>1, <2>2, <1>1 DEF Latest, AnsweredRows, AnswerOfRow
<1>9. AllAtHand' /\ WriteReady'
  BY <1>2 DEF AllAtHand, WriteReady
<1>. QED
  BY <1>4, <1>5, <1>6, <1>7, <1>8, <1>9 DEF IInv

(* An answer is the last of all, in the store and in memory.               *)
LEMMA AnswerStep ==
    ASSUME IInv, NEW shown \in screen, NEW a \in Answers, Answer(shown, a) PROVE IInv'
<1>. DEFINE row == shown.row
            subject == Subject(row)
            answered == [rows[row] EXCEPT !.answer = a, !.chosen = shown.seen,
                                          !.at = AfterOthers(row)]
            resolution == [row |-> row, answer |-> a,
                           seen |-> subject.seen, chosen |-> shown.seen]
<1>1. /\ row \in 1..MaxRows /\ shown.seen \in Pairs
      /\ a \in AnyAnswer /\ a # Unanswered
  BY Constants DEF IInv, TypeOK
<1>2. /\ screen' \subseteq screen
      /\ rows' = IF row \in DOMAIN rows THEN With(rows, row, answered) ELSE rows
      /\ subject.rec = NoId => pending' = pending
      /\ subject.rec # NoId => pending' = [pending EXCEPT ![subject.rec] = resolution]
      /\ UNCHANGED <<version, base, nextRow, identity, waiting, scheduled, passes, worker,
                     stage, edits, faults>>
  BY DEF Answer
<1>3. /\ row \in DOMAIN rows =>
            /\ rows[row] \in RowRecs
            /\ subject = [rec |-> rows[row].rec, seen |-> rows[row].seen]
            /\ subject.rec # NoId
      /\ row \notin DOMAIN rows => subject.rec = NoId
  <2>1. row \in DOMAIN rows => rows[row] \in RowRecs
    BY DEF IInv, TypeOK, RowRecs
  <2>. QED
    BY <2>1, IdsAssumption DEF Subject, RowRecs, IInv, IdentityOfRow
<1>4. CASE row \notin DOMAIN rows
  <2>1. rows' = rows /\ pending' = pending
    BY <1>2, <1>3, <1>4
  <2>2. TypeOK' /\ QueueTyped'
    BY <2>1, <1>2 DEF IInv, TypeOK, QueueTyped, Resolutions
  <2>3. AnswersOrdered' /\ IdentityOfRow'
    BY <2>1, <1>2 DEF IInv, AnswersOrdered, IdentityOfRow
  <2>4. PendingIsLatest' /\ AllAtHand' /\ WriteReady'
    BY <2>1, <1>2 DEF IInv, PendingIsLatest, Latest, AnsweredRows, AnswerOfRow, AllAtHand,
                      WriteReady, InConflict, Changed, Both
  <2>. QED
    BY <2>2, <2>3, <2>4 DEF IInv
<1>5. CASE row \in DOMAIN rows
  <2>. DEFINE times == {rows[r].at : r \in DOMAIN rows \ {row}}
  <2>0. PICK id : id = rows[row].rec
    OBVIOUS
  <2>1. /\ AfterOthers(row) \in Nat
        /\ \A r \in DOMAIN rows \ {row} : rows[r].at < AfterOthers(row)
    <3>1. times \subseteq Nat
      BY DEF IInv, TypeOK
    <3>2. \E n \in {0} \cup times : \A m \in times : m <= n
      <4>1. CASE DOMAIN rows \ {row} = {}
        BY <4>1
      <4>2. CASE DOMAIN rows \ {row} # {}
        <5>1. DOMAIN rows \ {row} \in SUBSET DOMAIN rows
          OBVIOUS
        <5>2. PICK r \in DOMAIN rows \ {row} :
                 \A q \in DOMAIN rows \ {row} : rows[q].at <= rows[r].at
          BY <4>2, <5>1 DEF IInv, AnswersOrdered
        <5>. QED
          BY <5>2
      <4>. QED
        BY <4>1, <4>2
    <3>3. PICK n : /\ n \in {0} \cup times /\ \A m \in times : m <= n
                   /\ AfterOthers(row) = 1 + n
      BY <3>2 DEF AfterOthers
    <3>4. \A r \in DOMAIN rows \ {row} : rows[r].at \in times
      OBVIOUS
    <3>5. n \in Nat /\ \A r \in DOMAIN rows \ {row} : rows[r].at \in Nat /\ rows[r].at <= n
      BY <3>1, <3>3, <3>4
    <3>6. \A r \in DOMAIN rows \ {row} : rows[r].at < 1 + n
      BY <3>5
    <3>. HIDE DEF row
    <3>. QED
      BY <3>3, <3>5, <3>6
  <2>2. /\ answered \in RowRecs
        /\ answered.rec = id /\ answered.seen = rows[row].seen /\ answered.answer = a
        /\ answered.chosen = shown.seen /\ answered.at = AfterOthers(row)
    BY <1>1, <1>3, <1>5, <2>0, <2>1 DEF RowRecs
  <2>3. /\ id \in Ids /\ resolution \in Resolutions /\ resolution.row = row
        /\ pending' = [pending EXCEPT ![id] = resolution]
    BY <1>1, <1>2, <1>3, <1>5, <2>0, BoundsAssumption DEF RowRecs, Resolutions
  <2>4. resolution = [row |-> row, answer |-> answered.answer,
                      seen |-> answered.seen, chosen |-> answered.chosen]
    BY <2>2, <1>3, <1>5
  <2>. HIDE DEF answered, resolution, subject
  <2>5. /\ DOMAIN rows' = DOMAIN rows
        /\ \A r \in DOMAIN rows : rows'[r] = IF r = row THEN answered ELSE rows[r]
    BY <1>2, <1>5 DEF With
  <2>6. TypeOK'
    <3>1. \A r \in DOMAIN rows' : rows'[r] \in RowRecs
      BY <2>2, <2>5 DEF IInv, TypeOK, RowRecs
    <3>2. pending' \in [Ids -> Resolutions]
      BY <2>3 DEF IInv, TypeOK, Resolutions
    <3>. QED
      BY <3>1, <3>2, <1>2, <2>5 DEF IInv, TypeOK, RowRecs, Resolutions
  <2>7. QueueTyped'
    BY <1>2 DEF IInv, QueueTyped, Resolutions
  <2>8. AnswersOrdered'
    <3>1. ASSUME NEW S \in SUBSET DOMAIN rows', S # {}
          PROVE  \E r \in S : \A q \in S : rows'[q].at <= rows'[r].at
      <4>1. CASE row \in S
        <5>1. rows'[row].at = AfterOthers(row) /\ S \subseteq DOMAIN rows
          BY <4>1, <2>2, <2>5
        <5>2. \A q \in S : rows'[q].at <= AfterOthers(row)
          BY <2>1, <2>2, <2>5, <5>1 DEF IInv, TypeOK
        <5>. QED
          BY <4>1, <5>1, <5>2
      <4>2. CASE row \notin S
        <5>1. S \in SUBSET DOMAIN rows /\ \A r \in S : rows'[r] = rows[r]
          BY <4>2, <2>5
        <5>. QED
          BY <5>1, <3>1 DEF IInv, AnswersOrdered
      <4>. QED
        BY <4>1, <4>2
    <3>2. \A r \in DOMAIN rows : rows[r].at \in Nat
      BY DEF IInv, TypeOK
    <3>3. ASSUME NEW r \in DOMAIN rows', NEW q \in DOMAIN rows',
                 rows'[r].answer # Unanswered, rows'[q].answer # Unanswered,
                 rows'[r].at = rows'[q].at
          PROVE  r = q
      BY <3>2, <3>3, <2>1, <2>2, <2>5 DEF IInv, AnswersOrdered
    <3>. QED
      BY <3>1, <3>3 DEF AnswersOrdered
  <2>9. IdentityOfRow'
    <3>1. \A r \in DOMAIN rows : rows'[r].rec = rows[r].rec /\ rows'[r].seen = rows[r].seen
      BY <2>0, <2>2, <2>5
    <3>. QED
      BY <1>2, <2>5, <3>1 DEF IInv, IdentityOfRow
  <2>10. ASSUME NEW other \in Ids, other # id
         PROVE  /\ AnsweredRows(other)' = AnsweredRows(other)
                /\ \A r \in AnsweredRows(other) : rows'[r] = rows[r]
                /\ pending'[other] = pending[other]
    <3>1. row \notin AnsweredRows(other) /\ row \notin AnsweredRows(other)'
      BY <2>0, <2>2, <2>5, <2>10, <1>5 DEF AnsweredRows
    <3>2. \A r : r # row => (r \in AnsweredRows(other) <=> r \in AnsweredRows(other)')
      BY <2>5 DEF AnsweredRows
    <3>3. \A r \in AnsweredRows(other) : rows'[r] = rows[r]
      BY <3>1, <2>5 DEF AnsweredRows
    <3>4. pending'[other] = pending[other]
      BY <2>3, <2>10 DEF IInv, TypeOK
    <3>. QED
      BY <3>1, <3>2, <3>3, <3>4
  <2>11. /\ Latest(id, row)' /\ pending'[id] = resolution /\ resolution = AnswerOfRow(row)'
         /\ pending'[id] # NoAnswer
    <3>1. row \in AnsweredRows(id)' /\ AnsweredRows(id)' \subseteq DOMAIN rows
      BY <1>1, <1>5, <2>2, <2>5 DEF AnsweredRows
    <3>2. \A q \in AnsweredRows(id)' : rows'[q].at <= rows'[row].at
      BY <3>1, <1>5, <2>1, <2>2, <2>5 DEF IInv, TypeOK
    <3>3. pending'[id] = resolution /\ resolution = AnswerOfRow(row)'
      BY <1>5, <2>3, <2>4, <2>5 DEF AnswerOfRow, IInv, TypeOK
    <3>4. resolution # NoAnswer
      BY <2>3, <1>1, BoundsAssumption DEF NoAnswer
    <3>. QED
      BY <3>1, <3>2, <3>3, <3>4 DEF Latest
  <2>12. PendingIsLatest'
    <3>. SUFFICES ASSUME NEW other \in Ids, pending'[other] # NoAnswer
                  PROVE  (/\ Latest(other, pending[other].row)
                          /\ pending[other] = AnswerOfRow(pending[other].row))'
      BY DEF PendingIsLatest
    <3>1. CASE other = id
      <4>1. pending'[other].row = row /\ pending'[other] = AnswerOfRow(row)'
        BY <3>1, <2>3, <2>11
      <4>. HIDE DEF row
      <4>. QED
        BY <4>1, <3>1, <2>11 DEF Latest, AnswerOfRow
    <3>2. CASE other # id
      <4>1. /\ pending'[other] = pending[other] /\ Latest(other, pending[other].row)
            /\ pending[other] = AnswerOfRow(pending[other].row)
        BY <3>2, <2>10 DEF IInv, PendingIsLatest
      <4>. QED
        BY <4>1, <3>2, <2>10 DEF Latest, AnswerOfRow
    <3>. QED
      BY <3>1, <3>2
  <2>13. AllAtHand'
    BY <1>2, <2>10, <2>11 DEF IInv, AllAtHand
  <2>14. WriteReady'
    BY <1>2 DEF IInv, WriteReady, InConflict, Changed, Both
  <2>. QED
    BY <2>6, <2>7, <2>8, <2>9, <2>12, <2>13, <2>14 DEF IInv
<1>. QED
  BY <1>4, <1>5

(* What is on a screen, or shown next, concerns neither store nor walk.    *)
LEMMA ScreenStep ==
    ASSUME IInv, PresentPendingConflicts \/ ListConflicts \/ \E shown \in screen : Skip(shown)
    PROVE  IInv'
<1>1. /\ UNCHANGED <<version, base, store, identity, pending, fresh, passes, worker, stage,
                     edits, faults>>
      /\ waiting' \subseteq waiting
  BY DEF PresentPendingConflicts, ListConflicts, Skip
<1>2. screen' \subseteq [row : 1..MaxRows, seen : Pairs]
  <2>1. CASE PresentPendingConflicts \/ \E shown \in screen : Skip(shown)
    BY <2>1 DEF PresentPendingConflicts, Skip, IInv, TypeOK
  <2>2. CASE ListConflicts
    <3>1. \A r \in DOMAIN rows : r \in 1..MaxRows /\ rows[r].seen \in Pairs
      BY BoundsAssumption DEF IInv, TypeOK
    <3>. QED
      BY <2>2, <3>1 DEF ListConflicts, IInv, TypeOK
  <2>. QED
    BY <2>1, <2>2
<1>3. TypeOK'
  BY <1>1, <1>2 DEF IInv, TypeOK
<1>4. QueueTyped' /\ AnswersOrdered' /\ IdentityOfRow'
  BY <1>1 DEF IInv, QueueTyped, Resolutions, AnswersOrdered, IdentityOfRow
<1>5. PendingIsLatest' /\ AllAtHand'
  BY <1>1 DEF IInv, PendingIsLatest, Latest, AnsweredRows, AnswerOfRow, AllAtHand
<1>6. WriteReady'
  BY <1>1 DEF IInv, WriteReady, InConflict, Changed, Both
<1>. QED
  BY <1>3, <1>4, <1>5, <1>6 DEF IInv

(* A user's edit, however late, leaves the answers as they are.            *)
LEMMA EditStep ==
    ASSUME IInv, NEW s \in Sides, NEW id \in Ids, Edit(s, id) \/ Delete(s, id) PROVE IInv'
<1>1. /\ edits' \in 0..MaxEdits /\ version[s][id] # Absent
      /\ UNCHANGED <<base, store, engine, worker, screen, stage, faults>>
      /\ version' \in [Sides -> [Ids -> Versions]]
      /\ \A t \in Sides, i \in Ids :
            version[t][i] = Absent => version'[t][i] = Absent
  <2>1. /\ edits \in 0..MaxEdits /\ edits < MaxEdits /\ edits' = edits + 1
        /\ version[s][id] # Absent
        /\ UNCHANGED <<base, store, engine, worker, screen, stage, faults>>
    BY DEF Edit, Delete, IInv, QueueTyped
  <2>2. PICK v : v \in Versions /\ version' = [version EXCEPT ![s][id] = v]
    <3>1. CASE Edit(s, id)
      BY <2>1, <3>1, Constants DEF Edit
    <3>2. CASE Delete(s, id)
      BY <3>2, Constants DEF Delete
    <3>. QED
      BY <3>1, <3>2
  <2>3. edits' \in 0..MaxEdits
    BY <2>1, Constants
  <2>4. version \in [Sides -> [Ids -> Versions]]
    BY DEF IInv, TypeOK
  <2>5. /\ version' \in [Sides -> [Ids -> Versions]]
        /\ \A t \in Sides, i \in Ids : t # s \/ i # id => version'[t][i] = version[t][i]
    BY <2>2, <2>4
  <2>. QED
    BY <2>1, <2>3, <2>5
<1>2. TypeOK'
  BY <1>1 DEF IInv, TypeOK
<1>3. QueueTyped' /\ AnswersOrdered' /\ IdentityOfRow'
  BY <1>1 DEF IInv, QueueTyped, Resolutions, AnswersOrdered, IdentityOfRow
<1>4. PendingIsLatest' /\ AllAtHand'
  BY <1>1 DEF IInv, PendingIsLatest, Latest, AnsweredRows, AnswerOfRow, AllAtHand
<1>5. WriteReady'
  <2>1. ASSUME NEW i \in Ids
        PROVE InConflict(fetched, i)' <=> InConflict(fetched, i)
    BY <1>1 DEF InConflict, Changed, Both
  <2>. QED
    BY <1>1, <2>1 DEF IInv, WriteReady, Both
<1>. QED
  BY <1>2, <1>3, <1>4, <1>5 DEF IInv

LEMMA RestartStep == ASSUME IInv, Restart PROVE IInv'
<1>. USE DEF Restart
<1>1. TypeOK'
  BY Constants, BoundsAssumption DEF IInv, TypeOK, Resolutions
<1>2. QueueTyped'
  <2>1. nextRow \in 1..(MaxRows + 1) /\ faults' \in 0..MaxFaults
    BY BoundsAssumption DEF IInv, TypeOK, QueueTyped
  <2>2. Len(<<>>) = 0 /\ <<>> \in Seq(AnyInfo)
    OBVIOUS
  <2>. QED
    BY <2>1, <2>2, Constants, BoundsAssumption DEF IInv, QueueTyped
<1>3. AnswersOrdered' /\ IdentityOfRow'
  BY DEF IInv, AnswersOrdered, IdentityOfRow
<1>4. PendingIsLatest' /\ AllAtHand' /\ WriteReady'
  BY DEF PendingIsLatest, NoAnswers, AllAtHand, WriteReady
<1>. QED
  BY <1>1, <1>2, <1>3, <1>4 DEF IInv

LEMMA NextInv == ASSUME IInv, [Next]_vars PROVE IInv'
<1>1. CASE StartRun
  BY <1>1, StartRunStep
<1>2. CASE Dispatch
  BY <1>2, DispatchStep
<1>3. CASE WriteSucceeds \/ WriteFails
  BY <1>3, WriteStep
<1>4. CASE OnConflictDetected
  BY <1>4, DetectedStep
<1>5. CASE OnSyncCompleted
  BY <1>5, CompletedStep
<1>6. CASE PresentPendingConflicts \/ ListConflicts \/ \E shown \in screen : Skip(shown)
  BY <1>6, ScreenStep
<1>7. CASE \E shown \in screen, a \in Answers : Answer(shown, a)
  BY <1>7, AnswerStep
<1>8. CASE \E s \in Sides, id \in Ids : Edit(s, id) \/ Delete(s, id)
  BY <1>8, EditStep
<1>9. CASE Restart
  BY <1>9, RestartStep
<1>10. CASE UNCHANGED vars
  <2>1. TypeOK' /\ QueueTyped' /\ AnswersOrdered' /\ IdentityOfRow'
    BY <1>10 DEF IInv, TypeOK, QueueTyped, Resolutions, AnswersOrdered, IdentityOfRow
  <2>2. PendingIsLatest' /\ AllAtHand'
    BY <1>10 DEF IInv, PendingIsLatest, Latest, AnsweredRows, AnswerOfRow, AllAtHand
  <2>3. WriteReady'
    BY <1>10 DEF IInv, WriteReady, InConflict, Changed, Both
  <2>. QED
    BY <2>1, <2>2, <2>3 DEF IInv
<1>. QED
  BY <1>1, <1>2, <1>3, <1>4, <1>5, <1>6, <1>7, <1>8, <1>9, <1>10 DEF Next

(* What the engine remembers of a conflict always agrees with the store.   *)
THEOREM Invariance == Spec => []IInv
BY InitInv, NextInv, PTL DEF Spec

(* An answer in memory survives a crash at any moment: it is the last one  *)
(* stored for its record, word for word.                                   *)
THEOREM Durable == Spec => []AnswersDurable
BY Invariance, DurableOf, PTL

(* The walk's side of NoEditLost.                                          *)
LEMMA OverwrittenByAnswer ==
    ASSUME IInv, WriteSucceeds \/ WriteFails, NEW s \in Sides, NEW id \in Ids,
           version'[s][id] # version[s][id], Changed(fetched, s, id)
    PROVE  /\ injected[id].answer = IF s = "source" THEN "TargetWins" ELSE "SourceWins"
           /\ injected[id].seen = Both(fetched, id)
<1>1. stage = "write" /\ \E ids : version' = After(ids)
  BY DEF WriteSucceeds, WriteFails
<1>2. s = Other(Winner(id)) /\ version'[s][id] = fetched[Winner(id)][id]
  BY <1>1 DEF After
<1>3. s = "source" \/ s = "target"
  BY DEF Sides
<1>4. CASE InConflict(fetched, id)
  <2>1. injected[id].answer \in Answers /\ injected[id].seen = Both(fetched, id)
    BY <1>1, <1>4 DEF IInv, WriteReady
  <2>. QED
    BY <2>1, <1>2, <1>3, <1>4, AnswersAssumption DEF Winner, Other
<1>5. CASE ~InConflict(fetched, id)
  <2>1. Winner(id) = "source" /\ Changed(fetched, "source", id) /\ s = "target"
    BY <1>2, <1>3, <1>5 DEF Winner, Other
  <2>2. Both(fetched, id) = <<Absent, Absent>>
    BY <2>1, <1>5 DEF InConflict, Sides
  <2>3. fetched["source"][id] = Absent /\ fetched["target"][id] = Absent
    BY <2>2 DEF Both
  <2>4. version[s][id] = Absent
    BY <2>1, <2>3, <1>1 DEF IInv, WriteReady
  <2>. QED
    BY <2>1, <2>3, <2>4, <1>2
<1>. QED
  BY <1>4, <1>5

(* No edit is overwritten but by an answer to the very two versions        *)
(* fetched that chose the other side.                                      *)
THEOREM EditsKept == Spec => NoEditLost
<1>1. ASSUME IInv, [Next]_vars
      PROVE [WriteSucceeds \/ WriteFails =>
               \A s \in Sides, id \in Ids :
                  version'[s][id] # version[s][id] /\ Changed(fetched, s, id) =>
                     /\ injected[id].answer = IF s = "source" THEN "TargetWins" ELSE "SourceWins"
                     /\ injected[id].seen = Both(fetched, id)]_vars
  BY <1>1, OverwrittenByAnswer
<1>. QED
  BY <1>1, Invariance, PTL DEF Spec, NoEditLost

(* An answer that still fits is used by the next walk that could use it.   *)
THEOREM Used == Spec => AnswersUsed
<1>1. ASSUME IInv, Dispatch, passes = 0, NEW id \in Ids, NEW r \in AnsweredRows(id),
             InConflict(version, id),
             \A q \in AnsweredRows(id) : rows[q].at <= rows[r].at,
             rows[r].seen = Both(version, id)
      PROVE  injected'[id].row = r /\ r \notin stale'
  <2>1. Latest(id, r) /\ AnsweredRows(id) # {}
    BY <1>1 DEF Latest
  <2>2. pending[id] # NoAnswer
    BY <1>1, <2>1 DEF IInv, AllAtHand, Dispatch
  <2>3. pending[id] = AnswerOfRow(r)
    <3>1. Latest(id, pending[id].row) /\ pending[id] = AnswerOfRow(pending[id].row)
      BY <1>1, <2>2 DEF IInv, PendingIsLatest
    <3>. QED
      BY <3>1, <2>1, <1>1, LastExists DEF IInv
  <2>4. pending[id].row = r /\ pending[id].seen = Both(version, id)
    BY <2>3, <1>1 DEF AnswerOfRow
  <2>5. injected' = pending /\ fetched' = version
    BY <1>1 DEF Dispatch
  <2>6. ASSUME NEW i \in Ids, pending[i] # NoAnswer, pending[i].row = r PROVE i = id
    <3>1. Latest(i, r)
      BY <1>1, <2>6 DEF IInv, PendingIsLatest
    <3>. QED
      BY <3>1, <1>1 DEF Latest, AnsweredRows
  <2>7. \A x \in stale' : \E i \in Ids :
           /\ x = pending[i].row /\ pending[i] # NoAnswer
           /\ pending[i].seen # Both(version, i)
    BY <1>1, <2>5 DEF Dispatch, StillSeen, Both
  <2>. QED
    BY <2>4, <2>5, <2>6, <2>7
<1>2. ASSUME IInv, [Next]_vars
      PROVE [Dispatch /\ passes = 0 =>
               \A id \in Ids : \A r \in AnsweredRows(id) :
                  /\ InConflict(version, id)
                  /\ \A q \in AnsweredRows(id) : rows[q].at <= rows[r].at
                  /\ rows[r].chosen = Both(version, id) /\ rows[r].seen = Both(version, id)
                  => injected'[id].row = r /\ r \notin stale']_vars
  BY <1>1, <1>2
<1>. QED
  BY <1>2, Invariance, PTL DEF Spec, AnswersUsed
=============================================================================
