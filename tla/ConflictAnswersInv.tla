------------------------- MODULE ConflictAnswersInv -------------------------
(***************************************************************************)
(* The inductive invariant of ConflictAnswers: how what the engine has in  *)
(* memory of a conflict stays tied to the row the store has of it.         *)
(***************************************************************************)
EXTENDS ConflictAnswers

Resolutions == [row : 0..MaxRows, answer : AnyAnswer, seen : Pairs, chosen : Pairs]

(* The types TypeOK leaves out, and room in the store for every signal on  *)
(* its way.                                                                *)
QueueTyped ==
    /\ fetched \in [Sides -> [Ids -> Versions]]
    /\ injected \in [Ids -> Resolutions]
    /\ edits \in 0..MaxEdits /\ faults \in 0..MaxFaults
    /\ DOMAIN identity \subseteq 1..(nextRow - 1)
    /\ mail \in Seq(AnyInfo)
    /\ nextRow + Len(mail) <= MaxRows + 1
    /\ stage # "done" => mail = <<>>

(* Of any rows one was answered last, and no two at the same time.         *)
AnswersOrdered ==
    /\ \A S \in SUBSET DOMAIN rows :
          S # {} => \E r \in S : \A q \in S : rows[q].at <= rows[r].at
    /\ \A r, q \in DOMAIN rows :
          /\ rows[r].answer # Unanswered /\ rows[q].answer # Unanswered
          /\ rows[r].at = rows[q].at
          => r = q

(* What the engine knows a shown row to be about is what the store says.   *)
IdentityOfRow ==
    \A r \in DOMAIN identity : identity[r].rec # NoId =>
        r \in DOMAIN rows /\ identity[r] = [rec |-> rows[r].rec, seen |-> rows[r].seen]

(* AnswersDurable, without the CHOOSE.                                     *)
Latest(id, r) ==
    r \in AnsweredRows(id) /\ \A q \in AnsweredRows(id) : rows[q].at <= rows[r].at
PendingIsLatest ==
    \A id \in Ids : pending[id] # NoAnswer =>
        Latest(id, pending[id].row) /\ pending[id] = AnswerOfRow(pending[id].row)

(* The first walk of a run has every stored answer at hand.                *)
AllAtHand ==
    stage = "started" /\ passes = 0 =>
        \A id \in Ids : AnsweredRows(id) # {} => pending[id] # NoAnswer

(* What a run may write by: each conflict has an answer to what was        *)
(* fetched, and a record found deleted stays so.                           *)
WriteReady ==
    stage = "write" => \A id \in Ids :
        /\ InConflict(fetched, id) =>
              /\ injected[id].row # 0 /\ injected[id].answer \in Answers
              /\ injected[id].seen = Both(fetched, id)
        /\ \A s \in Sides : fetched[s][id] = Absent => version[s][id] = Absent

IInv ==
    /\ TypeOK
    /\ QueueTyped
    /\ AnswersOrdered
    /\ IdentityOfRow
    /\ PendingIsLatest
    /\ AllAtHand
    /\ WriteReady
=============================================================================
