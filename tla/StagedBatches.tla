---------------------------- MODULE StagedBatches ----------------------------
(***************************************************************************)
(* What a backend of local files promises for the changes an application   *)
(* stages (startSync() and its syncCompleted or syncFailed): one answer    *)
(* for each call, in the order of the calls, which is a success only when  *)
(* every family of the batch was written.                                  *)
(***************************************************************************)
EXTENDS Sequences, Integers

CONSTANTS Batches, MaxFamilies

VARIABLES
    waiting,   \* batches that are not answered, first come first
    left,      \* how many families of a batch are still to be written
    failed,    \* whether one could not be
    answer,    \* what a batch was answered: "none", "ok" or "failed"
    open       \* whether the backend still exists

vars == <<waiting, left, failed, answer, open>>

Init ==
    /\ waiting = <<>> /\ open = TRUE
    /\ left = [b \in Batches |-> 0]
    /\ failed = [b \in Batches |-> FALSE]
    /\ answer = [b \in Batches |-> "none"]

Asked(b) == answer[b] # "none" \/ \E i \in 1..Len(waiting) : waiting[i] = b

Submit(b, n) ==
    /\ open /\ ~Asked(b)
    /\ waiting' = Append(waiting, b)
    /\ left' = [left EXCEPT ![b] = n]
    /\ UNCHANGED <<failed, answer, open>>

(* Nothing to write, or nowhere: answered on the spot.                     *)
AnswerAtOnce(b, a) ==
    /\ open /\ ~Asked(b)
    /\ answer' = [answer EXCEPT ![b] = a]
    /\ failed' = [failed EXCEPT ![b] = (a = "failed")]
    /\ UNCHANGED <<waiting, left, open>>

WriteFamily(ok) ==
    /\ open /\ waiting # <<>> /\ left[Head(waiting)] > 0
    /\ left' = [left EXCEPT ![Head(waiting)] = @ - 1]
    /\ failed' = [failed EXCEPT ![Head(waiting)] = @ \/ ~ok]
    /\ UNCHANGED <<waiting, answer, open>>

AnswerFirst ==
    /\ open /\ waiting # <<>> /\ left[Head(waiting)] = 0
    /\ answer' = [answer EXCEPT ![Head(waiting)] =
                    IF failed[Head(waiting)] THEN "failed" ELSE "ok"]
    /\ waiting' = Tail(waiting)
    /\ UNCHANGED <<left, failed, open>>

Close ==
    /\ open /\ open' = FALSE
    /\ UNCHANGED <<waiting, left, failed, answer>>

Next ==
    \/ \E b \in Batches : \/ \E n \in 1..MaxFamilies : Submit(b, n)
                          \/ \E a \in {"ok", "failed"} : AnswerAtOnce(b, a)
    \/ \E ok \in BOOLEAN : WriteFamily(ok)
    \/ AnswerFirst
    \/ Close

(* A batch is written and answered while the backend exists.               *)
Progress == (\E ok \in BOOLEAN : WriteFamily(ok)) \/ AnswerFirst

Spec == Init /\ [][Next]_vars /\ WF_vars(Progress)
=============================================================================
