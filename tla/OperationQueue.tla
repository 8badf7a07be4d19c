---------------------------- MODULE OperationQueue ----------------------------
(***************************************************************************)
(* The operations of one collection of a backend (SyncOperation in         *)
(* src/sync/syncoperation.cpp) and the queue that starts them one at a     *)
(* time (enqueueOperation() and what follows it in                         *)
(* src/sync/syncbackendbase.cpp).  An operation is an object its caller    *)
(* may cancel or delete at any moment; the queue hears of either by a      *)
(* signal, and starts a body one turn of the event loop after its turn.    *)
(***************************************************************************)
EXTENDS Sequences, FiniteSets, Integers

CONSTANTS
    Ops, NoOp,
    DeletesEarly    \* whether callers delete operations that are not over

ASSUME OperationAssumption ==
    /\ NoOp \notin Ops /\ "dangling" \notin Ops \union {NoOp}
    /\ DeletesEarly \in BOOLEAN

VARIABLES
    opState,     \* state of each operation; "unborn" before it is made
    opq,         \* m_opQueue of the collection
    inFlight,    \* m_opInFlight of the collection: an operation, NoOp, or
                 \* "dangling", an entry whose operation was deleted
    posted       \* operations whose start is posted to the event loop

opVars == <<opState, opq, inFlight, posted>>

Terminal == {"succeeded", "failed", "cancelled"}
Over(op) == opState[op] \in Terminal \union {"deleted"}

OpTypeOK ==
    /\ opState \in [Ops -> {"unborn", "pending", "running", "deleted"} \union Terminal]
    /\ opq \in Seq(Ops)
    /\ inFlight \in Ops \union {NoOp, "dangling"}
    /\ posted \subseteq Ops

OpInit ==
    /\ opState = [op \in Ops |-> "unborn"]
    /\ opq = <<>> /\ inFlight = NoOp /\ posted = {}

(* maybeStartNext(): entries before the first whose operation is still to  *)
(* be run are thrown away.                                                 *)
MaybeStartNext(q, flight, states) ==
    LET live == {i \in 1..Len(q) : states[q[i]] = "pending"}
    IN IF flight # NoOp
       THEN opq' = q /\ inFlight' = flight /\ UNCHANGED posted
       ELSE IF live = {}
       THEN opq' = <<>> /\ inFlight' = NoOp /\ UNCHANGED posted
       ELSE \E first \in live :
            /\ \A i \in live : first <= i
            /\ inFlight' = q[first]
            /\ opq' = [i \in 1..(Len(q) - first) |-> q[first + i]]
            /\ posted' = posted \union {q[first]}

Enqueue(op) ==
    /\ opState[op] = "unborn"
    /\ opState' = [opState EXCEPT ![op] = "pending"]
    /\ MaybeStartNext(Append(opq, op), inFlight, opState')

(* onOperationSettled(), in the signal an operation emits when it ends:    *)
(* its entry, if it still waits for its turn, is removed.                  *)
WithoutEntry(q, entry) ==
    [i \in 1..(Len(q) - 1) |-> IF i < entry THEN q[i] ELSE q[i + 1]]
Settled(op, states) ==
    IF inFlight = op THEN MaybeStartNext(opq, NoOp, states)
    ELSE \/ /\ \A i \in 1..Len(opq) : opq[i] # op
            /\ MaybeStartNext(opq, inFlight, states)
         \/ \E entry \in 1..Len(opq) :
            /\ opq[entry] = op /\ \A i \in 1..(entry - 1) : opq[i] # op
            /\ MaybeStartNext(WithoutEntry(opq, entry), inFlight, states)

(* setState() to a terminal state, which no later one replaces.            *)
End(op, outcome) ==
    /\ opState[op] \notin Terminal
    /\ opState' = [opState EXCEPT ![op] = outcome]
    /\ Settled(op, opState')

CancelOp(op) ==
    /\ opState[op] \in {"pending", "running"}
    /\ End(op, "cancelled")

(* The pointers to an object that is deleted are already null when it says *)
(* so: its entry in flight is not recognised any more, and stays.          *)
DeleteOp(op) ==
    /\ opState[op] # "unborn" /\ opState[op] # "deleted"
    /\ DeletesEarly \/ opState[op] \in Terminal
    /\ opState' = [opState EXCEPT ![op] = "deleted"]
    /\ IF inFlight = op
       THEN inFlight' = "dangling" /\ UNCHANGED <<opq, posted>>
       ELSE MaybeStartNext(opq, inFlight, opState')

(* The posted start of an operation that ended meanwhile does nothing.     *)
StartBody(op) ==
    /\ op \in posted /\ opState[op] = "pending"
    /\ posted' = posted \ {op}
    /\ opState' = [opState EXCEPT ![op] = "running"]
    /\ UNCHANGED <<opq, inFlight>>

StartNothing(op) ==
    /\ op \in posted /\ opState[op] # "pending"
    /\ posted' = posted \ {op}
    /\ UNCHANGED <<opState, opq, inFlight>>
-----------------------------------------------------------------------------
(* What may be in a queue: each operation once, not started, and no longer *)
(* there when it is in flight.                                             *)
QueueSound ==
    /\ \A i, j \in 1..Len(opq) : opq[i] = opq[j] => i = j
    /\ \A i \in 1..Len(opq) : /\ opState[opq[i]] \in {"pending", "deleted"}
                              /\ opq[i] # inFlight /\ opq[i] \notin posted
    /\ \A op \in posted : opState[op] # "unborn"

(* One operation at a time runs, or is about to, and it is the one in      *)
(* flight.                                                                 *)
OneAtATime ==
    \A op \in Ops : opState[op] = "running" \/ (op \in posted /\ opState[op] = "pending")
                   => inFlight = op

(* No operation is forgotten: one that waits is in flight or queued behind *)
(* what is, and what is in flight runs or will be started.                 *)
NoneForgotten ==
    /\ \A op \in Ops : opState[op] = "pending" =>
          op = inFlight \/ \E i \in 1..Len(opq) : opq[i] = op
    /\ inFlight = NoOp => opq = <<>>
    /\ inFlight \in Ops => \/ opState[inFlight] = "running"
                           \/ opState[inFlight] = "pending" /\ inFlight \in posted

(* What holds of the operations of any backend (the queue of               *)
(* SyncBackendBase).                                                       *)
OpInv == OpTypeOK /\ QueueSound /\ OneAtATime /\ NoneForgotten
=============================================================================
